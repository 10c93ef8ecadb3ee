------------------------------- MODULE Paging -------------------------------
(***************************************************************************)
(* A client reads a list, of footprints or of transport activity data, and *)
(* follows the Link headers it is given.  listFootprints and listTADs      *)
(* (server.go) treat limit, offset and links alike, and so do the two list *)
(* operations of the demo handler (ileapdemo/handler.go): the list here is *)
(* either.                                                                 *)
(*                                                                         *)
(* The service behind the server is the demo handler, or a backend reached *)
(* through ileapconnect, which may answer with fewer items than asked for  *)
(* (ileap_service.proto), or with none, and whose list may grow at its end *)
(* while it is read.  A response is written piece by piece, and may break  *)
(* off at any of them.                                                     *)
(*                                                                         *)
(* The items are numbers, in the order the service keeps them.  Which of   *)
(* them a filter selects is a set chosen at the start.                     *)
(***************************************************************************)
EXTENDS Integers, Sequences

CONSTANTS
    MaxItems,           \* bound on the length of the list
    Limits, Offsets,    \* the numbers a client may give; any other value of a
                        \* parameter is refused as a negative number is
    Absent,             \* the value of a limit that is not given
    HalfInt32,          \* 2^31, scaled down: an int32 is in -HalfInt32..HalfInt32-1
    HalfInt64           \* 2^63, scaled down, of Go's int

ASSUME PagingAssumption ==
    /\ MaxItems \in Nat /\ HalfInt32 \in Nat /\ HalfInt64 \in Nat
    /\ MaxItems < HalfInt32 /\ HalfInt32 + MaxItems < HalfInt64
    /\ Limits \subseteq Int
    /\ \A offset \in Offsets : offset \in Int /\ offset < HalfInt32
    /\ Absent \notin Int

VARIABLES
    service,    \* "demo" or "backend"
    size,       \* the items of the list are 1..size
    matches,    \* the items that the filter selects
    pc,         \* where the client and the server are
    request,    \* the request last sent
    page, link, \* the items and the Link of its answer
    body,       \* what arrives of the body
    starved,    \* has a page been empty that was not the last
    first,      \* the request that the client started with
    known,      \* size at that time
    collected   \* the items of the pages read, in order

listVars == <<service, size, matches>>
answerVars == <<page, link, body, starved>>
vars == <<listVars, pc, request, answerVars, first, known, collected>>

-----------------------------------------------------------------------------
(* Conversions to Go's int32 and int. *)
Int32(x) == ((x + HalfInt32) % (2 * HalfInt32)) - HalfInt32
Int64(x) == ((x + HalfInt64) % (2 * HalfInt64)) - HalfInt64

(* parseLimit and parseOffset. *)
LimitOk(limit) == limit # Absent => limit > 0
LimitValue(limit) == IF limit = Absent THEN 0 ELSE limit
OffsetOk(offset) == offset >= 0

(* The items the handler lists for a request, before it cuts them to a page: *)
(* all, or in the same order those that match.                               *)
Lists(req) ==
    IF req.filter
    THEN LET chosen == matches \cap 1..size
         IN  {s \in UNION {[1..n -> chosen] : n \in 0..size} :
                /\ \A x \in chosen : \E i \in DOMAIN s : s[i] = x
                /\ \A i, j \in DOMAIN s : i < j => s[i] < s[j]}
    ELSE {[i \in 1..size |-> i]}

(* Lines 66-72: an offset that is not positive is ignored. *)
FromOffset(list, offset) ==
    IF offset > 0 THEN SubSeq(list, offset + 1, Len(list)) ELSE list

(* Mutant: one item more than the limit. *)
CutToLimit_OneMore(list, limit) ==
    IF limit > 0 /\ Len(list) > limit THEN SubSeq(list, 1, limit + 1) ELSE list

CutToLimit(list, limit) ==
    IF limit > 0 /\ Len(list) > limit THEN SubSeq(list, 1, limit) ELSE list

DemoPage(req, list) ==
    CutToLimit(FromOffset(list, Int32(req.offset)), Int32(LimitValue(req.limit)))

(* What a backend makes of it: a part. *)
BackendPages(req, list) ==
    LET full == DemoPage(req, list)
    IN  {SubSeq(full, 1, n) : n \in 0..Len(full)}

Pages(req, list) == IF service = "demo" THEN {DemoPage(req, list)} ELSE BackendPages(req, list)

-----------------------------------------------------------------------------
NoLink == [rel |-> "none"]

(* Mutant: the pages are taken to be full. *)
NextOffset_ByLimit(req, data) == Int64(req.offset + LimitValue(req.limit))

NextOffset(req, data) == Int64(req.offset + Len(data))

(* Mutant: a next page though this one reaches the end. *)
MorePages_AtEnd(req, data, total) == NextOffset(req, data) <= Int32(total)

MorePages(req, data, total) == NextOffset(req, data) < Int32(total)

(* Mutant: a request without a limit is continued with its limit. *)
LinkLimit_AsAsked(req, data) == LimitValue(req.limit)

LinkLimit(req, data) ==
    IF LimitValue(req.limit) = 0 THEN Len(data) ELSE LimitValue(req.limit)

(* The link has the offset and the limit, and no filter. *)
NextLink(req, data, total) ==
    IF MorePages(req, data, total)
    THEN [limit |-> LinkLimit(req, data), offset |-> NextOffset(req, data), filter |-> FALSE]
    ELSE NoLink

-----------------------------------------------------------------------------
(* The pieces of a body: the items, and numbers that are none. *)
OpenData == MaxItems + 1
CloseData == MaxItems + 2
ErrorObject == MaxItems + 3
Piece == 1..ErrorObject

(* Mutant: the loop goes on after the error object. *)
WrittenUpTo_GoesOn(data, bad) == <<OpenData>> \o [data EXCEPT ![bad] = ErrorObject] \o <<CloseData>>

(* Lines 797-814: the item at bad cannot be marshalled. *)
WrittenUpTo(data, bad) == <<OpenData>> \o SubSeq(data, 1, bad - 1) \o <<ErrorObject>>

Written(data) ==
    {<<OpenData>> \o data \o <<CloseData>>} \cup {WrittenUpTo(data, bad) : bad \in 1..Len(data)}

(* Of all that is written a part may arrive. *)
Arriving(data) == UNION {{SubSeq(w, 1, n) : n \in 0..Len(w)} : w \in Written(data)}

(* json.Unmarshal takes it for a list. *)
IsList(pieces) ==
    /\ Len(pieces) >= 2
    /\ pieces[1] = OpenData /\ pieces[Len(pieces)] = CloseData

ListOf(pieces) == SubSeq(pieces, 2, Len(pieces) - 1)

-----------------------------------------------------------------------------
FirstRequest == [limit : Limits \cup {Absent}, offset : Offsets, filter : BOOLEAN]

Init ==
    /\ service \in {"demo", "backend"}
    /\ size \in 0..MaxItems
    /\ matches \in SUBSET (1..MaxItems)
    /\ pc = "request"
    /\ request \in FirstRequest
    /\ page = <<>>
    /\ link = NoLink
    /\ body = <<>>
    /\ starved = FALSE
    /\ first = request
    /\ known = size
    /\ collected = <<>>

(* The server refuses the parameters: 400. *)
RejectRequest ==
    /\ pc = "request"
    /\ ~(LimitOk(request.limit) /\ OffsetOk(request.offset))
    /\ pc' = "rejected"
    /\ UNCHANGED <<listVars, request, answerVars, first, known, collected>>

(* The server asks the service for a page and answers with it and its link.  *)
AnswerList ==
    /\ pc = "request"
    /\ LimitOk(request.limit) /\ OffsetOk(request.offset)
    /\ pc' = "page"
    /\ \E list \in Lists(request) : \E data \in Pages(request, list) :
          /\ page' = data
          /\ link' = NextLink(request, data, Len(list))
          /\ body' \in Arriving(data)
    /\ starved' = (starved \/ (page' = <<>> /\ link' # NoLink))
    /\ UNCHANGED <<listVars, request, first, known, collected>>

(* The client reads the page and follows its link. *)
FollowLink ==
    /\ pc = "page"
    /\ IsList(body)
    /\ link # NoLink
    /\ pc' = "request"
    /\ request' = link
    /\ collected' = collected \o ListOf(body)
    /\ UNCHANGED <<listVars, answerVars, first, known>>

ReadLastPage ==
    /\ pc = "page"
    /\ IsList(body)
    /\ link = NoLink
    /\ pc' = "done"
    /\ collected' = collected \o ListOf(body)
    /\ UNCHANGED <<listVars, request, answerVars, first, known>>

(* The body is not JSON, or its end is missing. *)
ReadFails ==
    /\ pc = "page"
    /\ ~IsList(body)
    /\ pc' = "failed"
    /\ UNCHANGED <<listVars, request, answerVars, first, known, collected>>

(* The backend's list grows. *)
Publish ==
    /\ service = "backend"
    /\ size < MaxItems
    /\ size' = size + 1
    /\ UNCHANGED <<service, matches, pc, request, answerVars, first, known, collected>>

Walk == RejectRequest \/ AnswerList \/ FollowLink \/ ReadLastPage \/ ReadFails

Next == Walk \/ Publish

Spec == Init /\ [][Next]_vars

(* The server answers and the client goes on. *)
FairSpec == Spec /\ WF_vars(Walk)

-----------------------------------------------------------------------------
(* Every variable has its type. *)
LinkRequest == [limit : Nat, offset : Nat, filter : {FALSE}]

TypeOK ==
    /\ service \in {"demo", "backend"}
    /\ size \in 0..MaxItems /\ known \in 0..size
    /\ matches \subseteq 1..MaxItems
    /\ pc \in {"request", "page", "rejected", "failed", "done"}
    /\ first \in FirstRequest
    /\ request \in FirstRequest \cup LinkRequest
    /\ link \in LinkRequest \cup {NoLink}
    /\ page \in Seq(1..MaxItems) /\ collected \in Seq(1..MaxItems)
    /\ body \in Seq(Piece)
    /\ starved \in BOOLEAN

(* server.go:423-436: the pages of a list that is not filtered, read one     *)
(* after the other, hold its items from the offset asked for, each once and  *)
(* in order, however the service cuts them and whatever is published         *)
(* meanwhile; and when the links end none is missing that was there when the *)
(* client started.                                                           *)
WalkDelivers ==
    ~first.filter =>
        /\ collected = [i \in 1..Len(collected) |-> first.offset + i]
        /\ pc = "done" => first.offset + Len(collected) >= known

(* handler.go:75, server.go:417: no page is longer than the limit of its     *)
(* request, a limit beyond the range of int32 included.                      *)
PageWithinLimit ==
    pc = "page" /\ request.limit # Absent => Len(page) <= request.limit

(* server.go:797-814, client_footprint_list.go:60-80: a client takes a page  *)
(* as the service gave it or not at all, wherever the writing of it fails.   *)
PagesAreWhole ==
    [][collected' # collected => collected' = collected \o page]_vars

(* server.go:428-432: the server accepts every link that it gives, but for   *)
(* one under an empty page, which may ask for none.                          *)
LinksAreAccepted == pc = "rejected" => request = first \/ starved

(* server.go:426-428: following the links comes to an end, if the service    *)
(* does not go on answering with nothing.                                    *)
Nourishes == AnswerList /\ (page' # <<>> \/ link' = NoLink)

WalkEnds == SF_vars(Nourishes) => <>(pc \in {"done", "failed", "rejected"})

(* ileap_service.proto:195-198: of a list asked for with a filter, only      *)
(* items that match it are given.                                            *)
FilteredWalkMatches ==
    first.filter => \A i \in 1..Len(collected) : collected[i] \in matches
=============================================================================
