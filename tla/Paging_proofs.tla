---------------------------- MODULE Paging_proofs ----------------------------
(***************************************************************************)
(* The safety properties of Paging, for lists, limits and integers of      *)
(* every size that PagingAssumption allows.                                *)
(***************************************************************************)
EXTENDS Paging, TLAPS, SequenceTheorems

USE PagingAssumption

-----------------------------------------------------------------------------
(* Numbers within the range of a type keep their value. *)
LEMMA RemainderOfSmall ==
    ASSUME NEW a \in Nat, NEW b \in Nat, a < b
    PROVE  a % b = a
  OBVIOUS

LEMMA Int32Keeps ==
    ASSUME NEW x \in Nat, x < HalfInt32
    PROVE  Int32(x) = x
  <1>1. x + HalfInt32 \in Nat /\ 2 * HalfInt32 \in Nat /\ x + HalfInt32 < 2 * HalfInt32
    OBVIOUS
  <1>2. (x + HalfInt32) % (2 * HalfInt32) = x + HalfInt32
    BY <1>1, RemainderOfSmall
  <1> QED  BY <1>2 DEF Int32

LEMMA Int64Keeps ==
    ASSUME NEW x \in Nat, x < HalfInt64
    PROVE  Int64(x) = x
  <1>1. x + HalfInt64 \in Nat /\ 2 * HalfInt64 \in Nat /\ x + HalfInt64 < 2 * HalfInt64
    OBVIOUS
  <1>2. (x + HalfInt64) % (2 * HalfInt64) = x + HalfInt64
    BY <1>1, RemainderOfSmall
  <1> QED  BY <1>2 DEF Int64

-----------------------------------------------------------------------------
(* The items of a list, and what is cut from it. *)
Item == 1..MaxItems

LEMMA ListsOfItems ==
    ASSUME size \in 0..MaxItems, NEW req, NEW list \in Lists(req)
    PROVE  /\ list \in Seq(Item)
           /\ Len(list) \in 0..size
           /\ req.filter = FALSE => list = [i \in 1..size |-> i]
  <1>1. CASE req.filter
    <2>1. PICK n \in 0..size : list \in [1..n -> matches \cap 1..size]
      BY <1>1 DEF Lists
    <2>2. list \in [1..n -> Item] /\ n \in Nat
      BY <2>1 DEF Item
    <2> QED  BY <1>1, <2>1, <2>2
  <1>2. CASE ~req.filter
    <2>1. list = [i \in 1..size |-> i]
      BY <1>2 DEF Lists
    <2>2. list \in [1..size -> Item] /\ size \in Nat
      BY <2>1 DEF Item
    <2> QED  BY <2>1, <2>2
  <1> QED  BY <1>1, <1>2

(* From an offset on. *)
LEMMA FromOffsetIsEnd ==
    ASSUME NEW list \in Seq(Item), NEW offset \in Nat
    PROVE  /\ FromOffset(list, offset) \in Seq(Item)
           /\ Len(FromOffset(list, offset)) \in 0..Len(list)
           /\ FromOffset(list, offset) # <<>> =>
                offset + Len(FromOffset(list, offset)) = Len(list)
           /\ \A i \in 1..Len(FromOffset(list, offset)) :
                FromOffset(list, offset)[i] = list[offset + i]
  <1>1. CASE offset > 0 /\ offset < Len(list)
    BY <1>1 DEF FromOffset
  <1>2. CASE offset > 0 /\ offset >= Len(list)
    BY <1>2 DEF FromOffset
  <1>3. CASE offset = 0
    BY <1>3 DEF FromOffset
  <1> QED  BY <1>1, <1>2, <1>3

(* No more than a limit. *)
LEMMA CutToLimitIsStart ==
    ASSUME NEW list \in Seq(Item), NEW limit \in Int
    PROVE  /\ CutToLimit(list, limit) \in Seq(Item)
           /\ Len(CutToLimit(list, limit)) \in 0..Len(list)
           /\ limit > 0 => Len(CutToLimit(list, limit)) <= limit
           /\ \A i \in 1..Len(CutToLimit(list, limit)) : CutToLimit(list, limit)[i] = list[i]
  <1>1. CASE limit > 0 /\ Len(list) > limit
    BY <1>1 DEF CutToLimit
  <1>2. CASE ~(limit > 0 /\ Len(list) > limit)
    BY <1>2 DEF CutToLimit
  <1> QED  BY <1>1, <1>2

-----------------------------------------------------------------------------
(* What is said of a page: it has items of the list from the offset on, no   *)
(* more of them than the limit, which may lie beyond the range of int32.     *)
IsPageOf(data, req, list) ==
    /\ data \in Seq(Item)
    /\ Len(data) \in 0..Len(list)
    /\ req.limit # Absent => Len(data) <= req.limit
    /\ data # <<>> => req.offset + Len(data) <= Len(list)
    /\ \A i \in 1..Len(data) : data[i] = list[req.offset + i]

(* Requests as the handlers get them. *)
Accepted(req) ==
    /\ req.limit \in Int \cup {Absent} /\ LimitOk(req.limit)
    /\ req.offset \in Int /\ OffsetOk(req.offset) /\ req.offset < HalfInt32

LEMMA DemoPageIsPage ==
    ASSUME NEW req, Accepted(req), NEW list \in Seq(Item), Len(list) <= MaxItems
    PROVE  IsPageOf(DemoPage(req, list), req, list)
  <1> DEFINE rest == FromOffset(list, req.offset)
             limit == Int32(LimitValue(req.limit))
             data == CutToLimit(rest, limit)
  <1>1. req.offset \in Nat /\ Int32(req.offset) = req.offset
    BY Int32Keeps DEF Accepted, OffsetOk
  <1>2. DemoPage(req, list) = data
    BY <1>1 DEF DemoPage
  <1>3. LimitValue(req.limit) \in Nat /\ (req.limit # Absent => LimitValue(req.limit) = req.limit)
    BY DEF Accepted, LimitOk, LimitValue
  <1>4. limit \in Int
    <2>1. \A x \in Int : x % (2 * HalfInt32) \in Int
      <3>1. 2 * HalfInt32 \in Nat /\ 2 * HalfInt32 > 0
        OBVIOUS
      <3> QED  BY <3>1
    <2> QED  BY <1>3, <2>1 DEF Int32
  <1> HIDE DEF limit
  <1>5. /\ rest \in Seq(Item)
        /\ Len(rest) \in 0..Len(list)
        /\ rest # <<>> => req.offset + Len(rest) = Len(list)
        /\ \A i \in 1..Len(rest) : rest[i] = list[req.offset + i]
    BY <1>1, FromOffsetIsEnd
  <1> HIDE DEF rest
  <1>6. /\ data \in Seq(Item)
        /\ Len(data) \in 0..Len(rest)
        /\ limit > 0 => Len(data) <= limit
        /\ \A i \in 1..Len(data) : data[i] = rest[i]
    BY <1>4, <1>5, CutToLimitIsStart
  <1> HIDE DEF data
  <1>7. req.limit # Absent => Len(data) <= req.limit
    <2>1. ASSUME req.limit # Absent, req.limit < HalfInt32
          PROVE  Len(data) <= req.limit
      <3>1. limit = req.limit /\ req.limit > 0
        BY <2>1, <1>3, Int32Keeps DEF limit, Accepted, LimitOk
      <3> QED  BY <3>1, <1>6
    <2>2. ASSUME req.limit # Absent, ~(req.limit < HalfInt32)
          PROVE  Len(data) <= req.limit
      <3>1. req.limit \in Int /\ Len(data) \in Nat /\ Len(data) <= MaxItems
        BY <2>2, <1>5, <1>6 DEF Accepted
      <3> QED  BY <3>1, <2>2
    <2> QED  BY <2>1, <2>2
  <1>8. data # <<>> => rest # <<>> /\ req.offset + Len(data) <= Len(list)
    BY <1>1, <1>5, <1>6
  <1>9. \A i \in 1..Len(data) : i \in 1..Len(rest)
    BY <1>5, <1>6
  <1> QED  BY <1>2, <1>5, <1>6, <1>7, <1>8, <1>9 DEF IsPageOf

LEMMA PagesArePages ==
    ASSUME NEW req, Accepted(req), NEW list \in Seq(Item), Len(list) <= MaxItems,
           NEW data \in Pages(req, list)
    PROVE  IsPageOf(data, req, list)
  <1> DEFINE full == DemoPage(req, list)
  <1>1. IsPageOf(full, req, list)
    BY DemoPageIsPage
  <1>2. CASE data = full
    BY <1>1, <1>2
  <1>3. CASE \E n \in 0..Len(full) : data = SubSeq(full, 1, n)
    <2> HIDE DEF full
    <2>1. PICK n \in 0..Len(full) : data = SubSeq(full, 1, n)
      BY <1>3
    <2>2. full \in Seq(Item) /\ Len(full) \in Nat /\ n \in Nat
      BY <1>1 DEF IsPageOf
    <2>3. data \in Seq(Item) /\ Len(data) = n /\ \A i \in 1..n : data[i] = full[i] /\ i \in 1..Len(full)
      BY <2>1, <2>2
    <2>4. data # <<>> => full # <<>>
      BY <2>2, <2>3
    <2>5. req.limit # Absent => req.limit \in Int
      BY DEF Accepted
    <2> QED  BY <1>1, <2>2, <2>3, <2>4, <2>5 DEF IsPageOf, Accepted
  <1> QED  BY <1>2, <1>3 DEF Pages, BackendPages

-----------------------------------------------------------------------------
(* The link under a page goes on where the page ends. *)
LEMMA NoLinkIsNoRequest == NoLink \notin LinkRequest
  <1>1. \A r \in LinkRequest : DOMAIN r = {"limit", "offset", "filter"}
    BY DEF LinkRequest
  <1>2. DOMAIN NoLink = {"rel"}
    BY DEF NoLink
  <1> QED  BY <1>1, <1>2

LEMMA LinkGoesOn ==
    ASSUME NEW req, Accepted(req), NEW list \in Seq(Item), Len(list) <= MaxItems,
           NEW data, IsPageOf(data, req, list)
    PROVE  LET next == NextLink(req, data, Len(list))
           IN  \/ /\ next = NoLink
                  /\ req.offset + Len(data) >= Len(list)
               \/ /\ next \in LinkRequest
                  /\ next.offset = req.offset + Len(data)
                  /\ next.offset < Len(list)
                  /\ data # <<>> => next.limit > 0
  <1>1. /\ req.offset \in Nat /\ Len(data) \in Nat /\ Len(list) \in Nat
        /\ req.offset + Len(data) < HalfInt64
    BY DEF Accepted, OffsetOk, IsPageOf
  <1>2. NextOffset(req, data) = req.offset + Len(data)
    BY <1>1, Int64Keeps DEF NextOffset
  <1>3. Int32(Len(list)) = Len(list)
    BY <1>1, Int32Keeps
  <1>4. LinkLimit(req, data) \in Nat /\ (data # <<>> => LinkLimit(req, data) > 0)
    <2>1. LimitValue(req.limit) \in Nat
      BY DEF LimitValue, Accepted, LimitOk
    <2>2. data # <<>> => Len(data) > 0
      BY DEF IsPageOf
    <2> QED  BY <1>1, <2>1, <2>2 DEF LinkLimit
  <1>5. CASE MorePages(req, data, Len(list))
    BY <1>1, <1>2, <1>3, <1>4, <1>5 DEF MorePages, NextLink, LinkRequest
  <1>6. CASE ~MorePages(req, data, Len(list))
    BY <1>1, <1>2, <1>3, <1>6 DEF MorePages, NextLink
  <1> QED  BY <1>5, <1>6

-----------------------------------------------------------------------------
(* A body that json.Unmarshal takes for a list is the whole page: only one   *)
(* that was written to its end has the closing piece.                        *)
LEMMA WrittenIsPieces ==
    ASSUME NEW data \in Seq(Item), NEW w \in Written(data)
    PROVE  /\ w \in Seq(Piece)
           /\ \A i \in 1..Len(w) : w[i] = CloseData =>
                  i = Len(w) /\ w = <<OpenData>> \o data \o <<CloseData>>
  <1>1. /\ Item \subseteq Piece /\ OpenData \in Piece /\ CloseData \in Piece /\ ErrorObject \in Piece
        /\ CloseData \notin Item /\ OpenData # CloseData /\ ErrorObject # CloseData
    BY DEF Item, Piece, OpenData, CloseData, ErrorObject
  <1>2. data \in Seq(Piece)
    BY <1>1
  <1> HIDE DEF Piece, Item, OpenData, CloseData, ErrorObject
  <1>3. CASE w = <<OpenData>> \o data \o <<CloseData>>
    <2>1. <<OpenData>> \in Seq(Piece) /\ <<CloseData>> \in Seq(Piece)
      BY <1>1
    <2>2. w \in Seq(Piece) /\ Len(w) = Len(data) + 2
      BY <1>2, <1>3, <2>1
    <2>3. /\ w[1] = OpenData
          /\ \A i \in 1..Len(data) : w[i + 1] = data[i]
      BY <1>2, <1>3, <2>1
    <2>4. ASSUME NEW i \in 1..Len(w), w[i] = CloseData
          PROVE  i = Len(w)
      <3>1. CASE i = 1
        BY <3>1, <2>3, <2>4, <1>1
      <3>2. CASE i > 1 /\ i < Len(w)
        <4>1. i - 1 \in 1..Len(data) /\ w[(i - 1) + 1] = data[i - 1]
          BY <3>2, <2>2, <2>3
        <4>2. data[i - 1] \in Item
          BY <4>1
        <4>3. (i - 1) + 1 = i
          OBVIOUS
        <4> QED  BY <4>1, <4>2, <4>3, <2>4, <1>1
      <3> QED  BY <3>1, <3>2, <2>2
    <2> QED  BY <1>3, <2>2, <2>4
  <1>4. CASE \E bad \in 1..Len(data) : w = WrittenUpTo(data, bad)
    <2>1. PICK bad \in 1..Len(data) : w = WrittenUpTo(data, bad)
      BY <1>4
    <2> DEFINE good == SubSeq(data, 1, bad - 1)
    <2>2. good \in Seq(Item) /\ good \in Seq(Piece)
      BY <1>1
    <2>3. w = <<OpenData>> \o good \o <<ErrorObject>>
      BY <2>1 DEF WrittenUpTo
    <2> HIDE DEF good
    <2>4. <<OpenData>> \in Seq(Piece) /\ <<ErrorObject>> \in Seq(Piece)
      BY <1>1
    <2>5. w \in Seq(Piece) /\ Len(w) = Len(good) + 2
      BY <2>2, <2>3, <2>4
    <2>6. /\ w[1] = OpenData /\ w[Len(w)] = ErrorObject
          /\ \A i \in 1..Len(good) : w[i + 1] = good[i]
      BY <2>2, <2>3, <2>4
    <2>7. ASSUME NEW i \in 1..Len(w)
          PROVE  w[i] # CloseData
      <3>1. CASE i = 1 \/ i = Len(w)
        BY <3>1, <2>6, <1>1
      <3>2. CASE i > 1 /\ i < Len(w)
        <4>1. i - 1 \in 1..Len(good) /\ w[(i - 1) + 1] = good[i - 1]
          BY <3>2, <2>2, <2>5, <2>6
        <4>2. good[i - 1] \in Item
          BY <4>1, <2>2
        <4>3. (i - 1) + 1 = i
          OBVIOUS
        <4> QED  BY <4>1, <4>2, <4>3, <1>1
      <3> QED  BY <3>1, <3>2, <2>5
    <2> QED  BY <2>5, <2>7
  <1> QED  BY <1>3, <1>4 DEF Written

LEMMA ListIsPage ==
    ASSUME NEW data \in Seq(Item), NEW pieces \in Arriving(data)
    PROVE  /\ pieces \in Seq(Piece)
           /\ IsList(pieces) => ListOf(pieces) = data
  <1>0. PICK w \in Written(data) : \E n \in 0..Len(w) : pieces = SubSeq(w, 1, n)
    BY DEF Arriving
  <1>1. PICK n \in 0..Len(w) : pieces = SubSeq(w, 1, n)
    BY <1>0
  <1>2. /\ w \in Seq(Piece)
        /\ \A i \in 1..Len(w) : w[i] = CloseData =>
               i = Len(w) /\ w = <<OpenData>> \o data \o <<CloseData>>
    BY WrittenIsPieces
  <1> HIDE DEF Piece
  <1>3. /\ pieces \in Seq(Piece) /\ Len(pieces) = n
        /\ \A i \in 1..n : pieces[i] = w[i] /\ i \in 1..Len(w)
    BY <1>1, <1>2
  <1>4. ASSUME IsList(pieces)
        PROVE  ListOf(pieces) = data
    <2>1. n >= 2 /\ w[n] = CloseData
      BY <1>3, <1>4 DEF IsList
    <2>2. n = Len(w) /\ w = <<OpenData>> \o data \o <<CloseData>>
      BY <1>2, <1>3, <2>1
    <2>3. /\ OpenData \in Piece /\ CloseData \in Piece /\ data \in Seq(Piece)
      BY DEF Item, Piece, OpenData, CloseData, ErrorObject
    <2>4. <<OpenData>> \in Seq(Piece) /\ <<CloseData>> \in Seq(Piece)
      BY <2>3
    <2>5. Len(w) = Len(data) + 2 /\ \A i \in 1..Len(data) : w[i + 1] = data[i]
      BY <2>2, <2>3, <2>4
    <2>6. ListOf(pieces) = SubSeq(pieces, 2, Len(data) + 1)
      BY <1>3, <2>2, <2>5 DEF ListOf
    <2>7. /\ SubSeq(pieces, 2, Len(data) + 1) \in Seq(Piece)
          /\ Len(SubSeq(pieces, 2, Len(data) + 1)) = Len(data)
          /\ \A i \in 1..Len(data) : SubSeq(pieces, 2, Len(data) + 1)[i] = pieces[i + 1]
      BY <1>3, <2>2, <2>3, <2>5
    <2>8. \A i \in 1..Len(data) : pieces[i + 1] = data[i]
      BY <1>3, <2>2, <2>3, <2>5
    <2> QED  BY <2>3, <2>6, <2>7, <2>8, SeqEqual
  <1> QED  BY <1>3, <1>4

-----------------------------------------------------------------------------
(* The strengthening: requests after the first are links, which lie in the   *)
(* list and ask for something but under an empty page; the page and the link *)
(* of an answer go on from its request; what is collected reaches it.        *)
LinkInv ==
    /\ link # NoLink => link.offset < HalfInt32 /\ (link.limit > 0 \/ starved)
    /\ request = first \/
         (request \in LinkRequest /\ request.offset < HalfInt32 /\ (request.limit > 0 \/ starved))

PageInv == pc = "page" => body \in Arriving(page)

WalkInv ==
    ~first.filter =>
        /\ request.filter = FALSE
        /\ pc \in {"request", "page"} => request.offset = first.offset + Len(collected)
        /\ pc = "page" =>
             /\ \A i \in 1..Len(page) : page[i] = request.offset + i
             /\ link # NoLink => link.offset = request.offset + Len(page)
             /\ link = NoLink => request.offset + Len(page) >= known

PagingInv ==
    TypeOK /\ LinkInv /\ PageInv /\ WalkInv /\ WalkDelivers /\ PageWithinLimit /\ LinksAreAccepted

LEMMA InitInv == Init => PagingInv
  <1> SUFFICES ASSUME Init PROVE PagingInv
    OBVIOUS
  <1>1. TypeOK
    <2>1. size \in Nat /\ known \in 0..size
      BY DEF Init
    <2>2. page \in Seq(1..MaxItems) /\ collected \in Seq(1..MaxItems) /\ body \in Seq(Piece)
      BY DEF Init
    <2>3. first \in FirstRequest /\ request \in FirstRequest /\ link = NoLink
      BY DEF Init
    <2> QED  BY <2>1, <2>2, <2>3 DEF Init, TypeOK
  <1>2. first.offset \in Int /\ first.filter \in BOOLEAN
    BY <1>1 DEF TypeOK, FirstRequest
  <1>3. LinkInv /\ PageInv /\ PageWithinLimit /\ LinksAreAccepted
    BY DEF Init, LinkInv, PageInv, PageWithinLimit, LinksAreAccepted
  <1>4. WalkInv
    BY <1>2 DEF Init, WalkInv
  <1>5. WalkDelivers
    BY DEF Init, WalkDelivers
  <1> QED  BY <1>1, <1>3, <1>4, <1>5 DEF PagingInv

LEMMA RequestsAreTyped ==
    ASSUME PagingInv
    PROVE  /\ request.limit \in Int \cup {Absent} /\ request.offset \in Int
           /\ request.offset < HalfInt32 /\ request.filter \in BOOLEAN
           /\ first.offset \in Int /\ first.filter \in BOOLEAN
  <1>1. \A r \in FirstRequest :
          /\ r.limit \in Int \cup {Absent} /\ r.offset \in Int
          /\ r.offset < HalfInt32 /\ r.filter \in BOOLEAN
    BY DEF FirstRequest
  <1>2. \A r \in LinkRequest : r.limit \in Nat /\ r.offset \in Nat /\ r.filter \in {FALSE}
    BY DEF LinkRequest
  <1>3. first \in FirstRequest
    BY DEF PagingInv, TypeOK
  <1>4. request = first \/ (request \in LinkRequest /\ request.offset < HalfInt32)
    BY DEF PagingInv, LinkInv
  <1>5. CASE request = first
    BY <1>1, <1>3, <1>5
  <1>6. CASE request \in LinkRequest /\ request.offset < HalfInt32
    <2>1. request.filter \in BOOLEAN
      BY <1>2, <1>6, Zenon
    <2>2. request.limit \in Int /\ request.offset \in Int
      BY <1>6 DEF LinkRequest
    <2>3. first.offset \in Int /\ first.filter \in BOOLEAN
      BY <1>1, <1>3, Zenon
    <2> QED  BY <1>6, <2>1, <2>2, <2>3, Zenon
  <1> QED  BY <1>4, <1>5, <1>6

LEMMA AnswerKeepsInv == PagingInv /\ AnswerList => PagingInv'
  <1> SUFFICES ASSUME PagingInv, AnswerList PROVE PagingInv'
    OBVIOUS
  <1>1. Accepted(request)
    BY RequestsAreTyped DEF AnswerList, Accepted
  <1>0. PICK list \in Lists(request) : \E data \in Pages(request, list) :
          /\ page' = data
          /\ link' = NextLink(request, data, Len(list))
          /\ body' \in Arriving(data)
    BY DEF AnswerList
  <1>2. /\ page' \in Pages(request, list)
        /\ link' = NextLink(request, page', Len(list))
        /\ body' \in Arriving(page')
    BY <1>0
  <1>3. /\ list \in Seq(Item) /\ Len(list) \in 0..size /\ Len(list) <= MaxItems
        /\ request.filter = FALSE => list = [i \in 1..size |-> i]
    <2>1. size \in 0..MaxItems
      BY DEF PagingInv, TypeOK
    <2>2. /\ list \in Seq(Item) /\ Len(list) \in 0..size
          /\ request.filter = FALSE => list = [i \in 1..size |-> i]
      BY <1>0, <2>1, ListsOfItems
    <2> QED  BY <2>1, <2>2
  <1>4. IsPageOf(page', request, list)
    BY <1>1, <1>2, <1>3, PagesArePages
  <1>5. \/ /\ link' = NoLink
           /\ request.offset + Len(page') >= Len(list)
        \/ /\ link' \in LinkRequest
           /\ link'.offset = request.offset + Len(page')
           /\ link'.offset < Len(list)
           /\ page' # <<>> => link'.limit > 0
    BY <1>1, <1>2, <1>3, <1>4, LinkGoesOn
  <1>6. page' \in Seq(Item) /\ body' \in Seq(Piece) /\ body' \in Arriving(page')
    BY <1>2, <1>4, ListIsPage DEF IsPageOf
  <1> HIDE DEF Piece
  <1>7. TypeOK'
    BY <1>5, <1>6 DEF PagingInv, TypeOK, AnswerList, listVars, Item
  <1>8. LinkInv'
    <2>1. /\ UNCHANGED <<request, first>>
          /\ starved' = (starved \/ (page' = <<>> /\ link' # NoLink))
      BY DEF AnswerList
    <2>2. link' # NoLink => link'.offset < HalfInt32 /\ (link'.limit > 0 \/ starved')
      <3>1. Len(list) \in Nat
        BY <1>3
      <3>2. link' # NoLink => link' \in LinkRequest /\ link'.offset < Len(list)
        BY <1>5
      <3>3. link' \in LinkRequest => link'.offset \in Nat
        BY DEF LinkRequest
      <3>4. link' # NoLink => link'.limit > 0 \/ starved'
        BY <1>5, <2>1
      <3> QED  BY <1>3, <3>1, <3>2, <3>3, <3>4
    <2> QED  BY <2>1, <2>2 DEF PagingInv, LinkInv
  <1>9. PageInv'
    BY <1>6 DEF PageInv
  <1>10. WalkInv'
    <2> SUFFICES ASSUME ~first.filter PROVE WalkInv'
      BY DEF AnswerList, WalkInv
    <2>1. /\ request.filter = FALSE /\ request.offset = first.offset + Len(collected)
          /\ UNCHANGED <<request, first, collected, known>>
          /\ pc' = "page"
      BY DEF PagingInv, WalkInv, AnswerList
    <2>2. Len(list) = size /\ \A i \in 1..size : list[i] = i
      BY <1>3, <2>1 DEF PagingInv, TypeOK
    <2>3. \A i \in 1..Len(page') : page'[i] = request.offset + i
      <3> SUFFICES ASSUME NEW i \in 1..Len(page') PROVE page'[i] = request.offset + i
        OBVIOUS
      <3>1. page' # <<>> /\ page'[i] = list[request.offset + i]
        BY <1>4, <1>6 DEF IsPageOf
      <3>2. request.offset + i \in 1..size
        BY <1>1, <1>4, <1>6, <2>2, <3>1 DEF IsPageOf, Accepted, OffsetOk
      <3> QED  BY <2>2, <3>1, <3>2
    <2>4. known <= size /\ known \in Nat /\ size \in Nat
      BY DEF PagingInv, TypeOK
    <2>5. link' = NoLink => request.offset + Len(page') >= known
      BY <1>1, <1>5, <1>6, <2>2, <2>4, NoLinkIsNoRequest DEF Accepted
    <2>6. link' # NoLink => link'.offset = request.offset + Len(page')
      BY <1>5
    <2> QED  BY <2>1, <2>3, <2>5, <2>6 DEF WalkInv
  <1>11. WalkDelivers'
    BY DEF PagingInv, WalkDelivers, AnswerList
  <1>12. PageWithinLimit'
    BY <1>4 DEF PageWithinLimit, IsPageOf, AnswerList
  <1>13. LinksAreAccepted'
    BY DEF LinksAreAccepted, AnswerList
  <1> QED  BY <1>7, <1>8, <1>9, <1>10, <1>11, <1>12, <1>13 DEF PagingInv

(* What the client reads, with or without a link to follow. *)
LEMMA CollectedIsNext ==
    ASSUME PagingInv, pc = "page", IsList(body), collected' = collected \o ListOf(body)
    PROVE  /\ collected' = collected \o page
           /\ collected' \in Seq(Item)
           /\ Len(collected') = Len(collected) + Len(page)
           /\ ~first.filter =>
                collected' = [i \in 1..Len(collected') |-> first.offset + i]
  <1>1. page \in Seq(Item) /\ collected \in Seq(Item)
    BY DEF PagingInv, TypeOK, Item
  <1>2. collected' = collected \o page
    BY <1>1, ListIsPage DEF PagingInv, PageInv
  <1>3. /\ collected' \in Seq(Item)
        /\ Len(collected') = Len(collected) + Len(page)
        /\ \A i \in 1..Len(collected) : collected'[i] = collected[i]
        /\ \A i \in 1..Len(page) : collected'[Len(collected) + i] = page[i]
    BY <1>1, <1>2
  <1>4. ASSUME ~first.filter
        PROVE  collected' = [i \in 1..Len(collected') |-> first.offset + i]
    <2>1. /\ request.offset = first.offset + Len(collected)
          /\ \A i \in 1..Len(page) : page[i] = request.offset + i
          /\ collected = [i \in 1..Len(collected) |-> first.offset + i]
          /\ first.offset \in Int
      BY <1>4, RequestsAreTyped DEF PagingInv, WalkInv, WalkDelivers
    <2>2. ASSUME NEW i \in 1..Len(collected')
          PROVE  collected'[i] = first.offset + i
      <3>1. CASE i <= Len(collected)
        <4>1. i \in 1..Len(collected)
          BY <1>1, <3>1
        <4> QED  BY <4>1, <1>3, <2>1
      <3>2. CASE i > Len(collected)
        <4>1. i - Len(collected) \in 1..Len(page) /\ Len(collected) + (i - Len(collected)) = i
          BY <1>1, <1>3, <3>2
        <4>2. collected'[i] = page[i - Len(collected)]
          BY <4>1, <1>3
        <4>3. page[i - Len(collected)] = first.offset + Len(collected) + (i - Len(collected))
          BY <4>1, <2>1
        <4> QED  BY <4>2, <4>3, <2>1, <1>1
      <3> QED  BY <3>1, <3>2, <1>1
    <2>3. \A s \in Seq(Item) : s = [i \in 1..Len(s) |-> s[i]]
      OBVIOUS
    <2> QED  BY <1>3, <2>2, <2>3
  <1> QED  BY <1>2, <1>3, <1>4

LEMMA FollowKeepsInv == PagingInv /\ FollowLink => PagingInv'
  <1> SUFFICES ASSUME PagingInv, FollowLink PROVE PagingInv'
    OBVIOUS
  <1> USE DEF FollowLink
  <1>1. /\ collected' \in Seq(Item)
        /\ Len(collected') = Len(collected) + Len(page)
        /\ ~first.filter => collected' = [i \in 1..Len(collected') |-> first.offset + i]
    BY CollectedIsNext
  <1>2. /\ link \in LinkRequest /\ request' = link /\ link' = link /\ starved' = starved
        /\ link.offset < HalfInt32 /\ (link.limit > 0 \/ starved)
    BY DEF PagingInv, TypeOK, LinkInv, answerVars
  <1>3. TypeOK'
    BY <1>1, <1>2 DEF PagingInv, TypeOK, listVars, answerVars, Item
  <1>4. LinkInv'
    BY <1>2 DEF LinkInv
  <1>5. WalkInv'
    <2> SUFFICES ASSUME ~first.filter PROVE WalkInv'
      BY DEF WalkInv
    <2>1. link.filter = FALSE /\ link.offset = request.offset + Len(page)
      BY <1>2 DEF PagingInv, WalkInv, LinkRequest
    <2>2. request.offset = first.offset + Len(collected)
      BY DEF PagingInv, WalkInv
    <2>3. Len(page) \in Nat /\ Len(collected) \in Nat /\ first.offset \in Int
      BY RequestsAreTyped DEF PagingInv, TypeOK
    <2> QED  BY <1>1, <1>2, <2>1, <2>2, <2>3 DEF WalkInv
  <1>6. WalkDelivers'
    BY <1>1 DEF WalkDelivers
  <1>7. PageInv' /\ PageWithinLimit' /\ LinksAreAccepted'
    BY DEF PageInv, PageWithinLimit, LinksAreAccepted
  <1> QED  BY <1>3, <1>4, <1>5, <1>6, <1>7 DEF PagingInv

LEMMA LastPageKeepsInv == PagingInv /\ ReadLastPage => PagingInv'
  <1> SUFFICES ASSUME PagingInv, ReadLastPage PROVE PagingInv'
    OBVIOUS
  <1> USE DEF ReadLastPage
  <1>1. /\ collected' \in Seq(Item)
        /\ Len(collected') = Len(collected) + Len(page)
        /\ ~first.filter => collected' = [i \in 1..Len(collected') |-> first.offset + i]
    BY CollectedIsNext
  <1>2. TypeOK'
    BY <1>1 DEF PagingInv, TypeOK, listVars, answerVars, Item
  <1>3. LinkInv' /\ PageInv' /\ PageWithinLimit' /\ LinksAreAccepted'
    BY DEF PagingInv, LinkInv, PageInv, PageWithinLimit, LinksAreAccepted, answerVars
  <1>4. WalkInv'
    BY DEF PagingInv, WalkInv
  <1>5. WalkDelivers'
    <2>1. ~first.filter => first.offset + Len(collected) + Len(page) >= known
      BY DEF PagingInv, WalkInv
    <2>2. Len(page) \in Nat /\ Len(collected) \in Nat /\ first.offset \in Int
      BY RequestsAreTyped DEF PagingInv, TypeOK
    <2> QED  BY <1>1, <2>1, <2>2 DEF WalkDelivers
  <1> QED  BY <1>2, <1>3, <1>4, <1>5 DEF PagingInv

LEMMA StepKeepsInv == PagingInv /\ [Next]_vars => PagingInv'
  <1> SUFFICES ASSUME PagingInv, [Next]_vars PROVE PagingInv'
    OBVIOUS
  <1>1. CASE RejectRequest
    <2>1. request = first \/ starved
      <3>1. request \in LinkRequest /\ request.limit > 0 => LimitOk(request.limit) /\ OffsetOk(request.offset)
        BY DEF LinkRequest, LimitOk, OffsetOk
      <3> QED  BY <1>1, <3>1 DEF PagingInv, LinkInv, RejectRequest
    <2> QED  BY <1>1, <2>1 DEF PagingInv, RejectRequest, TypeOK, LinkInv, PageInv, WalkInv, WalkDelivers,
               PageWithinLimit, LinksAreAccepted, listVars, answerVars
  <1>2. CASE ReadFails
    BY <1>2 DEF PagingInv, ReadFails, TypeOK, LinkInv, PageInv, WalkInv, WalkDelivers,
         PageWithinLimit, LinksAreAccepted, listVars, answerVars
  <1>3. CASE Publish
    BY <1>3 DEF PagingInv, Publish, TypeOK, LinkInv, PageInv, WalkInv, WalkDelivers,
         PageWithinLimit, LinksAreAccepted, answerVars
  <1>4. CASE UNCHANGED vars
    BY <1>4 DEF PagingInv, vars, TypeOK, LinkInv, PageInv, WalkInv, WalkDelivers,
         PageWithinLimit, LinksAreAccepted, listVars, answerVars
  <1> QED  BY <1>1, <1>2, <1>3, <1>4, AnswerKeepsInv, FollowKeepsInv, LastPageKeepsInv DEF Next, Walk

THEOREM PagingInvariant == Spec => []PagingInv
  BY InitInv, StepKeepsInv, PTL DEF Spec

-----------------------------------------------------------------------------
(* Every variable has its type. *)
THEOREM PagingTypeCorrect == Spec => []TypeOK
  <1>1. PagingInv => TypeOK
    BY DEF PagingInv
  <1> QED  BY <1>1, PagingInvariant, PTL

(* An unfiltered walk, however long, delivers the list from its offset on,   *)
(* each item once and in order, with nothing missing at its end: server.go:  *)
(* 423-436 and handler.go:62-82.                                             *)
THEOREM WalkDeliversHolds == Spec => []WalkDelivers
  <1>1. PagingInv => WalkDelivers
    BY DEF PagingInv
  <1> QED  BY <1>1, PagingInvariant, PTL

(* No page is longer than its limit, whatever int32 makes of the limit.      *)
THEOREM PageWithinLimitHolds == Spec => []PageWithinLimit
  <1>1. PagingInv => PageWithinLimit
    BY DEF PagingInv
  <1> QED  BY <1>1, PagingInvariant, PTL

(* The server accepts the links it gives, but for one under an empty page.   *)
THEOREM LinksAreAcceptedHolds == Spec => []LinksAreAccepted
  <1>1. PagingInv => LinksAreAccepted
    BY DEF PagingInv
  <1> QED  BY <1>1, PagingInvariant, PTL

(* A client reads whole pages only: server.go:797-814.                       *)
THEOREM PagesAreWholeHolds == Spec => PagesAreWhole
  <1>1. PagingInv /\ [Next]_vars => [collected' # collected => collected' = collected \o page]_vars
    <2> SUFFICES ASSUME PagingInv, [Next]_vars, collected' # collected
                 PROVE  collected' = collected \o page
      OBVIOUS
    <2>1. FollowLink \/ ReadLastPage
      BY DEF Next, Walk, RejectRequest, AnswerList, ReadFails, Publish, vars
    <2> QED  BY <2>1, CollectedIsNext DEF FollowLink, ReadLastPage
  <1> QED  BY <1>1, PagingInvariant, PTL DEF Spec, PagesAreWhole
=============================================================================
