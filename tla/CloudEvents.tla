---------------------------- MODULE CloudEvents ----------------------------
(***************************************************************************)
(* Which events the server accepts (events, decodeCloudEvent,              *)
(* normalizeCloudEventData and validateEventData of server.go, event.go).  *)
(* The data of an event may be written as JSON, or as a string: the JSON   *)
(* itself, or its base64 in one of two alphabets, padded or not.  Nothing  *)
(* in the event tells which, and the server tries.                         *)
(***************************************************************************)
EXTENDS Naturals

(* What data says: nothing, the null of JSON, an object whose pfIds are      *)
(* UUIDs (or that has none), one in which one is not, any other JSON, and    *)
(* what is no JSON.                                                          *)
Content == {"nothing", "null", "ids", "badIds", "scalar", "noise"}

(* A string, by what it says as it stands, what the bytes say that it is the *)
(* base64 of, if it is, the alphabets that have all its characters, how many *)
(* those are, without the padding and modulo four, and the padding.          *)
AnyText == [says : Content, bytes : Content, chars : {"both", "std", "url", "none"},
            length : 0..3, padding : {"none", "right", "wrong"}]

IsBase64(t) ==
    /\ t.chars # "none"
    /\ t.length # 1
    /\ t.padding = "none" \/ (t.padding = "right" /\ t.length # 0)

(* What there is of them.  The braces of an object are in neither alphabet.  *)
(* The words and numbers of JSON may be base64, of bytes that are no JSON:   *)
(* the first one is not ASCII.                                               *)
Text == {t \in AnyText :
    /\ t.says = "nothing" => IsBase64(t) /\ t.bytes = "nothing"
    /\ t.says \in {"ids", "badIds"} => t.chars = "none"
    /\ t.says \in {"null", "scalar"} => t.padding = "none" /\ t.bytes = "noise"
    /\ t.says = "null" => t.length = 0
    /\ t.bytes = "nothing" => t.length = 0 /\ t.padding = "none" /\ t.chars = "both"
    /\ ~IsBase64(t) => t.bytes = "noise"
    /\ t.chars = "none" => t.length = 0 /\ t.padding = "none"}

(* What an encoder of that alphabet writes, with or without the padding. *)
Encoded(alphabet) == {t \in Text : IsBase64(t) /\ t.chars \in {alphabet, "both"}}

Data ==
    [written : {"json"}, content : Content \ {"noise"}]
    \cup {[written |-> "text", content |-> t.says, text |-> t] : t \in Text}
    \cup {[written |-> "base64", content |-> t.bytes, text |-> t] : t \in Encoded("std")}
    \cup {[written |-> "base64url", content |-> t.bytes, text |-> t] : t \in Encoded("url")}

(* Whether the body is JSON, of a media type that is read, and has the       *)
(* required fields; and the event type: Published, one of the other three    *)
(* that are known, or another one.                                           *)
Event == [wellFormed : BOOLEAN, type : {"published", "known", "unknown"}, data : Data]

(* Mutant: the encodings without padding are not tried. *)
Decoders_Padded == [alphabet : {"std", "url"}, padded : {TRUE}]

(* StdEncoding, RawStdEncoding, URLEncoding and RawURLEncoding.  Where two   *)
(* of them accept a text they agree, so that their order does not show.      *)
Decoders == [alphabet : {"std", "url"}, padded : BOOLEAN]

(* DecodeString of package base64 has no error. *)
Decodes(d, t) ==
    /\ t.chars \in {d.alphabet, "both"}
    /\ IF d.padded
       THEN \/ t.length = 0 /\ t.padding = "none"
            \/ t.length \in {2, 3} /\ t.padding = "right"
       ELSE t.padding = "none" /\ t.length # 1

(* The data that is validated: of JSON that it is, of a string what the      *)
(* first decoder makes of it that accepts it, or itself.                     *)
normalizeCloudEventData(data) ==
    IF data.written = "json"
    THEN IF data.content = "null" THEN "nothing" ELSE data.content
    ELSE IF data.text.says = "nothing" THEN "nothing"
    ELSE IF \E d \in Decoders : Decodes(d, data.text) THEN data.text.bytes
    ELSE data.text.says

(* A null is unmarshalled into an object without pfIds. *)
ValidEventData(type, content) == type = "published" => content \in {"ids", "null"}

isKnownEventType(type) == type # "unknown"

(* Every refusal is the same 400, so the order of the checks does not show.  *)
AcceptsEvent(e) ==
    LET content == normalizeCloudEventData(e.data)
    IN  /\ e.wellFormed
        /\ content # "nothing"
        /\ ValidEventData(e.type, content)
        /\ isKnownEventType(e.type)
=============================================================================
