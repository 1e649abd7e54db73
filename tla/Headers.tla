-------------------------------- MODULE Headers -------------------------------
(***************************************************************************)
(* Names as HTTP field values, packages/mcp-core/src/headers.ts, and the   *)
(* check the router makes of every request it is about to forward: the     *)
(* Mcp-Name header of the rewritten name, read back, is that name.         *)
(*                                                                         *)
(* A string is a sequence of characters; the two markers of the Base64     *)
(* wrapper are one character each.  Base64 of UTF-8 spells each character  *)
(* of a string in characters that may travel.                              *)
(***************************************************************************)
EXTENDS Naturals, Sequences

CONSTANTS
    Visible,         \* characters that may travel, markers included
    Blank,           \* space and tab: may travel, but not at either end
    Prefix, Suffix,  \* "=?base64?" and "?="
    ByteOrderMark,   \* U+FEFF
    Encodable,       \* characters of names and URIs
    Base64,          \* how each of them is spelled
    Unbase64         \* what a canonical spelling stands for

ASSUME HeaderAssumption ==
    /\ {Prefix, Suffix} \subseteq Visible /\ Visible \cap Blank = {}
    /\ Base64 \in [Encodable -> Visible]
    /\ \A c \in Encodable : /\ Base64[c] \in DOMAIN Unbase64
                            /\ Unbase64[Base64[c]] = c

Malformed == <<"malformed">>

LooksBase64Encoded(value) ==
    Len(value) > 1 /\ value[1] = Prefix /\ value[Len(value)] = Suffix

IsHeaderSafe(value) ==
    /\ \A i \in DOMAIN value : value[i] \in Visible \cup Blank
    /\ value # <<>> => value[1] \notin Blank /\ value[Len(value)] \notin Blank

Wrapped(value) == <<Prefix>> \o [i \in DOMAIN value |-> Base64[value[i]]] \o <<Suffix>>

\* Defect: a name that looks wrapped is sent as it is.
EncodeUnsafeOnly(value) == IF IsHeaderSafe(value) THEN value ELSE Wrapped(value)

EncodeHeaderValue(value) ==
    IF IsHeaderSafe(value) /\ ~LooksBase64Encoded(value) THEN value ELSE Wrapped(value)

\* The decoder is asked to refuse what is not UTF-8; it takes a leading byte
\* order mark for a mark.
DecodeUtf8(text) ==
    IF text # <<>> /\ text[1] = ByteOrderMark THEN SubSeq(text, 2, Len(text)) ELSE text

DecodeHeaderValue(value) ==
    LET payload == SubSeq(value, 2, Len(value) - 1)
    IN  CASE ~LooksBase64Encoded(value) -> value
          [] LooksBase64Encoded(value) /\ \E i \in DOMAIN payload : payload[i] \notin DOMAIN Unbase64
               -> Malformed
          [] OTHER -> DecodeUtf8([i \in DOMAIN payload |-> Unbase64[payload[i]]])

\* new Headers drops blanks from both ends.
Carried(value) ==
    LET kept == {i \in DOMAIN value : value[i] \notin Blank}
    IN  IF kept = {} THEN <<>>
        ELSE SubSeq(value, CHOOSE i \in kept : \A j \in kept : i <= j,
                           CHOOSE i \in kept : \A j \in kept : j <= i)

\* assertHeaderMatchesBody, between buildRequestMetadataHeaders and
\* readRequestMetadata.
HeaderMatchesBody(name) == DecodeHeaderValue(Carried(EncodeHeaderValue(name))) = name
===============================================================================
