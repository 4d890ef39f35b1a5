---------------------------- MODULE MCAdmission -----------------------------
(***************************************************************************)
(* An instance of Admission for TLC.  Sizes are in units of 8 bytes.       *)
(***************************************************************************)
EXTENDS Admission

CONSTANTS p1, p2

\* d is malformed, e in a namespace that is not allowed.
NamespaceOf == [n \in {"a", "b", "c", "d", "e", "g"} |->
    CASE n \in {"a", "b", "g"} -> "log" [] n = "c" -> "kv" [] n = "d" -> "" [] OTHER -> "bad"]

\* p1 logs under a: with a stride that wraps, with records that fill a cache
\* line, with too many; p2 logs there too, and creates plain segments.
WantsOf == [p \in {p1, p2} |->
    CASE p = p1 -> {RingOptions("a", 2, U32 - 1, FALSE), RingOptions("a", 2, Line - RecHdr, TRUE),
                    RingOptions("a", U32 - 1, Line, FALSE)}
                   \cup {RawOptions("a", t, 1, FALSE) : t \in {SegHdr, MaxSeg, MaxSeg + 1}}
                   \cup {RawOptions("a", SegHdr, U64 - 1, FALSE)}
      [] OTHER -> {RawOptions(n, SegHdr + Line, Line, FALSE) : n \in {"d", "e", "g"}}
                  \cup {RawOptions("b", MaxSeg - Line, Line, FALSE), RawOptions("c", SegHdr + 2 * Line, Line, FALSE)}
                  \cup {RingOptions("a", 3, Line, TRUE)}]

AttachesOf == [p \in {p1, p2} |-> IF p = p2 THEN {"a", "d"} ELSE {}]

\* Both read the key file, or p1 has a malformed key of its own.
EnvsOf == {[p \in {p1, p2} |-> IF p = p1 THEN k ELSE NoKey] : k \in {NoKey, BadKey}}

\* A size so large that a sum wraps; payload over metadata; no signature any
\* more.
DamageOf ==
    {[payload_size |-> U64 - SegHdr], [payload_offset |-> 0],
     [record_max |-> U32 - 1], [hmac_enabled |-> FALSE, hmac |-> NoHmac]}

FaultsOf == {[name |-> "a", to |-> d] : d \in DamageOf}
=============================================================================
