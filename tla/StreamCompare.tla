--------------------------- MODULE StreamCompare ---------------------------
(***************************************************************************)
(* compare_streams of scripts/test_stream_replication.py: the verdict it   *)
(* gives for one stream key, given what each store holds under the key and *)
(* which of its store calls fail with a connection-level error.            *)
(*                                                                         *)
(* The comparison is a single pass of store calls with no state of its     *)
(* own, so the module is one step: Init picks the two stores' contents and *)
(* the failing calls, Compare evaluates the function.  Every combination   *)
(* within the bounds is an initial state, so TLC checks the operator over  *)
(* all of them.                                                            *)
(***************************************************************************)
EXTENDS Integers, Sequences, SequencesExt

CONSTANTS
    Ids,        \* stream entry ids, <<ms, seq>> pairs
    Data,       \* field maps of entries, as model values
    MaxLen,     \* longest stream considered
    NONE,       \* model value: no such key / no verdict yet
    WRONGTYPE   \* model value: the key holds another type

ASSUME MaxLen \in Nat

\* Entry ids are ordered lexicographically over (ms, seq).
IdLess(a, b) == a[1] < b[1] \/ (a[1] = b[1] /\ a[2] < b[2])

\* A stream: its entries in strictly increasing id order.
Streams ==
    {[entries |-> e] :
        e \in {s \in BoundedSeq(Ids \X Data, MaxLen) :
                 \A k \in 1 .. Len(s) - 1 : IdLess(s[k][1], s[k + 1][1])}}

\* The store calls compare_streams makes, in order.
Calls == {"src_info", "tgt_info", "src_range", "tgt_range", "tgt_recheck"}

\* compare_streams' results are its Python return values, as strings.

\* The outcome of a call on key value v: a connection error, a Redis error
\* reply (redis.ResponseError) naming the cause, or a reply.
CallResult(call, v, failing) ==
    CASE call \in failing -> "ConnectionError"
      [] v = NONE         -> "NoSuchKey"
      [] v = WRONGTYPE    -> "WrongType"
      [] OTHER            -> "ok"

\* XINFO STREAM: length, first-entry and last-entry (None when empty).
Info(v) ==
    [length |-> Len(v.entries),
     first  |-> IF v.entries = <<>> THEN NONE ELSE Head(v.entries),
     last   |-> IF v.entries = <<>> THEN NONE ELSE Last(v.entries)]

\* Mutant: the both-absent branch returns False.
OnErrorAbsentFails(e, dst, failing) == "False"

\* Mutant: the both-absent branch has no return statement and yields None.
OnErrorFallsOff(e, dst, failing) ==
    IF e = "NoSuchKey"
    THEN IF CallResult("tgt_recheck", dst, failing) # "ok" THEN "None" ELSE "False"
    ELSE "False"

\* The except clauses: a ResponseError whose message says "no such key"
\* re-queries the target and passes if that query raises anything at all;
\* every other error fails the comparison.
OnError(e, dst, failing) ==
    IF e = "NoSuchKey"
    THEN IF CallResult("tgt_recheck", dst, failing) # "ok" THEN "True" ELSE "False"
    ELSE "False"

\* Mutant: the entry loop compares ids and not the entries' data.
CompareIdsOnly(src, dst, failing) ==
    LET e1 == CallResult("src_info", src, failing)
        e2 == CallResult("tgt_info", dst, failing)
        e3 == CallResult("src_range", src, failing)
        e4 == CallResult("tgt_range", dst, failing)
        ids(v) == [k \in 1 .. Len(v.entries) |-> v.entries[k][1]]
    IN CASE e1 # "ok"                                  -> OnError(e1, dst, failing)
         [] e2 # "ok"                                  -> OnError(e2, dst, failing)
         [] Info(src).length # Info(dst).length         -> "False"
         [] e3 # "ok"                                  -> OnError(e3, dst, failing)
         [] e4 # "ok"                                  -> OnError(e4, dst, failing)
         [] ids(src) # ids(dst)                        -> "False"
         [] Info(src).first # Info(dst).first           -> "False"
         [] Info(src).last # Info(dst).last             -> "False"
         [] OTHER                                      -> "True"

\* The try block: both XINFO STREAMs, the length check, both XRANGEs, the
\* entry-by-entry id and data check, and the first/last entry check.
CompareStreams(src, dst, failing) ==
    LET e1 == CallResult("src_info", src, failing)
        e2 == CallResult("tgt_info", dst, failing)
        e3 == CallResult("src_range", src, failing)
        e4 == CallResult("tgt_range", dst, failing)
    IN CASE e1 # "ok"                                  -> OnError(e1, dst, failing)
         [] e2 # "ok"                                  -> OnError(e2, dst, failing)
         [] Info(src).length # Info(dst).length         -> "False"
         [] e3 # "ok"                                  -> OnError(e3, dst, failing)
         [] e4 # "ok"                                  -> OnError(e4, dst, failing)
         [] src.entries # dst.entries                  -> "False"
         [] Info(src).first # Info(dst).first           -> "False"
         [] Info(src).last # Info(dst).last             -> "False"
         [] OTHER                                      -> "True"

VARIABLES
    srcKey,     \* what the source holds under the key
    dstKey,     \* what the target holds under the key
    failing,    \* the calls that raise a connection error
    verdict     \* the value compare_streams returns, NONE before it runs

vars == <<srcKey, dstKey, failing, verdict>>

\* The source key was written by the test (a stream) or trimmed away and
\* deleted; the target key may hold anything the engine left there.
Init ==
    /\ srcKey \in {NONE} \cup Streams
    /\ dstKey \in {NONE, WRONGTYPE} \cup Streams
    /\ failing \in SUBSET Calls
    /\ verdict = NONE

Compare ==
    /\ verdict = NONE
    /\ verdict' = CompareStreams(srcKey, dstKey, failing)
    /\ UNCHANGED <<srcKey, dstKey, failing>>

Next == Compare

Spec == Init /\ [][Next]_vars

TypeOK ==
    /\ srcKey \in {NONE} \cup Streams
    /\ dstKey \in {NONE, WRONGTYPE} \cup Streams
    /\ failing \subseteq Calls
    /\ verdict \in {NONE, "True", "False"}

-----------------------------------------------------------------------------
(* Reference.                                                              *)

\* The equivalence the stream tests assert: the same entries under the same
\* ids, or both sides empty or without the key (a stream trimmed to zero
\* may be absent or empty on the target).
Empty(v) == v = NONE \/ (v \in Streams /\ v.entries = <<>>)

Equivalent(src, dst) == src = dst \/ (Empty(src) /\ Empty(dst))

\* The calls a comparison of two existing streams makes.
PresentCalls == Calls \ {"tgt_recheck"}

-----------------------------------------------------------------------------
(* Properties.                                                             *)

\* When both stores hold a stream, compare_streams passes exactly when no
\* call fails and the two streams have the same entries under the same ids:
\* the length, range and first/last checks together decide equality.
PresentStreamsDecided ==
    (verdict # NONE /\ srcKey \in Streams /\ dstKey \in Streams)
        => ((verdict = "True") <=> (failing \cap PresentCalls = {} /\ srcKey = dstKey))

\* Identical keys on both sides always pass when no call fails.
IdenticalKeysPass ==
    (verdict # NONE /\ failing = {} /\ srcKey = dstKey) => verdict = "True"

\* A passing comparison means the target is equivalent to the source: a
\* stream lost on the target, or a target that cannot be queried, is never
\* reported as synchronized.
CompareSound ==
    verdict = "True" => Equivalent(srcKey, dstKey)

=============================================================================
