---------------------------- MODULE HistoryProofs -----------------------------
(***************************************************************************)
(* Facts about the operators of History.  First what Trim discards, and    *)
(* that the queue is popped up to the first response that cannot be        *)
(* decided yet.  Then the spans kept by the checker against the full       *)
(* history of acknowledged updates: how they mirror it, that pushing and   *)
(* trimming keep the mirror, and that a check of the trimmed spans says    *)
(* what the full history says.                                             *)
(***************************************************************************)
EXTENDS Fuzzer, TLAPS, SequenceTheorems, WellFoundedInduction

\* Every non-empty set of naturals has a least element, which Min returns.
LEMMA MinOfNats ==
    ASSUME NEW S, S \subseteq Nat, S # {}
    PROVE  /\ Min(S) \in S
           /\ \A x \in S : Min(S) <= x
  <1> DEFINE R == OpToRel(<, Nat)
  <1>1. IsWellFoundedOn(R, Nat)
    BY NatLessThanWellFounded
  <1>2. \E x \in S : \A y \in S : ~(<<y, x>> \in R)
    <2> HIDE DEF R
    <2> QED BY <1>1, WFMin
  <1>3. \A x, y \in Nat : y < x => <<y, x>> \in R
    BY DEF OpToRel
  <1>4. PICK x \in S : \A y \in S : ~(<<y, x>> \in R)
    BY <1>2
  <1>5. \A y \in S : ~(y < x)
    BY <1>3, <1>4
  <1>6. \A y \in S : x <= y
    BY <1>5
  <1> QED
    BY <1>6 DEF Min

\* A non-empty bounded set of naturals has a greatest element.
LEMMA MaxOfNats ==
    ASSUME NEW S, NEW n \in Nat, S \subseteq 0..n, S # {}
    PROVE  /\ Max(S) \in S
           /\ \A x \in S : x <= Max(S)
  <1> DEFINE T == { t \in 0..n : n - t \in S }
  <1>1. \A x \in S : x \in 0..n /\ n - x \in 0..n /\ n - (n - x) = x
    OBVIOUS
  <1>2. T \subseteq Nat /\ T # {}
    <2>1. PICK x \in S : TRUE
      OBVIOUS
    <2>2. n - x \in T
      BY <1>1, <2>1
    <2>3. T # {}
      BY <2>2
    <2>4. T \subseteq 0..n
      OBVIOUS
    <2> HIDE DEF T
    <2> QED BY <2>3, <2>4
  <1>3. Min(T) \in T /\ \A t \in T : Min(T) <= t
    BY <1>2, MinOfNats
  <1> DEFINE m == n - Min(T)
  <1>4. m \in S /\ \A x \in S : x <= m
    <2>1. m \in S /\ Min(T) \in 0..n
      BY <1>3
    <2>2. ASSUME NEW x \in S PROVE x <= m
      <3>1. n - x \in T
        BY <1>1
      <3>2. Min(T) <= n - x
        BY <3>1, <1>3
      <3> HIDE DEF T
      <3> QED BY <2>1, <3>2, <1>1
    <2> QED BY <2>1, <2>2
  <1>5. \E x \in S : \A y \in S : x >= y
    BY <1>4
  <1> QED
    BY <1>5 DEF Max

------------------------------------------------------------------------------
(***************************************************************************)
(* A client's spans of a key in the order it made them, one after another. *)
(***************************************************************************)
Sequential(cli_spans) ==
    /\ cli_spans \in Seq(Span)
    /\ Len(cli_spans) >= 1
    /\ \A i \in 1..Len(cli_spans) : cli_spans[i].ts_call <= cli_spans[i].ts_resp
    /\ \A i, j \in 1..Len(cli_spans) :
         i < j => cli_spans[i].ts_resp < cli_spans[j].ts_call

(***************************************************************************)
(* Trim leaves a suffix of a client's spans, and if it is a proper one it  *)
(* begins with a settled span.                                             *)
(***************************************************************************)
LEMMA TrimSuffix ==
    ASSUME NEW s, Sequential(s), NEW q, NEW m
    PROVE  \E p \in 1..Len(s) :
             /\ Trim(s, q, m) = SubSeq(s, p, Len(s))
             /\ p = 1 \/ p \in Settled(s, q, m)
  <1> DEFINE kt   == keep_ts(s, q, m)
             kept == { i \in DOMAIN s : i = Len(s) \/ s[i].ts_resp >= kt }
             st   == Settled(s, q, m)
  <1>1. /\ Len(s) \in Nat /\ Len(s) >= 1
        /\ DOMAIN s = 1..Len(s)
        /\ \A i \in 1..Len(s) : s[i].ts_call \in Nat /\ s[i].ts_resp \in Nat
    <2>1. s \in Seq(Span) /\ Len(s) >= 1
      BY DEF Sequential
    <2>2. Len(s) \in Nat /\ DOMAIN s = 1..Len(s) /\ \A i \in 1..Len(s) : s[i] \in Span
      BY <2>1
    <2> QED BY <2>1, <2>2 DEF Span
  <1>2. kept \subseteq 1..Len(s) /\ Len(s) \in kept
    BY <1>1
  <1>3. Min(kept) \in kept /\ \A x \in kept : Min(kept) <= x
    <2>1. kept \subseteq Nat /\ kept # {}
      BY <1>1, <1>2
    <2> HIDE DEF kept
    <2> QED BY <2>1, MinOfNats
  <1>4. Trim(s, q, m) = SubSeq(s, Min(kept), Len(s)) /\ Min(kept) \in 1..Len(s)
    BY <1>2, <1>3 DEF Trim
  <1>5. Min(kept) = 1 \/ Min(kept) \in st
    <2>1. CASE st = {}
      <3>1. kt = 0
        BY <2>1 DEF keep_ts
      <3>2. 1 \in kept
        BY <1>1, <3>1
      <3> HIDE DEF kept
      <3> QED BY <1>1, <1>3, <1>4, <3>2
    <2>2. CASE st # {}
      <3>1. st \subseteq 0..Len(s) /\ st \subseteq 1..Len(s)
        BY <1>1 DEF Settled
      <3>2. Max(st) \in st
        BY <1>1, <2>2, <3>1, MaxOfNats
      <3>3. kt = s[Max(st)].ts_call
        BY <2>2 DEF keep_ts
      <3> DEFINE k == Max(st)
      <3>4. k \in 1..Len(s)
        BY <3>1, <3>2
      <3> HIDE DEF k, kt
      <3>5. k \in kept
        BY <1>1, <3>3, <3>4 DEF Sequential, k
      <3>6. \A i \in kept : i >= k
        <4> SUFFICES ASSUME NEW i \in kept, i < k PROVE FALSE
          BY <1>1, <3>4
        <4>1. i \in 1..Len(s) /\ i # Len(s)
          BY <1>2, <1>1, <3>4
        <4>2. s[i].ts_resp >= kt
          BY <4>1
        <4>3. s[i].ts_resp < s[k].ts_call
          BY <4>1, <3>4 DEF Sequential
        <4> QED BY <1>1, <3>3, <3>4, <4>1, <4>2, <4>3 DEF k
      <3>7. Min(kept) = k
        <4> HIDE DEF kept
        <4> QED BY <1>3, <1>4, <3>4, <3>5, <3>6
      <3> QED BY <3>2, <3>7 DEF k
    <2> QED BY <2>1, <2>2
  <1> HIDE DEF kept, st
  <1> QED
    BY <1>4, <1>5 DEF st

(***************************************************************************)
(* The pop loop of apply_update takes decidable responses off the queue:   *)
(* all of them up to the first that is not decidable, or up to the first   *)
(* that fails its check.                                                   *)
(***************************************************************************)
LEMMA PopLoop ==
    ASSUME NEW sp, NEW q, NEW m, NEW L \in Nat, DOMAIN q = 1..L
    PROVE  LET n == NumPopped(sp, q, m)
               failed == Failing(sp, q, m) # {}
           IN  /\ n \in 0..L
               /\ \A i \in 1..n : BeforeComing(q[i].ts_resp, m)
               /\ failed => n \in 1..L /\ ~check_call(sp, q[n])
               /\ failed => \A i \in 1..(n - 1) : check_call(sp, q[i])
               /\ ~failed => \A i \in 1..n : check_call(sp, q[i])
               /\ ~failed /\ n < L => ~BeforeComing(q[n + 1].ts_resp, m)
  <1> DEFINE P == Poppable(q, m)
             F == Failing(sp, q, m)
             n == NumPopped(sp, q, m)
  <1>1. /\ P \subseteq 1..L
        /\ \A i \in P : \A j \in 1..i : BeforeComing(q[j].ts_resp, m) /\ j \in P
        /\ F = { i \in P : ~check_call(sp, q[i]) }
    BY DEF Poppable, Failing
  <1>2. ASSUME F = {} PROVE n = Max(P \cup {0})
    BY <1>2 DEF NumPopped
  <1>3. ASSUME F # {} PROVE n = Min(F)
    BY <1>3 DEF NumPopped
  <1>4. \A i \in 1..L : (\A j \in 1..i : BeforeComing(q[j].ts_resp, m)) => i \in P
    BY DEF Poppable
  <1> HIDE DEF P, F, n
  <1>5. CASE F = {}
    <2>1. P \cup {0} \subseteq 0..L /\ P \cup {0} # {}
      BY <1>1
    <2>2. n \in P \cup {0} /\ \A i \in P \cup {0} : i <= n
      BY <1>2, <1>5, <2>1, MaxOfNats
    <2>3. n \in 0..L /\ \A i \in 1..n : i \in P /\ BeforeComing(q[i].ts_resp, m)
      BY <1>1, <2>1, <2>2
    <2>4. \A i \in 1..n : check_call(sp, q[i])
      BY <1>1, <1>5, <2>3
    <2>5. n < L => ~BeforeComing(q[n + 1].ts_resp, m)
      <3> SUFFICES ASSUME n < L, BeforeComing(q[n + 1].ts_resp, m) PROVE FALSE
        OBVIOUS
      <3>1. n + 1 \in 1..L /\ \A j \in 1..(n + 1) : j \in 1..n \/ j = n + 1
        BY <2>3
      <3>2. n + 1 \in P
        BY <1>4, <2>3, <3>1
      <3> QED BY <2>2, <2>3, <3>2
    <2> QED BY <1>5, <2>3, <2>4, <2>5 DEF F, n
  <1>6. CASE F # {}
    <2>1. F \subseteq Nat /\ F \subseteq P
      <3>1. F \subseteq P
        BY <1>1
      <3>2. \A i \in F : i \in 1..L
        BY <1>1, <3>1
      <3> QED BY <3>1, <3>2
    <2>2. n \in F /\ \A i \in F : n <= i
      BY <1>3, <1>6, <2>1, MinOfNats
    <2>3. n \in 1..L /\ \A i \in 1..n : i \in P /\ BeforeComing(q[i].ts_resp, m)
      BY <1>1, <2>1, <2>2
    <2>4. ~check_call(sp, q[n])
      BY <1>1, <2>2
    <2>5. \A i \in 1..(n - 1) : check_call(sp, q[i])
      <3> SUFFICES ASSUME NEW i \in 1..(n - 1), ~check_call(sp, q[i]) PROVE FALSE
        OBVIOUS
      <3>1. i \in 1..n /\ i < n
        BY <2>3
      <3>2. i \in F
        BY <1>1, <2>3, <3>1
      <3> QED BY <2>2, <2>3, <3>1, <3>2
    <2> QED BY <1>6, <2>3, <2>4, <2>5 DEF F, n
  <1> QED
    BY <1>5, <1>6

------------------------------------------------------------------------------
(***************************************************************************)
(* One client's spans of one key, against the acknowledged updates: every  *)
(* span is one of them, in order, and those without a span were discarded  *)
(* at the front.                                                           *)
(***************************************************************************)
Record(c, k, span) ==
    [cli |-> c, key |-> k, ts_call |-> span.ts_call, ts_resp |-> span.ts_resp,
     value |-> span.value]

Discarded(s, hist, c, k) ==
    { u \in hist : u.cli = c /\ u.key = k /\ u.ts_resp < s[1].ts_call }

Mirrors(s, hist, c, k) ==
    /\ Sequential(s)
    /\ \A i \in 1..Len(s) : Record(c, k, s[i]) \in hist
    /\ \A u \in hist : u.cli = c /\ u.key = k =>
         \/ u \in Discarded(s, hist, c, k)
         \/ \E i \in 1..Len(s) : u = Record(c, k, s[i])

(***************************************************************************)
(* If no discarded update matters to a call, because the first span left   *)
(* was over before it, then the check of the trimmed spans says what the   *)
(* full history says.                                                      *)
(***************************************************************************)
LEMMA CheckExact ==
    ASSUME NEW H, H \subseteq Acked, \A u \in H : u.ts_call <= u.ts_resp,
           NEW k, NEW ks,
           DOMAIN ks = Clients,
           \A c \in Clients : Mirrors(ks[c], H, c, k),
           NEW tc \in Nat, NEW tr \in Nat, NEW wanted,
           \A c \in Clients : Discarded(ks[c], H, c, k) # {} => ks[c][1].ts_resp < tc
    PROVE  CheckSpans(ks, tc, tr, wanted) <=> Admissible(H, k, tc, tr, wanted)
  <1>0. ASSUME NEW c \in Clients
        PROVE  /\ Len(ks[c]) \in Nat /\ Len(ks[c]) >= 1
               /\ DOMAIN ks[c] = 1..Len(ks[c])
               /\ \A i \in 1..Len(ks[c]) : ks[c][i].ts_call \in Nat /\ ks[c][i].ts_resp \in Nat
    <2>1. ks[c] \in Seq(Span) /\ Len(ks[c]) >= 1
      BY <1>0 DEF Mirrors, Sequential
    <2>2. /\ Len(ks[c]) \in Nat /\ DOMAIN ks[c] = 1..Len(ks[c])
          /\ \A i \in 1..Len(ks[c]) : ks[c][i] \in Span
      BY <2>1
    <2> QED BY <2>1, <2>2 DEF Span
  <1>1. ASSUME CheckSpans(ks, tc, tr, wanted)
        PROVE  Admissible(H, k, tc, tr, wanted)
    <2>0. PICK c \in Clients : \E i \in 1..Len(ks[c]) :
             /\ ks[c][i].ts_call < tr
             /\ ks[c][i].value \in wanted
             /\ \A j \in (i + 1)..Len(ks[c]) : ks[c][j].ts_resp >= tc
      BY <1>0, <1>1 DEF CheckSpans
    <2>1. PICK i \in 1..Len(ks[c]) :
             /\ ks[c][i].ts_call < tr
             /\ ks[c][i].value \in wanted
             /\ \A j \in (i + 1)..Len(ks[c]) : ks[c][j].ts_resp >= tc
      BY <2>0
    <2> DEFINE s == ks[c]
               u == Record(c, k, s[i])
    <2>2. u \in H /\ u.cli = c /\ u.key = k /\ u.ts_call < tr /\ u.value \in wanted
          /\ u.ts_resp = s[i].ts_resp
      BY <2>1 DEF Mirrors, Record
    <2>3. ASSUME NEW w \in H, w.cli = c, w.key = k, w.ts_call > u.ts_resp
          PROVE  w.ts_resp >= tc
      <3>1. w.ts_call \in Nat /\ w.ts_resp \in Nat
        BY DEF Acked
      <3>2. CASE w \in Discarded(s, H, c, k)
        <4>1. s[1].ts_resp < tc /\ w.ts_resp < s[1].ts_call
          BY <3>2 DEF Discarded
        <4>2. s[1].ts_call <= s[i].ts_resp
          <5>1. CASE i = 1
            BY <1>0, <2>1, <5>1 DEF Mirrors, Sequential
          <5>2. CASE i # 1
            <6>1. 1 \in 1..Len(s) /\ 1 < i
              BY <1>0, <2>1, <5>2
            <6>2. s[1].ts_resp < s[i].ts_call /\ s[1].ts_call <= s[1].ts_resp
                  /\ s[i].ts_call <= s[i].ts_resp
              BY <2>1, <6>1 DEF Mirrors, Sequential
            <6> QED BY <1>0, <2>1, <6>1, <6>2
          <5> QED BY <5>1, <5>2
        <4>3. w.ts_call <= w.ts_resp
          OBVIOUS
        <4>4. s[1].ts_call \in Nat /\ s[i].ts_resp \in Nat
          BY <1>0, <2>1
        <4> QED BY <2>2, <2>3, <3>1, <4>1, <4>2, <4>3, <4>4
      <3>3. CASE \E j \in 1..Len(s) : w = Record(c, k, s[j])
        <4>1. PICK j \in 1..Len(s) : w = Record(c, k, s[j])
          BY <3>3
        <4>2. w.ts_call = s[j].ts_call /\ w.ts_resp = s[j].ts_resp
          BY <4>1 DEF Record
        <4>3. s[j].ts_call > s[i].ts_resp
          BY <2>2, <2>3, <4>2
        <4>4. j > i
          <5>1. CASE j = i
            BY <1>0, <2>1, <4>3, <5>1 DEF Mirrors, Sequential
          <5>2. CASE j < i
            <6>1. s[j].ts_resp < s[i].ts_call /\ s[j].ts_call <= s[j].ts_resp
                  /\ s[i].ts_call <= s[i].ts_resp
              BY <2>1, <4>1, <5>2 DEF Mirrors, Sequential
            <6> QED BY <1>0, <2>1, <4>1, <4>3, <6>1
          <5> QED BY <1>0, <2>1, <4>1, <5>1, <5>2
        <4>5. j \in (i + 1)..Len(s)
          BY <1>0, <2>1, <4>1, <4>4
        <4> QED BY <2>1, <4>2, <4>5
      <3> QED BY <2>3, <3>2, <3>3 DEF Mirrors
    <2> HIDE DEF u, s
    <2> QED BY <2>2, <2>3 DEF Admissible
  <1>2. ASSUME Admissible(H, k, tc, tr, wanted)
        PROVE  CheckSpans(ks, tc, tr, wanted)
    <2>1. PICK u \in H :
             /\ u.key = k
             /\ u.ts_call < tr
             /\ u.value \in wanted
             /\ \A w \in H : (w.cli = u.cli /\ w.key = k /\ w.ts_call > u.ts_resp)
                               => w.ts_resp >= tc
      BY <1>2 DEF Admissible
    <2> DEFINE c == u.cli
               s == ks[c]
    <2>2. c \in Clients
      BY DEF Acked
    <2>3. CASE u \in Discarded(s, H, c, k)
      <3> DEFINE w == Record(c, k, s[1])
      <3>1. w \in H /\ w.cli = u.cli /\ w.key = k /\ w.ts_call = s[1].ts_call
            /\ w.ts_resp = s[1].ts_resp
        <4>1. 1 \in 1..Len(s)
          BY <1>0, <2>2
        <4>2. w \in H
          BY <2>2, <4>1 DEF Mirrors
        <4> QED BY <4>2 DEF Record
      <3>2. u.ts_resp < s[1].ts_call /\ s[1].ts_resp < tc
        BY <2>2, <2>3 DEF Discarded
      <3>3. u.ts_resp \in Nat /\ s[1].ts_call \in Nat /\ s[1].ts_resp \in Nat
        BY <1>0, <2>2 DEF Acked
      <3>4. w.ts_resp >= tc
        <4> HIDE DEF w
        <4> QED BY <2>1, <3>1, <3>2, <3>3
      <3> QED BY <3>1, <3>2, <3>3, <3>4
    <2>4. CASE \E i \in 1..Len(s) : u = Record(c, k, s[i])
      <3>1. PICK i \in 1..Len(s) : u = Record(c, k, s[i])
        BY <2>4
      <3>2. u.ts_call = s[i].ts_call /\ u.ts_resp = s[i].ts_resp /\ u.value = s[i].value
        BY <3>1 DEF Record
      <3>3. ASSUME NEW j \in (i + 1)..Len(s) PROVE s[j].ts_resp >= tc
        <4> DEFINE w == Record(c, k, s[j])
        <4>1. j \in 1..Len(s) /\ i < j
          BY <1>0, <2>2, <3>1
        <4>2. w \in H /\ w.cli = u.cli /\ w.key = k /\ w.ts_call = s[j].ts_call
              /\ w.ts_resp = s[j].ts_resp
          BY <2>2, <4>1 DEF Mirrors, Record
        <4>3. s[i].ts_resp < s[j].ts_call
          BY <2>2, <3>1, <4>1 DEF Mirrors, Sequential
        <4>4. s[i].ts_resp \in Nat /\ s[j].ts_call \in Nat
          BY <1>0, <2>2, <3>1, <4>1
        <4> HIDE DEF w
        <4> QED BY <2>1, <3>2, <4>2, <4>3, <4>4
      <3> QED BY <1>0, <2>1, <2>2, <3>1, <3>2, <3>3 DEF CheckSpans
    <2> QED BY <2>1, <2>2, <2>3, <2>4 DEF Mirrors
  <1> QED BY <1>1, <1>2

------------------------------------------------------------------------------
\* What membership in Seq(Span) gives the provers.
LEMMA SequentialFacts ==
    ASSUME NEW s, Sequential(s)
    PROVE  /\ s \in Seq(Span) /\ Len(s) \in Nat /\ Len(s) >= 1 /\ DOMAIN s = 1..Len(s)
           /\ 1 \in 1..Len(s) /\ Len(s) \in 1..Len(s)
           /\ \A i \in 1..Len(s) : /\ s[i] \in Span
                                   /\ s[i].ts_call \in Nat /\ s[i].ts_resp \in Nat
                                   /\ s[i].ts_call <= s[i].ts_resp
                                   /\ s[1].ts_call <= s[i].ts_call
  <1>1. s \in Seq(Span) /\ Len(s) >= 1
    BY DEF Sequential
  <1>2. /\ Len(s) \in Nat /\ DOMAIN s = 1..Len(s)
        /\ \A i \in 1..Len(s) : s[i] \in Span
    BY <1>1
  <1>3. \A i \in 1..Len(s) : s[i].ts_call \in Nat /\ s[i].ts_resp \in Nat
    BY <1>2 DEF Span
  <1>4. 1 \in 1..Len(s) /\ Len(s) \in 1..Len(s)
    BY <1>1, <1>2
  <1>5. ASSUME NEW i \in 1..Len(s) PROVE s[1].ts_call <= s[i].ts_call
    <2>1. CASE i = 1
      BY <1>3, <2>1
    <2>2. CASE i # 1
      <3>1. 1 < i
        BY <1>2, <2>2
      <3>2. s[1].ts_resp < s[i].ts_call /\ s[1].ts_call <= s[1].ts_resp
        BY <1>4, <3>1 DEF Sequential
      <3> QED BY <1>3, <1>4, <3>2
    <2> QED BY <2>1, <2>2
  <1> QED BY <1>1, <1>2, <1>3, <1>4, <1>5 DEF Sequential

\* A new update of the client is pushed to its spans.
LEMMA PushMirrors ==
    ASSUME NEW s, NEW H, NEW c, NEW k, Mirrors(s, H, c, k),
           NEW e \in Span, e.ts_call <= e.ts_resp, s[Len(s)].ts_resp < e.ts_call,
           NEW t, t = Append(s, e),
           NEW H2, H2 = H \cup {Record(c, k, e)}
    PROVE  Mirrors(t, H2, c, k)
  <1> DEFINE n == Len(s)
  <1>1. Sequential(s)
    BY DEF Mirrors
  <1>2. /\ s \in Seq(Span) /\ n \in Nat /\ n >= 1 /\ DOMAIN s = 1..n
        /\ \A i \in 1..n : /\ s[i].ts_call \in Nat /\ s[i].ts_resp \in Nat
                           /\ s[i].ts_call <= s[i].ts_resp
                           /\ s[1].ts_call <= s[i].ts_call
    BY <1>1, SequentialFacts
  <1>3. /\ t \in Seq(Span) /\ Len(t) = n + 1
        /\ \A i \in 1..n : t[i] = s[i]
        /\ t[n + 1] = e
    BY <1>2, AppendProperties
  <1>4. e.ts_call \in Nat /\ e.ts_resp \in Nat
    BY DEF Span
  <1>5. \A i \in 1..(n + 1) : i \in 1..n \/ i = n + 1
    BY <1>2
  <1>6. t[1] = s[1] /\ 1 \in 1..n /\ n \in 1..n
    BY <1>2, <1>3
  <1>7. \A i \in 1..n : s[i].ts_resp < e.ts_call
    <2> TAKE i \in 1..n
    <2>1. CASE i = n
      BY <2>1
    <2>2. CASE i # n
      <3>1. i < n
        <4>1. n \in Nat /\ i \in 1..n
          BY <1>2
        <4> HIDE DEF n
        <4> QED BY <2>2, <4>1
      <3>2. s[i].ts_resp < s[n].ts_call /\ s[n].ts_call <= s[n].ts_resp
        BY <1>1, <1>6, <3>1 DEF Sequential
      <3> QED BY <1>2, <1>4, <1>6, <3>2
    <2> QED BY <2>1, <2>2
  <1>8. Sequential(t)
    <2>1. Len(t) >= 1
      BY <1>2, <1>3
    <2>2. \A i \in 1..Len(t) : t[i].ts_call <= t[i].ts_resp
      BY <1>1, <1>3, <1>5 DEF Sequential
    <2>3. ASSUME NEW i \in 1..Len(t), NEW j \in 1..Len(t), i < j
          PROVE  t[i].ts_resp < t[j].ts_call
      <3>1. i \in 1..n
        BY <1>2, <1>3, <2>3
      <3>2. CASE j \in 1..n
        BY <1>1, <1>3, <2>3, <3>1, <3>2 DEF Sequential
      <3>3. CASE j = n + 1
        BY <1>3, <1>7, <3>1, <3>3
      <3> QED BY <1>3, <1>5, <3>2, <3>3
    <2> QED BY <1>3, <2>1, <2>2, <2>3 DEF Sequential
  <1> DEFINE r == Record(c, k, e)
  <1>9. r.cli = c /\ r.key = k /\ r.ts_resp = e.ts_resp /\ r.ts_call = e.ts_call
    BY DEF Record
  <1>10. ~(r.ts_resp < s[1].ts_call)
    BY <1>2, <1>4, <1>6, <1>7, <1>9
  <1> HIDE DEF r
  <1>11. Discarded(t, H2, c, k) = Discarded(s, H, c, k)
    BY <1>6, <1>10 DEF Discarded, r
  <1>12. \A i \in 1..Len(t) : Record(c, k, t[i]) \in H2
    BY <1>3, <1>5 DEF Mirrors, r
  <1>13. ASSUME NEW u \in H2, u.cli = c, u.key = k
         PROVE  \/ u \in Discarded(t, H2, c, k)
                \/ \E i \in 1..Len(t) : u = Record(c, k, t[i])
    <2>1. CASE u = r
      <3>1. n + 1 \in 1..Len(t) /\ u = Record(c, k, t[n + 1])
        BY <1>2, <1>3, <2>1 DEF r
      <3> QED BY <3>1
    <2>2. CASE u \in H
      <3>1. \/ u \in Discarded(s, H, c, k)
            \/ \E i \in 1..n : u = Record(c, k, s[i])
        BY <1>13, <2>2 DEF Mirrors
      <3>2. \A i \in 1..n : i \in 1..Len(t) /\ t[i] = s[i]
        BY <1>2, <1>3
      <3> QED BY <1>11, <3>1, <3>2
    <2> QED BY <2>1, <2>2 DEF r
  <1> QED BY <1>6, <1>8, <1>11, <1>12, <1>13 DEF Mirrors

\* An update by another client or to another key changes nothing here.
LEMMA OtherMirrors ==
    ASSUME NEW s, NEW H, NEW c, NEW k, Mirrors(s, H, c, k),
           NEW r, r.cli # c \/ r.key # k, NEW H2, H2 = H \cup {r}
    PROVE  /\ Mirrors(s, H2, c, k)
           /\ Discarded(s, H2, c, k) = Discarded(s, H, c, k)
  <1>1. Discarded(s, H2, c, k) = Discarded(s, H, c, k)
    BY DEF Discarded
  <1> QED BY <1>1 DEF Mirrors

\* Trimming leaves a mirror whose first span, if it discarded any, is settled.
LEMMA TrimMirrors ==
    ASSUME NEW s, NEW H, NEW c, NEW k, Mirrors(s, H, c, k), NEW q, NEW m,
           H \subseteq Acked,
           Discarded(s, H, c, k) # {} =>
             BeforeComing(s[1].ts_resp, m) /\ BeforeQueued(s[1].ts_resp, q)
    PROVE  LET t == Trim(s, q, m)
           IN  /\ Mirrors(t, H, c, k)
               /\ Discarded(t, H, c, k) # {} =>
                    BeforeComing(t[1].ts_resp, m) /\ BeforeQueued(t[1].ts_resp, q)
  <1>1. Sequential(s)
    BY DEF Mirrors
  <1>2. PICK p \in 1..Len(s) : /\ Trim(s, q, m) = SubSeq(s, p, Len(s))
                               /\ p = 1 \/ p \in Settled(s, q, m)
    BY <1>1, TrimSuffix
  <1> DEFINE n == Len(s)
             t == SubSeq(s, p, n)
             l == n - p + 1
  <1>3. /\ s \in Seq(Span) /\ n \in Nat /\ n >= 1 /\ p \in 1..n /\ l \in Nat /\ l >= 1
        /\ \A i \in 1..n : /\ s[i] \in Span
                           /\ s[i].ts_call \in Nat /\ s[i].ts_resp \in Nat
                           /\ s[i].ts_call <= s[i].ts_resp
    BY <1>1, <1>2, SequentialFacts
  <1>4. t \in Seq(Span) /\ Len(t) = l /\ \A i \in 1..l : t[i] = s[p + i - 1]
    <2>1. \A i \in p..n : s[i] \in Span
      BY <1>3
    <2>2. /\ t \in Seq(Span)
          /\ Len(t) = IF p <= n THEN n - p + 1 ELSE 0
          /\ \A i \in 1..(n - p + 1) : t[i] = s[p + i - 1]
      BY <1>3, <2>1, SubSeqProperties
    <2>3. p <= n
      BY <1>3
    <2>4. Len(t) = l
      BY <2>2, <2>3
    <2>5. \A i \in 1..l : t[i] = s[p + i - 1]
      BY <2>2
    <2> HIDE DEF t, l, n
    <2> QED BY <2>2, <2>4, <2>5
  <1>5. \A i \in 1..l : p + i - 1 \in 1..n
    BY <1>3
  <1>6. \A i \in p..n : i - p + 1 \in 1..l /\ p + (i - p + 1) - 1 = i
    BY <1>3
  <1>7. t[1] = s[p]
    BY <1>3, <1>4
  <1> HIDE DEF t, n, l
  <1>8. Sequential(t)
    <2>1. \A i \in 1..l : t[i].ts_call <= t[i].ts_resp
      BY <1>3, <1>4, <1>5
    <2>2. ASSUME NEW i \in 1..l, NEW j \in 1..l, i < j
          PROVE  t[i].ts_resp < t[j].ts_call
      <3>1. p + i - 1 < p + j - 1
        BY <1>3, <2>2
      <3> QED BY <1>1, <1>4, <1>5, <3>1 DEF Sequential, n
    <2> QED BY <1>3, <1>4, <2>1, <2>2 DEF Sequential
  <1>9. \A i \in 1..l : Record(c, k, t[i]) \in H
    BY <1>4, <1>5 DEF Mirrors, n
  <1>10. ASSUME NEW u \in H, u.cli = c, u.key = k
         PROVE  \/ u \in Discarded(t, H, c, k)
                \/ \E i \in 1..l : u = Record(c, k, t[i])
    <2>1. u.ts_resp \in Nat
      BY DEF Acked
    <2>2. CASE u \in Discarded(s, H, c, k)
      <3>1. u.ts_resp < s[1].ts_call /\ s[1].ts_call <= s[p].ts_call
        BY <1>1, <1>3, <2>2, SequentialFacts DEF Discarded, n
      <3>2. s[1].ts_call \in Nat /\ s[p].ts_call \in Nat
        BY <1>3
      <3> QED BY <1>7, <1>10, <2>1, <3>1, <3>2 DEF Discarded
    <2>3. CASE \E i \in 1..n : u = Record(c, k, s[i])
      <3>1. PICK i \in 1..n : u = Record(c, k, s[i])
        BY <2>3
      <3>2. u.ts_resp = s[i].ts_resp
        BY <3>1 DEF Record
      <3>3. CASE i < p
        <4>1. s[i].ts_resp < s[p].ts_call
          BY <1>1, <1>3, <3>1, <3>3 DEF Sequential, n
        <4> QED BY <1>7, <1>10, <3>2, <4>1 DEF Discarded
      <3>4. CASE i >= p
        <4>1. i \in p..n
          BY <1>3, <3>1, <3>4
        <4>2. t[i - p + 1] = s[i] /\ i - p + 1 \in 1..l
          BY <1>4, <1>6, <4>1
        <4> QED BY <3>1, <4>2
      <3> QED BY <1>3, <3>1, <3>3, <3>4
    <2> QED BY <1>10, <2>2, <2>3 DEF Mirrors, n
  <1>11. Mirrors(t, H, c, k)
    BY <1>4, <1>8, <1>9, <1>10 DEF Mirrors
  <1>12. ASSUME Discarded(t, H, c, k) # {}
         PROVE  BeforeComing(t[1].ts_resp, m) /\ BeforeQueued(t[1].ts_resp, q)
    <2>1. CASE p \in Settled(s, q, m)
      BY <1>7, <2>1 DEF Settled
    <2>2. CASE p = 1
      BY <1>7, <1>12, <2>2 DEF Discarded
    <2> QED BY <1>2, <2>1, <2>2
  <1> QED BY <1>2, <1>11, <1>12 DEF t, n

(***************************************************************************)
(* A verdict survives every update that began after the response it is     *)
(* about.                                                                  *)
(***************************************************************************)
LEMMA VerdictStable ==
    ASSUME NEW H, NEW e \in QueuedSpan, e.ts_call < e.ts_resp,
           NEW r \in Acked, r.ts_call > e.ts_resp, r.ts_call <= r.ts_resp
    PROVE  Permitted(H \cup {r}, e) <=> Permitted(H, e)
  <1>1. /\ e.ts_call \in Nat /\ e.ts_resp \in Nat /\ r.ts_call \in Nat /\ r.ts_resp \in Nat
    BY DEF QueuedSpan, Acked
  <1>2. ~(r.ts_call < e.ts_resp) /\ r.ts_resp >= e.ts_call
    BY <1>1
  <1>3. ASSUME NEW k, NEW wanted
        PROVE  Admissible(H \cup {r}, k, e.ts_call, e.ts_resp, wanted)
                 <=> Admissible(H, k, e.ts_call, e.ts_resp, wanted)
    BY <1>2 DEF Admissible
  <1> QED BY <1>3 DEF Permitted

------------------------------------------------------------------------------
(***************************************************************************)
(* The whole history: every client's spans of every key mirror the         *)
(* acknowledged updates, and where some were discarded, the first span     *)
(* left is settled.                                                        *)
(***************************************************************************)
MirrorsAll(sp, hist, q, m) ==
    /\ sp \in [Pool -> [Clients -> Seq(Span)]]
    /\ \A k \in Pool, c \in Clients :
         /\ Mirrors(sp[k][c], hist, c, k)
         /\ Discarded(sp[k][c], hist, c, k) # {} =>
              BeforeComing(sp[k][c][1].ts_resp, m) /\ BeforeQueued(sp[k][c][1].ts_resp, q)

\* check_call of the spans agrees with the untrimmed history on every queued response.
LEMMA CheckCallExact ==
    ASSUME NEW H, H \subseteq Acked, \A u \in H : u.ts_call <= u.ts_resp,
           NEW sp, NEW q, NEW m, MirrorsAll(sp, H, q, m),
           NEW i \in DOMAIN q, q[i] \in QueuedSpan
    PROVE  check_call(sp, q[i]) <=> Permitted(H, q[i])
  <1>1. q[i].ts_call \in Nat /\ q[i].ts_resp \in Nat /\ DOMAIN sp = Pool
    BY DEF QueuedSpan, MirrorsAll
  <1>2. ASSUME NEW k \in Pool, NEW wanted
        PROVE  CheckSpans(sp[k], q[i].ts_call, q[i].ts_resp, wanted)
                 <=> Admissible(H, k, q[i].ts_call, q[i].ts_resp, wanted)
    <2>1. DOMAIN sp[k] = Clients /\ \A c \in Clients : Mirrors(sp[k][c], H, c, k)
      BY DEF MirrorsAll
    <2>2. \A c \in Clients : Discarded(sp[k][c], H, c, k) # {} => sp[k][c][1].ts_resp < q[i].ts_call
      BY DEF MirrorsAll, BeforeQueued
    <2> QED BY <1>1, <2>1, <2>2, CheckExact
  <1> QED BY <1>1, <1>2 DEF check_call, Permitted

(***************************************************************************)
(* The push and the trim of apply_update keep the mirror, for an update    *)
(* that began after the client's last one was over.                        *)
(***************************************************************************)
LEMMA SpansAfterMirrors ==
    ASSUME NEW H, H \subseteq Acked,
           NEW sp, NEW q, NEW m, MirrorsAll(sp, H, q, m),
           NEW c \in Clients, NEW u \in Update, u.key \in Pool,
           NEW tc \in Nat, NEW tr \in Nat, tc <= tr,
           \A h \in H : h.cli = c => h.ts_resp < tc,
           NEW q2, NEW m2,
           \A ts \in Nat : BeforeComing(ts, m) /\ BeforeQueued(ts, q)
                             => BeforeComing(ts, m2) /\ BeforeQueued(ts, q2),
           NEW r, r = [cli |-> c, key |-> u.key, value |-> u.value,
                       ts_call |-> tc, ts_resp |-> tr],
           NEW H2, H2 = H \cup {r},
           NEW sp2, sp2 = SpansAfter(sp, q2, m2, c, u, tc, tr)
    PROVE  MirrorsAll(sp2, H2, q2, m2)
  <1> DEFINE e      == [ts_call |-> tc, ts_resp |-> tr, value |-> u.value]
             pushed == [sp[u.key] EXCEPT ![c] = Append(@, e)]
  <1>0. sp \in [Pool -> [Clients -> Seq(Span)]]
    BY DEF MirrorsAll
  <1>1. /\ e \in Span
        /\ e.ts_call = tc /\ e.ts_resp = tr
        /\ r = Record(c, u.key, e) /\ r \in Acked /\ r.cli = c /\ r.key = u.key
    BY DEF Span, Record, Update, Acked
  <1>2. DOMAIN pushed = Clients
    BY <1>0
  <1>3. sp2 = [sp EXCEPT ![u.key] = [x \in Clients |-> Trim(pushed[x], q2, m2)]]
    BY <1>0, <1>2 DEF SpansAfter
  <1>4. H2 \subseteq Acked
    BY <1>1
  <1> HIDE DEF e
  <1>5. ASSUME NEW k \in Pool, NEW x \in Clients
        PROVE  /\ Sequential(sp[k][x])
               /\ sp[k][x][1].ts_resp \in Nat
    BY SequentialFacts DEF MirrorsAll, Mirrors
  <1>6. ASSUME NEW k \in Pool, NEW x \in Clients, ~(k = u.key /\ x = c)
        PROVE  /\ Mirrors(sp[k][x], H2, x, k)
               /\ Discarded(sp[k][x], H2, x, k) # {} =>
                    BeforeComing(sp[k][x][1].ts_resp, m2) /\ BeforeQueued(sp[k][x][1].ts_resp, q2)
    <2>1. Mirrors(sp[k][x], H, x, k)
      BY DEF MirrorsAll
    <2>2. r.cli # x \/ r.key # k
      BY <1>1, <1>6
    <2>3. /\ Mirrors(sp[k][x], H2, x, k)
          /\ Discarded(sp[k][x], H2, x, k) = Discarded(sp[k][x], H, x, k)
      <3>1. H2 = H \cup {r}
        OBVIOUS
      <3> QED BY ONLY <2>1, <2>2, <3>1, OtherMirrors
    <2>4. Discarded(sp[k][x], H, x, k) # {} =>
            BeforeComing(sp[k][x][1].ts_resp, m) /\ BeforeQueued(sp[k][x][1].ts_resp, q)
      BY DEF MirrorsAll
    <2> QED BY <1>5, <2>3, <2>4
  <1>7. /\ Mirrors(pushed[c], H2, c, u.key)
        /\ Discarded(pushed[c], H2, c, u.key) # {} =>
             BeforeComing(pushed[c][1].ts_resp, m2) /\ BeforeQueued(pushed[c][1].ts_resp, q2)
    <2> DEFINE s == sp[u.key][c]
    <2>1. pushed[c] = Append(s, e)
      BY <1>0
    <2>2. Mirrors(s, H, c, u.key)
      BY DEF MirrorsAll
    <2>3. s[Len(s)].ts_resp < e.ts_call
      <3>1. Len(s) \in 1..Len(s)
        BY <1>5, SequentialFacts
      <3>2. Record(c, u.key, s[Len(s)]) \in H
        BY <2>2, <3>1 DEF Mirrors
      <3>3. /\ Record(c, u.key, s[Len(s)]).cli = c
            /\ Record(c, u.key, s[Len(s)]).ts_resp = s[Len(s)].ts_resp
        BY DEF Record
      <3> QED BY <1>1, <3>2, <3>3
    <2>4. Discarded(s, H, c, u.key) # {} =>
            BeforeComing(s[1].ts_resp, m) /\ BeforeQueued(s[1].ts_resp, q)
      BY DEF MirrorsAll
    <2>5. s[1].ts_resp \in Nat
      BY <1>5
    <2> HIDE DEF s
    <2> HIDE DEF pushed
    <2>6. /\ Mirrors(pushed[c], H2, c, u.key)
          /\ Discarded(pushed[c], H2, c, u.key) = Discarded(s, H, c, u.key)
          /\ pushed[c][1] = s[1]
      <3>1. H2 = H \cup {Record(c, u.key, e)}
        BY <1>1
      <3>2. e \in Span /\ e.ts_call <= e.ts_resp
        BY <1>1
      <3>3. Mirrors(pushed[c], H2, c, u.key)
        BY ONLY <2>1, <2>2, <2>3, <3>1, <3>2, PushMirrors
      <3>4. pushed[c][1] = s[1]
        BY <1>5, <2>1, AppendProperties, SequentialFacts DEF s
      <3>5. ~(r.ts_resp < s[1].ts_call)
        <4>1. 1 \in 1..Len(s) /\ s[1].ts_call \in Nat /\ s[1].ts_call <= s[1].ts_resp
          BY <1>5, SequentialFacts DEF s
        <4>2. Record(c, u.key, s[1]) \in H
          BY <2>2, <4>1 DEF Mirrors
        <4>3. Record(c, u.key, s[1]).cli = c /\ Record(c, u.key, s[1]).ts_resp = s[1].ts_resp
          BY DEF Record
        <4>4. s[1].ts_resp < tc
          BY <4>2, <4>3
        <4> QED BY <2>5, <4>1, <4>4
      <3>6. Discarded(pushed[c], H2, c, u.key) = Discarded(s, H, c, u.key)
        BY <3>4, <3>5 DEF Discarded
      <3> QED BY <3>3, <3>4, <3>6
    <2> QED BY <2>4, <2>5, <2>6
  <1>8. \A x \in Clients : x # c => pushed[x] = sp[u.key][x]
    BY <1>0
  <1> HIDE DEF pushed
  <1>9. ASSUME NEW x \in Clients
        PROVE  /\ Mirrors(pushed[x], H2, x, u.key)
               /\ Discarded(pushed[x], H2, x, u.key) # {} =>
                    BeforeComing(pushed[x][1].ts_resp, m2) /\ BeforeQueued(pushed[x][1].ts_resp, q2)
    BY <1>6, <1>7, <1>8
  <1>10. ASSUME NEW x \in Clients
         PROVE  LET t == Trim(pushed[x], q2, m2)
                IN  /\ t \in Seq(Span)
                    /\ Mirrors(t, H2, x, u.key)
                    /\ Discarded(t, H2, x, u.key) # {} =>
                         BeforeComing(t[1].ts_resp, m2) /\ BeforeQueued(t[1].ts_resp, q2)
    <2> DEFINE t == Trim(pushed[x], q2, m2)
    <2>1. /\ Mirrors(t, H2, x, u.key)
          /\ Discarded(t, H2, x, u.key) # {} =>
               BeforeComing(t[1].ts_resp, m2) /\ BeforeQueued(t[1].ts_resp, q2)
      BY <1>4, <1>9, TrimMirrors
    <2>2. t \in Seq(Span)
      BY <2>1 DEF Mirrors, Sequential
    <2> QED BY <2>1, <2>2
  <1>11. /\ \A x \in Clients : sp2[u.key][x] = Trim(pushed[x], q2, m2)
         /\ \A k \in Pool : k # u.key => sp2[k] = sp[k]
    BY <1>0, <1>3
  <1>12. sp2 \in [Pool -> [Clients -> Seq(Span)]]
    BY <1>0, <1>3, <1>10
  <1>13. ASSUME NEW k \in Pool, NEW x \in Clients
         PROVE  /\ Mirrors(sp2[k][x], H2, x, k)
                /\ Discarded(sp2[k][x], H2, x, k) # {} =>
                     BeforeComing(sp2[k][x][1].ts_resp, m2) /\ BeforeQueued(sp2[k][x][1].ts_resp, q2)
    <2>1. CASE k = u.key
      BY <1>10, <1>11, <2>1
    <2>2. CASE k # u.key
      BY <1>6, <1>11, <2>2
    <2> QED BY <2>1, <2>2
  <1> QED BY <1>12, <1>13 DEF MirrorsAll
==============================================================================
