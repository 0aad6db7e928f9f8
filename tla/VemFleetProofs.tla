--------------------------- MODULE VemFleetProofs ---------------------------
(***************************************************************************)
(* Theorems about VemFleet, for any endpoints, environments, jobs and       *)
(* versions, and any number of lost, repeated and replayed events.          *)
(*                                                                         *)
(* An endpoint's frames and the log are in order, and a repeated or replayed *)
(* record never comes after one that was published later without that one   *)
(* following: what is out of date has its correction still ahead of it.     *)
(***************************************************************************)
EXTENDS VemFleet, SequenceTheorems, FiniteSetTheorems, TLAPS

-----------------------------------------------------------------------------
(* Sequences of events *)

\* One of the events in A is in s; every one of B in s has one of G behind it.
Has(s, A) == \E i \in 1 .. Len(s) : s[i] \in A
Answered(s, B, G) ==
  \A i \in 1 .. Len(s) : s[i] \in B => \E k \in 1 .. Len(s) : k > i /\ s[k] \in G

\* With w behind l: every one of B has one of G behind it.
Settled(w, l, B, G) == Answered(w, B, G) /\ (Has(w, G) \/ Answered(l, B, G))
Due(w, l, G) == Has(w, G) \/ Has(l, G)

\* An event of A is under way from some endpoint.
Afoot(A) == Has(log, A) \/ \E e \in Endpoints : Has(wire[e], A)

-----------------------------------------------------------------------------
(* The invariants *)

\* Frames are of the endpoint that sends them, jobs that were submitted have a place and
\* a version, the leader is up.
Consistent ==
  /\ \A e \in Endpoints : \A i \in 1 .. Len(wire[e]) : wire[e][i].ep = e
  /\ \A j \in Jobs : IF job[j].state = "unsent" THEN job[j].at = Nobody /\ ~job[j].moved
                     ELSE job[j].at \in Endpoints /\ job[j].version \in Versions
  /\ Leader \in up

FleetTypes == VemTypeOK /\ Consistent

\* A document that was never removed can be looked at.
Watched ==
  \A e \in Endpoints : e \notin purged =>
    LET doc == view.endpoints[e] IN doc.known /\ doc.status # "none" /\ doc.bind

\* What e said of another leader than Leader, and of Leader.
Misled(e) == {ev \in Events : ev.type \in LeaderTypes /\ ev.ep = e /\ ev.leader # Leader}
Corrected(e) == {ev \in Events : ev.type \in LeaderTypes /\ ev.ep = e /\ ev.leader = Leader}

LeaderKnown(e) == elected[e] = Leader /\ <<"consensus", e>> \notin lost

\* An endpoint that last elected Leader says so after all else it said; and a wrong flag
\* is the word of one whose last word is still to come.
LeaderInv ==
  /\ \A e \in Endpoints : LeaderKnown(e) => Settled(wire[e], log, Misled(e), Corrected(e))
  /\ (\E v \in Envs : view.leaders[v] \notin {Leader, Nobody}) =>
       \E e \in Endpoints : ~LeaderKnown(e) \/ Due(wire[e], log, Corrected(e))

\* Events that take version v from its document, and those that give it to the leader.
Removal(v) == {ev \in Events : ev.type \in RemovalTypes /\ ev.version = v}
Holding(v) == {ev \in Events : ev.type \in FunctionTypes /\ ev.ep = Leader /\ ev.version = v}

Removing(v) == view.functions[v].deleted \/ Afoot(Removal(v))

\* A version is being removed only once the leader has deleted it, which shows if it is
\* registered again; and one the leader has is shown, or its registration under way.
FunctionInv ==
  \A v \in Versions :
    /\ Removing(v) =>
         \/ v \in reused \/ <<"functions", v>> \in purged
         \/ v \notin stored[Leader] /\ (view.functions[v].known \/ <<"functions", v>> \in tombs)
    /\ v \in stored[Leader] \ reused /\ <<"functions", v>> \notin lost \cup purged =>
         \/ view.functions[v].known /\ Leader \in view.functions[v].holders
         \/ Due(wire[Leader], log, Holding(v))

\* Events about a job: those that show it active as version v, those that show st.
About(j) == {ev \in Events : ev.type \in JobTypes /\ ev.job = j}
Stale(j, v) == {ev \in About(j) : ~(ev.type \in {"JobQueued", "JobStarted"} /\ ev.version = v)}
Showing(j, st) == {ev \in About(j) : JobStatus[ev.type] = st}
NotShowing(j, st) == About(j) \ Showing(j, st)

Outcome(s) == IF s = "done" THEN "COMPLETED" ELSE "FAILED"

\* Until it is forwarded, the endpoint a job was submitted to is the only one to speak of it.
JobPlaced(j) ==
  ~job[j].moved => \A e \in Endpoints : Has(wire[e], About(j)) => e = job[j].at

JobUnsent(j) ==
  job[j].state = "unsent" => view.jobs[j] = NoJob /\ ~Afoot(About(j))

\* A job that runs is shown active or about to be, and nothing under way says otherwise.
ActiveAs(j, v) ==
  /\ ~Afoot(Stale(j, v))
  /\ <<"activity">> \in lost \/ ShownActive(j, v) \/ Afoot(About(j))

JobActive(j) ==
  job[j].state \in Active /\ j \notin purged => \A v \in Versions : v = job[j].version => ActiveAs(j, v)

\* How a job ended is shown, or is the last thing that will be.
JobOver(j) ==
  job[j].state \in {"done", "failed"} /\ ~job[j].moved /\ j \notin purged /\ <<"activity">> \notin lost =>
    LET w == wire[job[j].at]  st == Outcome(job[j].state)
    IN  /\ Settled(w, log, NotShowing(j, st), Showing(j, st))
        /\ view.jobs[j].status # st => Due(w, log, Showing(j, st))

JobInv == \A j \in Jobs : JobPlaced(j) /\ JobUnsent(j) /\ JobActive(j) /\ JobOver(j)

-----------------------------------------------------------------------------
(* Lemmas about sequences *)

LEMMA HasAppend ==
  ASSUME NEW S, NEW s \in Seq(S), NEW x \in S, NEW A
  PROVE  /\ Append(s, x) \in Seq(S)
         /\ Has(Append(s, x), A) <=> Has(s, A) \/ x \in A
<1>1. /\ Append(s, x) \in Seq(S) /\ Len(Append(s, x)) = Len(s) + 1 /\ Len(s) \in Nat
      /\ Append(s, x)[Len(s) + 1] = x /\ \A i \in 1 .. Len(s) : Append(s, x)[i] = s[i]
  OBVIOUS
<1>2. ASSUME Has(Append(s, x), A)  PROVE Has(s, A) \/ x \in A
  <2>1. PICK i \in 1 .. Len(s) + 1 : Append(s, x)[i] \in A
    BY <1>1, <1>2 DEF Has
  <2>2. i = Len(s) + 1 \/ i \in 1 .. Len(s)
    BY <1>1
  <2> QED  BY <1>1, <2>1, <2>2 DEF Has
<1>3. ASSUME Has(s, A)  PROVE Has(Append(s, x), A)
  BY <1>1, <1>3 DEF Has
<1>4. ASSUME x \in A  PROVE Has(Append(s, x), A)
  BY <1>1, <1>4 DEF Has
<1> QED  BY <1>1, <1>2, <1>3, <1>4

LEMMA AnsweredAppend ==
  ASSUME NEW S, NEW s \in Seq(S), NEW x \in S, NEW B, NEW G, x \notin B
  PROVE  /\ Answered(s, B, G) => Answered(Append(s, x), B, G)
         /\ x \in G => Answered(Append(s, x), B, G)
<1> DEFINE t == Append(s, x)
<1>1. /\ Len(t) = Len(s) + 1 /\ Len(s) \in Nat
      /\ t[Len(s) + 1] = x /\ \A i \in 1 .. Len(s) : t[i] = s[i]
  OBVIOUS
<1> HIDE DEF t
<1>2. \A i \in 1 .. Len(t) : t[i] \in B => i \in 1 .. Len(s) /\ s[i] \in B
  BY <1>1
<1>3. \A k \in 1 .. Len(s) : k \in 1 .. Len(t) /\ t[k] = s[k]
  BY <1>1
<1>4. Answered(s, B, G) => Answered(t, B, G)
  BY <1>2, <1>3 DEF Answered
<1>5. x \in G => Answered(t, B, G)
  BY <1>1, <1>2 DEF Answered
<1> QED  BY <1>4, <1>5 DEF t

LEMMA ConcatParts ==
  ASSUME NEW S, NEW s \in Seq(S), NEW u \in Seq(S)
  PROVE  /\ s \o u \in Seq(S) /\ Len(s \o u) = Len(s) + Len(u) /\ Len(s) \in Nat /\ Len(u) \in Nat
         /\ \A i \in 1 .. Len(s) : i \in 1 .. Len(s \o u) /\ (s \o u)[i] = s[i]
         /\ \A i \in 1 .. Len(u) : Len(s) + i \in 1 .. Len(s \o u) /\ (s \o u)[Len(s) + i] = u[i]
         /\ \A i \in 1 .. Len(s \o u) : i \in 1 .. Len(s) \/ \E k \in 1 .. Len(u) : i = Len(s) + k
<1>1. Len(s) \in Nat /\ Len(u) \in Nat
  OBVIOUS
<1>2. /\ s \o u \in Seq(S) /\ Len(s \o u) = Len(s) + Len(u)
      /\ \A i \in 1 .. Len(s) + Len(u) : (s \o u)[i] = IF i <= Len(s) THEN s[i] ELSE u[i - Len(s)]
  BY ConcatProperties
<1>3. \A i \in 1 .. Len(s) : i \in 1 .. Len(s \o u) /\ (s \o u)[i] = s[i]
  BY <1>1, <1>2
<1>4. \A i \in 1 .. Len(u) : Len(s) + i \in 1 .. Len(s \o u) /\ (s \o u)[Len(s) + i] = u[i]
  BY <1>1, <1>2
<1>5. ASSUME NEW i \in 1 .. Len(s \o u), i \notin 1 .. Len(s)
      PROVE  \E k \in 1 .. Len(u) : i = Len(s) + k
  <2>1. i - Len(s) \in 1 .. Len(u) /\ i = Len(s) + (i - Len(s))
    BY <1>1, <1>2, <1>5
  <2> QED  BY <2>1
<1> QED  BY <1>1, <1>2, <1>3, <1>4, <1>5

LEMMA HasConcat ==
  ASSUME NEW S, NEW s \in Seq(S), NEW u \in Seq(S), NEW A
  PROVE  Has(s \o u, A) <=> Has(s, A) \/ Has(u, A)
<1> PICK t : t = s \o u
  OBVIOUS
<1>1. /\ Len(s) \in Nat /\ Len(u) \in Nat
      /\ \A i \in 1 .. Len(s) : i \in 1 .. Len(t) /\ t[i] = s[i]
      /\ \A i \in 1 .. Len(u) : Len(s) + i \in 1 .. Len(t) /\ t[Len(s) + i] = u[i]
      /\ \A i \in 1 .. Len(t) : i \in 1 .. Len(s) \/ \E k \in 1 .. Len(u) : i = Len(s) + k
  BY ConcatParts
<1>2. Has(s, A) => Has(t, A)
  BY <1>1 DEF Has
<1>3. Has(u, A) => Has(t, A)
  BY <1>1 DEF Has
<1>4. Has(t, A) => Has(s, A) \/ Has(u, A)
  BY <1>1 DEF Has
<1> QED  BY <1>2, <1>3, <1>4

\* Nothing of B is added, or what is added ends with its answer.
LEMMA AnsweredConcat ==
  ASSUME NEW S, NEW s \in Seq(S), NEW u \in Seq(S), NEW B, NEW G, ~Has(u, B)
  PROVE  /\ Answered(s, B, G) => Answered(s \o u, B, G)
         /\ Has(u, G) => Answered(s \o u, B, G)
<1> PICK t : t = s \o u
  OBVIOUS
<1>1. /\ Len(s) \in Nat /\ Len(u) \in Nat
      /\ \A i \in 1 .. Len(s) : i \in 1 .. Len(t) /\ t[i] = s[i]
      /\ \A i \in 1 .. Len(u) : Len(s) + i \in 1 .. Len(t) /\ t[Len(s) + i] = u[i]
      /\ \A i \in 1 .. Len(t) : i \in 1 .. Len(s) \/ \E k \in 1 .. Len(u) : i = Len(s) + k
  BY ConcatParts
<1>2. \A i \in 1 .. Len(t) : t[i] \in B => i \in 1 .. Len(s) /\ s[i] \in B
  BY <1>1 DEF Has
<1>3. Answered(s, B, G) => Answered(t, B, G)
  BY <1>1, <1>2 DEF Answered
<1>4. ASSUME Has(u, G)  PROVE Answered(t, B, G)
  <2>1. PICK k \in 1 .. Len(u) : u[k] \in G
    BY <1>4 DEF Has
  <2>2. Len(s) + k \in 1 .. Len(t) /\ t[Len(s) + k] \in G /\ \A i \in 1 .. Len(s) : Len(s) + k > i
    BY <1>1, <2>1
  <2> QED  BY <1>2, <2>2 DEF Answered
<1> QED  BY <1>3, <1>4

LEMMA TailParts ==
  ASSUME NEW S, NEW s \in Seq(S), s # <<>>
  PROVE  /\ Tail(s) \in Seq(S) /\ s[1] \in S /\ 1 \in 1 .. Len(s)
         /\ \A i \in 1 .. Len(Tail(s)) : i + 1 \in 1 .. Len(s) /\ Tail(s)[i] = s[i + 1]
         /\ \A i \in 1 .. Len(s) : i = 1 \/ \E k \in 1 .. Len(Tail(s)) : i = k + 1
<1>1. /\ Tail(s) \in Seq(S) /\ Len(Tail(s)) = Len(s) - 1 /\ Len(s) \in Nat \ {0}
      /\ \A i \in 1 .. Len(Tail(s)) : Tail(s)[i] = s[i + 1]
  BY HeadTailProperties, EmptySeq
<1>2. 1 \in 1 .. Len(s) /\ s[1] \in S
  BY <1>1, ElementOfSeq
<1>3. \A i \in 1 .. Len(Tail(s)) : i + 1 \in 1 .. Len(s)
  BY <1>1
<1>4. ASSUME NEW i \in 1 .. Len(s), i # 1  PROVE \E k \in 1 .. Len(Tail(s)) : i = k + 1
  <2>1. i - 1 \in 1 .. Len(Tail(s)) /\ i = (i - 1) + 1
    BY <1>1, <1>4
  <2> QED  BY <2>1
<1> QED  BY <1>1, <1>2, <1>3, <1>4

LEMMA HasTail ==
  ASSUME NEW S, NEW s \in Seq(S), s # <<>>, NEW A
  PROVE  Has(s, A) <=> s[1] \in A \/ Has(Tail(s), A)
<1> PICK t : t = Tail(s)
  OBVIOUS
<1>1. /\ 1 \in 1 .. Len(s)
      /\ \A i \in 1 .. Len(t) : i + 1 \in 1 .. Len(s) /\ t[i] = s[i + 1]
      /\ \A i \in 1 .. Len(s) : i = 1 \/ \E k \in 1 .. Len(t) : i = k + 1
  BY TailParts
<1>2. s[1] \in A \/ Has(t, A) => Has(s, A)
  BY <1>1 DEF Has
<1>3. Has(s, A) => s[1] \in A \/ Has(t, A)
  BY <1>1 DEF Has
<1> QED  BY <1>2, <1>3

LEMMA AnsweredTail ==
  ASSUME NEW S, NEW s \in Seq(S), s # <<>>, NEW B, NEW G, Answered(s, B, G)
  PROVE  Answered(Tail(s), B, G) /\ (s[1] \in B => Has(Tail(s), G))
<1> PICK t : t = Tail(s)
  OBVIOUS
<1>1. /\ 1 \in 1 .. Len(s) /\ Len(t) \in Nat
      /\ \A i \in 1 .. Len(t) : i + 1 \in 1 .. Len(s) /\ t[i] = s[i + 1]
      /\ \A i \in 1 .. Len(s) : i = 1 \/ \E k \in 1 .. Len(t) : i = k + 1
  BY TailParts
<1>2. ASSUME NEW i \in 1 .. Len(t), t[i] \in B
      PROVE  \E k \in 1 .. Len(t) : k > i /\ t[k] \in G
  <2>1. PICK k \in 1 .. Len(s) : k > i + 1 /\ s[k] \in G
    BY <1>1, <1>2 DEF Answered
  <2>2. k # 1
    BY <1>1, <2>1
  <2>3. PICK m \in 1 .. Len(t) : k = m + 1
    BY <1>1, <2>2
  <2>4. t[m] \in G /\ m > i
    BY <1>1, <2>1, <2>3
  <2> QED  BY <2>4
<1>3. ASSUME s[1] \in B  PROVE Has(t, G)
  <2>1. PICK k \in 1 .. Len(s) : k > 1 /\ s[k] \in G
    BY <1>1, <1>3 DEF Answered
  <2>2. PICK m \in 1 .. Len(t) : k = m + 1
    BY <1>1, <2>1
  <2> QED  BY <1>1, <2>1, <2>2 DEF Has
<1> QED  BY <1>2, <1>3 DEF Answered

\* The log behind its first n + 1 records.
LEMMA RestParts ==
  ASSUME NEW S, NEW s \in Seq(S), NEW n \in Nat, n < Len(s)
  PROVE  LET t == SubSeq(s, n + 2, Len(s))
         IN  /\ t \in Seq(S) /\ Len(t) = Len(s) - (n + 1) /\ s[n + 1] \in S /\ n + 1 \in 1 .. Len(s)
             /\ \A i \in 1 .. Len(t) : i + n + 1 \in 1 .. Len(s) /\ t[i] = s[i + n + 1]
             /\ \A i \in 1 .. Len(s) : i > n + 1 => \E k \in 1 .. Len(t) : i = k + n + 1
<1> DEFINE t == SubSeq(s, n + 2, Len(s))
<1>0. Len(s) \in Nat /\ n + 1 \in 1 .. Len(s)
  OBVIOUS
<1>1. \A i \in n + 2 .. Len(s) : s[i] \in S
  BY <1>0, ElementOfSeq
<1>2. /\ t \in Seq(S) /\ Len(t) = (IF n + 2 <= Len(s) THEN Len(s) - (n + 2) + 1 ELSE 0)
      /\ \A i \in 1 .. Len(s) - (n + 2) + 1 : t[i] = s[n + 2 + i - 1]
  BY <1>0, <1>1, SubSeqProperties
<1> HIDE DEF t
<1>3. Len(t) = Len(s) - (n + 1) /\ \A i \in 1 .. Len(t) : t[i] = s[i + n + 1]
  BY <1>0, <1>2
<1>4. \A i \in 1 .. Len(t) : i + n + 1 \in 1 .. Len(s)
  BY <1>0, <1>3
<1>5. ASSUME NEW i \in 1 .. Len(s), i > n + 1  PROVE \E k \in 1 .. Len(t) : i = k + n + 1
  <2>1. i - (n + 1) \in 1 .. Len(t) /\ i = (i - (n + 1)) + n + 1
    BY <1>0, <1>3, <1>5
  <2> QED  BY <2>1
<1>6. s[n + 1] \in S
  BY <1>0, ElementOfSeq
<1> QED  BY <1>0, <1>2, <1>3, <1>4, <1>5, <1>6 DEF t

\* One of the first n events of s is in A.
HadFirst(s, n, A) == \E i \in 1 .. n : s[i] \in A

LEMMA HasRest ==
  ASSUME NEW S, NEW s \in Seq(S), NEW n \in Nat, n < Len(s), NEW A
  PROVE  LET t == SubSeq(s, n + 2, Len(s))
         IN  /\ Has(t, A) => Has(s, A)
             /\ Has(s, A) => HadFirst(s, n, A) \/ s[n + 1] \in A \/ Has(t, A)
             /\ s[n + 1] \in A => Has(s, A)
<1> PICK t : t = SubSeq(s, n + 2, Len(s))
  OBVIOUS
<1>1. /\ n + 1 \in 1 .. Len(s) /\ Len(s) \in Nat
      /\ \A i \in 1 .. Len(t) : i + n + 1 \in 1 .. Len(s) /\ t[i] = s[i + n + 1]
      /\ \A i \in 1 .. Len(s) : i > n + 1 => \E k \in 1 .. Len(t) : i = k + n + 1
  BY RestParts
<1>2. Has(t, A) => Has(s, A)
  BY <1>1 DEF Has
<1>3. s[n + 1] \in A => Has(s, A)
  BY <1>1 DEF Has
<1>4. ASSUME Has(s, A)  PROVE HadFirst(s, n, A) \/ s[n + 1] \in A \/ Has(t, A)
  <2>1. PICK i \in 1 .. Len(s) : s[i] \in A
    BY <1>4 DEF Has
  <2>2. i \in 1 .. n \/ i = n + 1 \/ i > n + 1
    BY <1>1
  <2>3. CASE i \in 1 .. n
    BY <2>1, <2>3 DEF HadFirst
  <2>4. CASE i > n + 1
    BY <1>1, <2>1, <2>4 DEF Has
  <2> QED  BY <2>1, <2>2, <2>3, <2>4
<1> QED  BY <1>2, <1>3, <1>4

LEMMA AnsweredRest ==
  ASSUME NEW S, NEW s \in Seq(S), NEW n \in Nat, n < Len(s), NEW B, NEW G, Answered(s, B, G)
  PROVE  LET t == SubSeq(s, n + 2, Len(s))
         IN  Answered(t, B, G) /\ (s[n + 1] \in B => Has(t, G))
<1> PICK t : t = SubSeq(s, n + 2, Len(s))
  OBVIOUS
<1>1. /\ n + 1 \in 1 .. Len(s) /\ Len(s) \in Nat
      /\ \A i \in 1 .. Len(t) : i + n + 1 \in 1 .. Len(s) /\ t[i] = s[i + n + 1]
      /\ \A i \in 1 .. Len(s) : i > n + 1 => \E k \in 1 .. Len(t) : i = k + n + 1
  BY RestParts
<1>2. ASSUME NEW i \in 1 .. Len(t), t[i] \in B
      PROVE  \E k \in 1 .. Len(t) : k > i /\ t[k] \in G
  <2>1. PICK k \in 1 .. Len(s) : k > i + n + 1 /\ s[k] \in G
    BY <1>1, <1>2 DEF Answered
  <2>2. k > n + 1
    BY <1>1, <2>1
  <2>3. PICK m \in 1 .. Len(t) : k = m + n + 1
    BY <1>1, <2>2
  <2>4. t[m] \in G /\ m > i
    BY <1>1, <2>1, <2>3
  <2> QED  BY <2>4
<1>3. ASSUME s[n + 1] \in B  PROVE Has(t, G)
  <2>1. PICK k \in 1 .. Len(s) : k > n + 1 /\ s[k] \in G
    BY <1>1, <1>3 DEF Answered
  <2>2. PICK m \in 1 .. Len(t) : k = m + n + 1
    BY <1>1, <2>1
  <2> QED  BY <1>1, <2>1, <2>2 DEF Has
<1> QED  BY <1>2, <1>3 DEF Answered

\* What the pipeline does to events that are due and to their order.
LEMMA SettledPublish ==
  ASSUME NEW S, NEW w \in Seq(S), NEW l \in Seq(S), NEW u \in Seq(S), NEW B, NEW G, ~Has(u, B)
  PROVE  /\ Settled(w, l, B, G) => Settled(w \o u, l, B, G)
         /\ Has(u, G) => Settled(w \o u, l, B, G)
         /\ Due(w, l, G) => Due(w \o u, l, G)
         /\ Has(u, G) => Due(w \o u, l, G)
  BY HasConcat, AnsweredConcat DEF Settled, Due

LEMMA SettledIngest ==
  ASSUME NEW S, NEW w \in Seq(S), NEW l \in Seq(S), w # <<>>, NEW B, NEW G, B \cap G = {}
  PROVE  /\ Settled(w, l, B, G) => Settled(Tail(w), Append(l, w[1]), B, G)
         /\ Settled(w, l, B, G) => Settled(w, Append(l, w[1]), B, G)
         /\ Due(w, l, G) => Due(Tail(w), Append(l, w[1]), G) /\ Due(w, Append(l, w[1]), G)
<1> PICK f : f = w[1]
  OBVIOUS
<1>0. f \in S
  BY TailParts
<1>1. /\ Has(w, G) <=> f \in G \/ Has(Tail(w), G)
      /\ Has(Append(l, f), G) <=> Has(l, G) \/ f \in G
  BY <1>0, HasTail, HasAppend
<1>2. ASSUME Settled(w, l, B, G)
      PROVE  Settled(Tail(w), Append(l, f), B, G) /\ Settled(w, Append(l, f), B, G)
  <2>1. Answered(w, B, G) /\ Answered(Tail(w), B, G) /\ (f \in B => Has(Tail(w), G))
    BY <1>2, AnsweredTail DEF Settled
  <2>2. f \notin B => (Answered(l, B, G) => Answered(Append(l, f), B, G))
                      /\ (f \in G => Answered(Append(l, f), B, G))
    BY <1>0, AnsweredAppend
  <2> QED  BY <1>1, <1>2, <2>1, <2>2 DEF Settled
<1> QED  BY <1>1, <1>2 DEF Due

LEMMA SettledOther ==
  ASSUME NEW S, NEW w \in Seq(S), NEW l \in Seq(S), NEW x \in S, NEW B, NEW G, x \notin B
  PROVE  /\ Settled(w, l, B, G) => Settled(w, Append(l, x), B, G)
         /\ Due(w, l, G) => Due(w, Append(l, x), G)
  BY HasAppend, AnsweredAppend DEF Settled, Due

LEMMA SettledDrop ==
  ASSUME NEW S, NEW w \in Seq(S), NEW l, w # <<>>, NEW B, NEW G, w[1] \notin G
  PROVE  /\ Settled(w, l, B, G) => Settled(Tail(w), l, B, G)
         /\ Due(w, l, G) => Due(Tail(w), l, G)
  BY HasTail, AnsweredTail DEF Settled, Due

LEMMA SettledClear ==
  ASSUME NEW w, NEW l, NEW B, NEW G, ~Has(w, G)
  PROVE  /\ Settled(w, l, B, G) => Settled(<<>>, l, B, G)
         /\ Due(w, l, G) => Due(<<>>, l, G)
<1>1. Answered(<<>>, B, G)
  BY DEF Answered
<1> QED  BY <1>1 DEF Settled, Due

LEMMA SettledProject ==
  ASSUME NEW S, NEW w \in Seq(S), NEW l \in Seq(S), NEW n \in Nat, n < Len(l), NEW B, NEW G
  PROVE  LET t == SubSeq(l, n + 2, Len(l))
         IN  /\ Settled(w, l, B, G) => Settled(w, t, B, G) /\ (l[n + 1] \in B => Due(w, t, G) /\ Due(w, l, G))
             /\ Due(w, l, G) /\ l[n + 1] \notin G /\ ~HadFirst(l, n, G) => Due(w, t, G)
<1> PICK t : t = SubSeq(l, n + 2, Len(l))
  OBVIOUS
<1>1. Answered(l, B, G) => Answered(t, B, G) /\ (l[n + 1] \in B => Has(t, G))
  BY AnsweredRest
<1>2. (Has(l, G) => HadFirst(l, n, G) \/ l[n + 1] \in G \/ Has(t, G)) /\ (Has(t, G) => Has(l, G))
  BY HasRest
<1> QED  BY <1>1, <1>2 DEF Settled, Due

-----------------------------------------------------------------------------
(* Events and the documents they change *)

LEMMA TypeSets ==
  /\ EndpointTypes = {"EndpointStarted", "EndpointStopped", "EndpointUnreachable", "EndpointRecovered",
                      "EndpointMetricsReported", "EndpointVirtualEnvAssigned", "EndpointVirtualEnvDetached"}
  /\ FunctionTypes = {"FunctionDeployed", "FunctionDeployFailed", "FunctionActivated",
                      "FunctionDeactivated", "FunctionStopped", "FunctionRegistered"}
  /\ RemovalTypes = {"FunctionDeleted", "FunctionEndpointDetached"}
  /\ JobTypes = {"JobQueued", "JobStarted", "JobCompleted", "JobFailed"}
  /\ LeaderTypes = {"LeaderElected"}
<1>1. DOMAIN EndpointStatus = {"EndpointStarted", "EndpointStopped", "EndpointUnreachable", "EndpointRecovered"}
  BY DEF EndpointStatus
<1>2. DOMAIN ContainerStatus = {"FunctionDeployed", "FunctionDeployFailed", "FunctionActivated",
                                "FunctionDeactivated", "FunctionStopped"}
  BY DEF ContainerStatus
<1>3. DOMAIN JobStatus = {"JobQueued", "JobStarted", "JobCompleted", "JobFailed"}
  BY DEF JobStatus
<1> QED  BY <1>1, <1>2, <1>3 DEF EndpointTypes, FunctionTypes, RemovalTypes, JobTypes, LeaderTypes

\* The kinds of events.
OfEndpoint == [type : EndpointTypes, ep : Endpoints, ve : Envs \cup {NoEnv}]
OfFunction == [type : FunctionTypes \cup RemovalTypes, ep : Endpoints, ve : Envs \cup {NoEnv}, version : Versions]
OfJob == [type : JobTypes, ep : Endpoints, job : Jobs, version : Versions \cup {Unversioned}]
OfLeader == [type : LeaderTypes, ep : Endpoints, leader : Endpoints]

LEMMA EventKinds ==
  /\ Events = OfEndpoint \cup OfFunction \cup OfJob \cup OfLeader
  /\ \A ev \in Events : ev.ep \in Endpoints
  /\ \A ev \in Events : ev.type \in EndpointTypes <=> ev \in OfEndpoint
  /\ \A ev \in Events : ev.type \in FunctionTypes \cup RemovalTypes <=> ev \in OfFunction
  /\ \A ev \in Events : ev.type \in JobTypes <=> ev \in OfJob
  /\ \A ev \in Events : ev.type \in LeaderTypes <=> ev \in OfLeader
<1>1. Events = OfEndpoint \cup OfFunction \cup OfJob \cup OfLeader
  BY DEF Events, OfEndpoint, OfFunction, OfJob, OfLeader
<1>2. \A ev \in OfEndpoint : ev.type \in EndpointTypes /\ ev.ep \in Endpoints
  BY DEF OfEndpoint
<1>3. \A ev \in OfFunction : ev.type \in FunctionTypes \cup RemovalTypes /\ ev.ep \in Endpoints
  BY DEF OfFunction
<1>4. \A ev \in OfJob : ev.type \in JobTypes /\ ev.ep \in Endpoints
  BY DEF OfJob
<1>5. \A ev \in OfLeader : ev.type \in LeaderTypes /\ ev.ep \in Endpoints
  BY DEF OfLeader
<1> QED  BY <1>1, <1>2, <1>3, <1>4, <1>5, TypeSets

LEMMA StreamOfEvent ==
  ASSUME NEW ev \in Events
  PROVE  /\ ev.type \in EndpointTypes => StreamOf(ev) = <<"endpoints", ev.ep>>
         /\ ev.type \in FunctionTypes \cup RemovalTypes => StreamOf(ev) = <<"functions", ev.version>>
         /\ ev.type \in JobTypes => StreamOf(ev) = <<"activity">>
         /\ ev.type \in LeaderTypes => StreamOf(ev) = <<"consensus", ev.ep>>
         /\ StreamOf(ev) \in Streams
<1>1. /\ ev.type \in EndpointTypes => StreamOf(ev) = <<"endpoints", ev.ep>>
      /\ ev.type \in FunctionTypes \cup RemovalTypes => StreamOf(ev) = <<"functions", ev.version>>
      /\ ev.type \in JobTypes => StreamOf(ev) = <<"activity">>
      /\ ev.type \in LeaderTypes => StreamOf(ev) = <<"consensus", ev.ep>>
  BY TypeSets DEF StreamOf
<1>2. CASE ev \in OfEndpoint
  BY <1>1, <1>2, EventKinds DEF Streams
<1>3. CASE ev \in OfFunction
  <2>1. ev.version \in Versions
    BY <1>3 DEF OfFunction
  <2> QED  BY <1>1, <1>3, <2>1, EventKinds DEF Streams
<1>4. CASE ev \in OfJob
  BY <1>1, <1>4, EventKinds DEF Streams
<1>5. CASE ev \in OfLeader
  BY <1>1, <1>5, EventKinds DEF Streams
<1> QED  BY <1>1, <1>2, <1>3, <1>4, <1>5, EventKinds

\* The four kinds of documents.
EndpointDocs == [known : BOOLEAN, ve : Envs \cup {NoEnv}, bind : BOOLEAN,
                 status : {"none", "running", "stopped", "unreachable"}]
FunctionDocs == [known : BOOLEAN, holders : SUBSET Endpoints, deleted : BOOLEAN,
                 container : {"none", "running", "stopped"}, ve : Envs \cup {NoEnv}]
JobDocs == [status : {"none", "QUEUED", "STARTED", "COMPLETED", "FAILED"},
            ep : Endpoints \cup {Nobody}, version : Versions \cup {Unversioned}]

LEMMA ViewsAre ==
  Views = [endpoints : [Endpoints -> EndpointDocs], functions : [Versions -> FunctionDocs],
           jobs : [Jobs -> JobDocs], leaders : [Envs -> Endpoints \cup {Nobody}]]
  BY DEF Views, EndpointDocs, FunctionDocs, JobDocs

LEMMA ApplyEndpointIs ==
  ASSUME NEW doc \in EndpointDocs, NEW ev \in OfEndpoint
  PROVE  /\ ApplyEndpoint(doc, ev) \in EndpointDocs
         /\ ApplyEndpoint(doc, ev).known /\ (doc.bind => ApplyEndpoint(doc, ev).bind)
         /\ doc.status # "none" => ApplyEndpoint(doc, ev).status # "none"
<1>1. ev.ve \in Envs \cup {NoEnv}
  BY DEF OfEndpoint
<1>2. \A t \in DOMAIN EndpointStatus : EndpointStatus[t] \in {"running", "stopped", "unreachable"}
  BY DEF EndpointStatus
<1> QED  BY <1>1, <1>2 DEF ApplyEndpoint, EndpointDocs

LEMMA ApplyFunctionIs ==
  ASSUME NEW doc \in FunctionDocs, NEW ev \in OfFunction
  PROVE  /\ ApplyFunction(doc, ev) \in FunctionDocs
         /\ ApplyFunction(doc, ev).known /\ ApplyFunction(doc, ev).deleted = doc.deleted
         /\ ApplyFunction(doc, ev).holders = doc.holders \cup {ev.ep}
<1>1. ev.ve \in Envs \cup {NoEnv} /\ ev.ep \in Endpoints
  BY DEF OfFunction
<1>2. \A t \in DOMAIN ContainerStatus : ContainerStatus[t] \in {"running", "stopped"}
  BY DEF ContainerStatus
<1>3. doc.holders \cup {ev.ep} \in SUBSET Endpoints
  BY <1>1 DEF FunctionDocs
<1> QED  BY <1>1, <1>2, <1>3 DEF ApplyFunction, FunctionDocs

LEMMA ApplyRemovalIs ==
  ASSUME NEW doc \in FunctionDocs, NEW ev \in OfFunction
  PROVE  /\ ApplyRemoval(doc, ev) \in FunctionDocs
         /\ doc.known => ApplyRemoval(doc, ev).known
<1>1. CASE ev.type = "FunctionDeleted"
  BY <1>1 DEF ApplyRemoval, FunctionDocs
<1>2. CASE ev.type # "FunctionDeleted"
  <2>1. doc.holders \ {ev.ep} \in SUBSET Endpoints
    BY DEF FunctionDocs
  <2> QED  BY <1>2, <2>1 DEF ApplyRemoval, FunctionDocs
<1> QED  BY <1>1, <1>2

LEMMA ApplyJobIs ==
  ASSUME NEW doc \in JobDocs, NEW ev \in OfJob
  PROVE  /\ ApplyJob(doc, ev) \in JobDocs
         /\ ApplyJob(doc, ev).status = JobStatus[ev.type]
         /\ ev.type = "JobQueued" \/ ev.version # Unversioned => ApplyJob(doc, ev).version = ev.version
<1>1. ev.ep \in Endpoints /\ ev.version \in Versions \cup {Unversioned} /\ ev.type \in JobTypes
  BY DEF OfJob
<1>2. /\ JobStatus["JobQueued"] = "QUEUED"
      /\ \A t \in JobTypes : JobStatus[t] \in {"QUEUED", "STARTED", "COMPLETED", "FAILED"}
  BY DEF JobStatus, JobTypes
<1>3. CASE ev.type = "JobQueued"
  BY <1>1, <1>2, <1>3 DEF ApplyJob, JobDocs
<1>4. CASE ev.type # "JobQueued"
  <2> PICK st : st = JobStatus[ev.type]
    OBVIOUS
  <2> PICK n : n = IF ev.version = Unversioned THEN doc.version ELSE ev.version
    OBVIOUS
  <2>1. ApplyJob(doc, ev) = [doc EXCEPT !.status = st, !.version = n]
    BY <1>4 DEF ApplyJob
  <2>2. st \in {"QUEUED", "STARTED", "COMPLETED", "FAILED"} /\ n \in Versions \cup {Unversioned}
    BY <1>1, <1>2 DEF JobDocs
  <2>3. [doc EXCEPT !.status = st, !.version = n] \in JobDocs
    BY <2>2 DEF JobDocs
  <2>4. [doc EXCEPT !.status = st, !.version = n].status = st /\ [doc EXCEPT !.status = st, !.version = n].version = n
    BY DEF JobDocs
  <2> QED  BY <1>4, <2>1, <2>3, <2>4
<1> QED  BY <1>3, <1>4

\* Apply changes one document, or the leader flags.
LEMMA ApplyAsEndpoint ==
  ASSUME NEW vw \in Views, NEW ev \in OfEndpoint
  PROVE  /\ Apply(vw, ev) \in Views
         /\ Apply(vw, ev).endpoints = [vw.endpoints EXCEPT ![ev.ep] = ApplyEndpoint(vw.endpoints[ev.ep], ev)]
         /\ Apply(vw, ev).functions = vw.functions /\ Apply(vw, ev).jobs = vw.jobs
         /\ Apply(vw, ev).leaders = vw.leaders
<1> PICK ds : ds = [vw.endpoints EXCEPT ![ev.ep] = ApplyEndpoint(vw.endpoints[ev.ep], ev)]
  OBVIOUS
<1>1. ev.type \in EndpointTypes /\ ev.ep \in Endpoints
  BY DEF OfEndpoint
<1>2. vw.endpoints[ev.ep] \in EndpointDocs /\ vw.endpoints \in [Endpoints -> EndpointDocs]
  BY <1>1, ViewsAre
<1>3. ds \in [Endpoints -> EndpointDocs]
  BY <1>1, <1>2, ApplyEndpointIs
<1>4. Apply(vw, ev) = [vw EXCEPT !.endpoints = ds]
  BY <1>1, TypeSets DEF Apply
<1> QED  BY <1>3, <1>4, ViewsAre

LEMMA ApplyAsFunction ==
  ASSUME NEW vw \in Views, NEW ev \in OfFunction
  PROVE  LET doc == vw.functions[ev.version]
             new == IF ev.type \in FunctionTypes THEN ApplyFunction(doc, ev) ELSE ApplyRemoval(doc, ev)
         IN  /\ Apply(vw, ev) \in Views
             /\ Apply(vw, ev).functions = [vw.functions EXCEPT ![ev.version] = new]
             /\ Apply(vw, ev).endpoints = vw.endpoints /\ Apply(vw, ev).jobs = vw.jobs
             /\ Apply(vw, ev).leaders = vw.leaders
<1> PICK doc : doc = vw.functions[ev.version]
  OBVIOUS
<1> PICK new : new = IF ev.type \in FunctionTypes THEN ApplyFunction(doc, ev) ELSE ApplyRemoval(doc, ev)
  OBVIOUS
<1> PICK ds : ds = [vw.functions EXCEPT ![ev.version] = new]
  OBVIOUS
<1>1. ev.type \in FunctionTypes \cup RemovalTypes /\ ev.version \in Versions
  BY DEF OfFunction
<1>2. doc \in FunctionDocs /\ vw.functions \in [Versions -> FunctionDocs]
  BY <1>1, ViewsAre
<1>3. new \in FunctionDocs
  BY <1>2, ApplyFunctionIs, ApplyRemovalIs
<1>4. ds \in [Versions -> FunctionDocs]
  BY <1>1, <1>2, <1>3
<1>5. Apply(vw, ev) = [vw EXCEPT !.functions = ds]
  BY <1>1, TypeSets DEF Apply
<1> QED  BY <1>4, <1>5, ViewsAre

LEMMA ApplyAsJob ==
  ASSUME NEW vw \in Views, NEW ev \in OfJob
  PROVE  /\ Apply(vw, ev) \in Views
         /\ Apply(vw, ev).jobs = [vw.jobs EXCEPT ![ev.job] = ApplyJob(vw.jobs[ev.job], ev)]
         /\ Apply(vw, ev).endpoints = vw.endpoints /\ Apply(vw, ev).functions = vw.functions
         /\ Apply(vw, ev).leaders = vw.leaders
<1> PICK ds : ds = [vw.jobs EXCEPT ![ev.job] = ApplyJob(vw.jobs[ev.job], ev)]
  OBVIOUS
<1>1. ev.type \in JobTypes /\ ev.job \in Jobs
  BY DEF OfJob
<1>2. vw.jobs[ev.job] \in JobDocs /\ vw.jobs \in [Jobs -> JobDocs]
  BY <1>1, ViewsAre
<1>3. ds \in [Jobs -> JobDocs]
  BY <1>1, <1>2, ApplyJobIs
<1>4. Apply(vw, ev) = [vw EXCEPT !.jobs = ds]
  BY <1>1, TypeSets DEF Apply
<1> QED  BY <1>3, <1>4, ViewsAre

LEMMA ApplyAsLeader ==
  ASSUME NEW vw \in Views, NEW ev \in OfLeader
  PROVE  /\ Apply(vw, ev) \in Views
         /\ Apply(vw, ev).leaders = ApplyLeader(vw, ev)
         /\ \A v \in Envs : Apply(vw, ev).leaders[v] \in {ev.leader, Nobody}
         /\ Apply(vw, ev).endpoints = vw.endpoints /\ Apply(vw, ev).functions = vw.functions
         /\ Apply(vw, ev).jobs = vw.jobs
<1> PICK ds : ds = ApplyLeader(vw, ev)
  OBVIOUS
<1>1. ev.type \in LeaderTypes /\ ev.leader \in Endpoints
  BY DEF OfLeader
<1>2. ds \in [Envs -> Endpoints \cup {Nobody}] /\ \A v \in Envs : ds[v] \in {ev.leader, Nobody}
  BY <1>1 DEF ApplyLeader
<1>3. Apply(vw, ev) = [vw EXCEPT !.leaders = ds]
  BY <1>1, TypeSets DEF Apply
<1> QED  BY <1>2, <1>3, ViewsAre

LEMMA ApplyTypes ==
  ASSUME NEW vw \in Views, NEW ev \in Events
  PROVE  Apply(vw, ev) \in Views
  BY EventKinds, ApplyAsEndpoint, ApplyAsFunction, ApplyAsJob, ApplyAsLeader

\* SetToSeq of a finite set is a sequence of its elements.
LEMMA ListOf ==
  ASSUME NEW T, IsFiniteSet(T)
  PROVE  SetToSeq(T) \in Seq(T)
<1> PICK n : n = Cardinality(T)
  OBVIOUS
<1>1. n \in Nat /\ ExistsBijection(1 .. n, T)
  BY FS_CardinalityType
<1>2. PICK f : f \in [1 .. n -> T] /\ IsInjective(f)
  BY <1>1 DEF ExistsBijection, Bijection, Injection, IsInjective
<1>3. SetToSeq(T) = CHOOSE g \in [1 .. n -> T] : IsInjective(g)
  BY DEF SetToSeq
<1>4. SetToSeq(T) \in [1 .. n -> T]
  BY <1>2, <1>3
<1> QED  BY <1>1, <1>4

\* The image of a finite set is one.
LEMMA FiniteImage ==
  ASSUME NEW D, IsFiniteSet(D), NEW f, NEW T, DOMAIN f = D, T = {f[x] : x \in D}
  PROVE  IsFiniteSet(T)
<1>1. [x \in D |-> f[x]] \in Surjection(D, T)
  BY DEF Surjection
<1> QED  BY <1>1, FS_Surjection

-----------------------------------------------------------------------------
(* What a step says *)

LEMMA EndpointEventIs ==
  ASSUME NEW t \in EndpointTypes, NEW e \in Endpoints, NEW v \in Envs \cup {NoEnv}
  PROVE  /\ EndpointEvent(t, e, v) \in Events /\ EndpointEvent(t, e, v).type = t
         /\ EndpointEvent(t, e, v).ep = e
  BY DEF EndpointEvent, Events

LEMMA FunctionEventIs ==
  ASSUME NEW t \in FunctionTypes \cup RemovalTypes, NEW e \in Endpoints, NEW v \in Envs \cup {NoEnv},
         NEW n \in Versions
  PROVE  /\ FunctionEvent(t, e, v, n) \in Events /\ FunctionEvent(t, e, v, n).type = t
         /\ FunctionEvent(t, e, v, n).ep = e /\ FunctionEvent(t, e, v, n).version = n
  BY DEF FunctionEvent, Events

LEMMA JobEventIs ==
  ASSUME NEW t \in JobTypes, NEW e \in Endpoints, NEW j \in Jobs, NEW n \in Versions \cup {Unversioned}
  PROVE  /\ JobEvent(t, e, j, n) \in Events /\ JobEvent(t, e, j, n).type = t
         /\ JobEvent(t, e, j, n).ep = e /\ JobEvent(t, e, j, n).job = j
         /\ JobEvent(t, e, j, n).version = n
  BY DEF JobEvent, Events

LEMMA LeaderEventIs ==
  ASSUME NEW e \in Endpoints, NEW l \in Endpoints
  PROVE  /\ LeaderEvent(e, l) \in Events /\ LeaderEvent(e, l).type = "LeaderElected"
         /\ LeaderEvent(e, l).ep = e /\ LeaderEvent(e, l).leader = l
  BY DEF LeaderEvent, Events, LeaderTypes

\* The pipeline's part of the types, and the fleet's.
PipeOK ==
  /\ view \in Views
  /\ wire \in [Endpoints -> Seq(Events)] /\ log \in Seq(Events)
  /\ Len(log) <= MaxLog /\ \A e \in Endpoints : Len(wire[e]) <= MaxWire
  /\ failed \in 0 .. Len(log)
  /\ tombs \subseteq Streams /\ lost \subseteq Streams
  /\ trouble \in 0 .. MaxTrouble
  /\ \A e \in Endpoints : \A i \in 1 .. Len(wire[e]) : wire[e][i].ep = e

JobRecords == [state : Active \cup {"unsent", "refused", "done", "failed", "dead"},
               at : Endpoints \cup {Nobody}, held : SUBSET Endpoints,
               moved : BOOLEAN, version : Versions \cup {Unversioned}]

JobsOK ==
  /\ job \in [Jobs -> JobRecords]
  /\ \A j \in Jobs : IF job[j].state = "unsent" THEN job[j].at = Nobody /\ ~job[j].moved
                     ELSE job[j].at \in Endpoints /\ job[j].version \in Versions

FleetOK ==
  /\ up \subseteq Endpoints /\ Leader \in up
  /\ env \in [Endpoints -> Envs \cup {NoEnv}]
  /\ stored \in [Endpoints -> SUBSET Versions]
  /\ warm \subseteq Endpoints \X Versions
  /\ elected \in [Endpoints -> Endpoints]
  /\ probe \in [ep : Endpoints, type : {"EndpointUnreachable", "EndpointRecovered"}] \cup {NoProbe}
  /\ purge \in Endpoints \cup {Nobody}
  /\ reused \subseteq Versions
  /\ purged \subseteq Endpoints \cup Jobs \cup Streams

LEMMA TypesAre ==
  (FleetTypes => PipeOK /\ JobsOK /\ FleetOK) /\ (PipeOK' /\ JobsOK' /\ FleetOK' => FleetTypes')
  BY DEF FleetTypes, VemTypeOK, Consistent, PipeOK, JobsOK, FleetOK, JobRecords

\* Events of the types in T, and no others, are published by one endpoint, or appended.
OfTypes(s, T) == s \in Seq(Events) /\ \A i \in 1 .. Len(s) : s[i].type \in T
OwnFrames(s, e) == \A i \in 1 .. Len(s) : s[i].ep = e

SaysOnly(T) ==
  /\ \E e \in Endpoints : \E us : /\ wire' = [wire EXCEPT ![e] = wire[e] \o us]
                                  /\ OfTypes(us, T) /\ OwnFrames(us, e)
                                  /\ Len(wire[e]) + Len(us) <= MaxWire
  /\ \E vs : log' = log \o vs /\ OfTypes(vs, T) /\ Len(log) + Len(vs) <= MaxLog

LEMMA NothingSaid ==
  ASSUME NEW s \in Seq(Events), NEW T, NEW e
  PROVE  s \o <<>> = s /\ OfTypes(<<>>, T) /\ OwnFrames(<<>>, e)
<1>1. Len(<<>>) = 0 /\ <<>> \in Seq(Events)
  OBVIOUS
<1>2. s \o <<>> = s
  BY ConcatEmptySeq
<1> QED  BY <1>1, <1>2 DEF OfTypes, OwnFrames

LEMMA PublishSays ==
  ASSUME PipeOK, NEW e \in Endpoints, NEW us, NEW T, OfTypes(us, T), OwnFrames(us, e),
         Publish(e, us), log' = log
  PROVE  SaysOnly(T)
<1>1. wire' = [wire EXCEPT ![e] = wire[e] \o us] /\ Len(wire[e]) + Len(us) <= MaxWire
  BY DEF Publish
<1>2. log \o <<>> = log /\ OfTypes(<<>>, T)
  BY NothingSaid DEF PipeOK
<1>3. log' = log \o <<>> /\ Len(log) + Len(<<>>) <= MaxLog
  BY <1>2 DEF PipeOK
<1> QED  BY <1>1, <1>2, <1>3 DEF SaysOnly

LEMMA AppendSays ==
  ASSUME PipeOK, NEW vs, NEW T, OfTypes(vs, T), AppendAll(vs), wire' = wire
  PROVE  SaysOnly(T)
<1>1. log' = log \o vs /\ Len(log) + Len(vs) <= MaxLog
  BY DEF AppendAll
<1>2. Leader \in Endpoints /\ wire[Leader] \in Seq(Events) /\ Len(wire[Leader]) <= MaxWire
  BY FleetAssumption DEF PipeOK
<1>3. wire[Leader] \o <<>> = wire[Leader] /\ OfTypes(<<>>, T) /\ OwnFrames(<<>>, Leader)
  BY <1>2, NothingSaid
<1>4. wire' = [wire EXCEPT ![Leader] = wire[Leader] \o <<>>] /\ Len(wire[Leader]) + Len(<<>>) <= MaxWire
  BY <1>2, <1>3 DEF PipeOK
<1> QED  BY <1>1, <1>2, <1>3, <1>4 DEF SaysOnly

LEMMA SilenceSays ==
  ASSUME PipeOK, wire' = wire, log' = log
  PROVE  SaysOnly({})
<1>1. OfTypes(<<>>, {}) /\ OwnFrames(<<>>, Leader) /\ log \o <<>> = log
  BY NothingSaid DEF PipeOK
<1>2. Leader \in Endpoints /\ wire[Leader] \in Seq(Events) /\ Len(wire[Leader]) <= MaxWire
  BY FleetAssumption DEF PipeOK
<1>3. wire[Leader] \o <<>> = wire[Leader]
  BY <1>2, NothingSaid
<1>4. wire' = [wire EXCEPT ![Leader] = wire[Leader] \o <<>>] /\ Len(wire[Leader]) + Len(<<>>) <= MaxWire
  BY <1>2, <1>3 DEF PipeOK
<1>5. log' = log \o <<>> /\ Len(log) + Len(<<>>) <= MaxLog
  BY <1>1 DEF PipeOK
<1> QED  BY <1>1, <1>2, <1>4, <1>5 DEF SaysOnly

\* A step that is no pipeline step spends at most one trouble.
Tried == trouble' = trouble \/ Fault

LEMMA SaysTypes ==
  ASSUME PipeOK, NEW T, SaysOnly(T), Tried, view' \in Views, failed' = failed, tombs' \subseteq Streams, lost' \subseteq Streams
  PROVE  PipeOK'
<1>1. PICK e \in Endpoints : \E us : /\ wire' = [wire EXCEPT ![e] = wire[e] \o us]
                                     /\ OfTypes(us, T) /\ OwnFrames(us, e)
                                     /\ Len(wire[e]) + Len(us) <= MaxWire
  BY DEF SaysOnly
<1>2. PICK us : /\ wire' = [wire EXCEPT ![e] = wire[e] \o us]
                /\ OfTypes(us, T) /\ OwnFrames(us, e) /\ Len(wire[e]) + Len(us) <= MaxWire
  BY <1>1
<1>3. PICK vs : log' = log \o vs /\ OfTypes(vs, T) /\ Len(log) + Len(vs) <= MaxLog
  BY DEF SaysOnly
<1>4. log' \in Seq(Events) /\ Len(log') <= MaxLog /\ failed' \in 0 .. Len(log')
  <2>1. log' \in Seq(Events) /\ Len(log') = Len(log) + Len(vs) /\ Len(vs) \in Nat /\ Len(log) \in Nat
    BY <1>3, ConcatParts DEF PipeOK, OfTypes
  <2> QED  BY <1>3, <2>1 DEF PipeOK
<1> PICK w : w = wire[e] \o us
  OBVIOUS
<1>5. /\ w \in Seq(Events) /\ Len(w) <= MaxWire
      /\ \A i \in 1 .. Len(w) : w[i].ep = e
  <2>1. /\ w \in Seq(Events) /\ Len(w) = Len(wire[e]) + Len(us)
        /\ \A i \in 1 .. Len(wire[e]) : w[i] = wire[e][i]
        /\ \A i \in 1 .. Len(us) : w[Len(wire[e]) + i] = us[i]
        /\ \A i \in 1 .. Len(w) : i \in 1 .. Len(wire[e]) \/ \E k \in 1 .. Len(us) : i = Len(wire[e]) + k
    BY <1>2, ConcatParts DEF PipeOK, OfTypes
  <2>2. \A i \in 1 .. Len(wire[e]) : wire[e][i].ep = e
    BY DEF PipeOK
  <2>3. \A i \in 1 .. Len(us) : us[i].ep = e
    BY <1>2 DEF OwnFrames
  <2>4. ASSUME NEW i \in 1 .. Len(w)  PROVE w[i].ep = e
    <3>1. CASE i \in 1 .. Len(wire[e])
      BY <2>1, <2>2, <3>1
    <3>2. CASE \E k \in 1 .. Len(us) : i = Len(wire[e]) + k
      BY <2>1, <2>3, <3>2
    <3> QED  BY <2>1, <3>1, <3>2
  <2> QED  BY <1>2, <2>1, <2>4
<1>6. wire' = [wire EXCEPT ![e] = w]
  BY <1>2
<1>7. wire' \in [Endpoints -> Seq(Events)]
  BY <1>5, <1>6 DEF PipeOK
<1>8. ASSUME NEW x \in Endpoints
      PROVE  Len(wire'[x]) <= MaxWire /\ \A i \in 1 .. Len(wire'[x]) : wire'[x][i].ep = x
  BY <1>5, <1>6 DEF PipeOK
<1>9. trouble' \in 0 .. MaxTrouble
  BY PipelineAssumption DEF Tried, Fault, PipeOK
<1> QED  BY <1>4, <1>7, <1>8, <1>9 DEF PipeOK

-----------------------------------------------------------------------------
(* Types are kept: the pipeline *)

LEMMA FrameIs ==
  ASSUME PipeOK, NEW e \in Endpoints, wire[e] # <<>>
  PROVE  Frame(e) = wire[e][1] /\ Frame(e) \in Events /\ Frame(e).ep = e /\ StreamOf(Frame(e)) \in Streams
<1>1. wire[e] \in Seq(Events) /\ \A i \in 1 .. Len(wire[e]) : wire[e][i].ep = e
  BY DEF PipeOK
<1>2. 1 \in 1 .. Len(wire[e]) /\ wire[e][1] \in Events
  BY <1>1, TailParts
<1> QED  BY <1>1, <1>2, StreamOfEvent DEF Frame

LEMMA TakenTypes ==
  ASSUME PipeOK, NEW e \in Endpoints, wire[e] # <<>>, Taken(e)
  PROVE  /\ wire' \in [Endpoints -> Seq(Events)]
         /\ \A x \in Endpoints : Len(wire'[x]) <= MaxWire
         /\ \A x \in Endpoints : \A i \in 1 .. Len(wire'[x]) : wire'[x][i].ep = x
<1> PICK w : w = Tail(wire[e])
  OBVIOUS
<1>1. wire' = [wire EXCEPT ![e] = w]
  BY DEF Taken
<1>2. wire[e] \in Seq(Events) /\ Len(wire[e]) <= MaxWire
  BY DEF PipeOK
<1>3. w \in Seq(Events) /\ Len(w) <= MaxWire
  BY <1>2, HeadTailProperties, PipelineAssumption
<1>4. \A i \in 1 .. Len(w) : i + 1 \in 1 .. Len(wire[e]) /\ w[i] = wire[e][i + 1]
  BY <1>2, TailParts
<1>5. \A i \in 1 .. Len(w) : w[i].ep = e
  BY <1>4 DEF PipeOK
<1>6. wire' \in [Endpoints -> Seq(Events)]
  BY <1>1, <1>3 DEF PipeOK
<1>7. ASSUME NEW x \in Endpoints
      PROVE  Len(wire'[x]) <= MaxWire /\ \A i \in 1 .. Len(wire'[x]) : wire'[x][i].ep = x
  BY <1>1, <1>3, <1>5 DEF PipeOK
<1> QED  BY <1>6, <1>7

LEMMA AppendedTypes ==
  ASSUME PipeOK, NEW ev \in Events, Len(log) < MaxLog, log' = Append(log, ev), failed' = failed
  PROVE  log' \in Seq(Events) /\ Len(log') <= MaxLog /\ failed' \in 0 .. Len(log')
<1>1. log' \in Seq(Events) /\ Len(log') = Len(log) + 1 /\ Len(log) \in Nat
  BY DEF PipeOK
<1> QED  BY <1>1, PipelineAssumption DEF PipeOK

LEMMA PipeTypes ==
  ASSUME PipeOK, PipeNext
  PROVE  PipeOK'
<1>1. ASSUME NEW e \in Endpoints, Ingest(e)  PROVE PipeOK'
  <2>1. Frame(e) \in Events
    BY <1>1, FrameIs DEF Ingest
  <2>2. log' \in Seq(Events) /\ Len(log') <= MaxLog /\ failed' \in 0 .. Len(log')
    BY <1>1, <2>1, AppendedTypes DEF Ingest
  <2> QED  BY <1>1, <2>2, TakenTypes DEF Ingest, PipeOK
<1>2. ASSUME NEW e \in Endpoints, IngestTwice(e)  PROVE PipeOK'
  <2>1. Frame(e) \in Events
    BY <1>2, FrameIs DEF IngestTwice
  <2>2. log' \in Seq(Events) /\ Len(log') <= MaxLog /\ failed' \in 0 .. Len(log')
    BY <1>2, <2>1, AppendedTypes DEF IngestTwice
  <2> QED  BY <1>2, <2>2, PipelineAssumption DEF IngestTwice, Fault, PipeOK
<1>3. ASSUME NEW e \in Endpoints, IngestGivesUp(e)  PROVE PipeOK'
  <2>1. StreamOf(Frame(e)) \in Streams
    BY <1>3, FrameIs DEF IngestGivesUp
  <2>2. lost' \subseteq Streams
    BY <1>3, <2>1 DEF IngestGivesUp, PipeOK
  <2>3. trouble' \in 0 .. MaxTrouble
    BY <1>3, PipelineAssumption DEF IngestGivesUp, Fault, PipeOK
  <2> QED  BY <1>3, <2>2, <2>3, TakenTypes DEF IngestGivesUp, PipeOK
<1>4. CASE Project
  <2>0. log \in Seq(Events) /\ failed \in Nat /\ failed < Len(log) /\ Len(log) \in Nat
    BY <1>4 DEF Project, PipeOK
  <2>1. log[failed + 1] \in Events /\ log' \in Seq(Events) /\ Len(log') = Len(log) - (failed + 1)
    BY <1>4, <2>0, RestParts DEF Project
  <2>2. view' \in Views
    BY <1>4, <2>1, ApplyTypes DEF Project, PipeOK
  <2>3. Len(log') <= MaxLog /\ failed' \in 0 .. Len(log')
    BY <1>4, <2>0, <2>1, PipelineAssumption DEF Project, PipeOK
  <2>4. \A i \in 1 .. failed : log[i] \in Events
    BY <2>0, ElementOfSeq
  <2>5. \A i \in 1 .. failed : StreamOf(log[i]) \in Streams
    BY <2>4, StreamOfEvent
  <2>6. lost' \subseteq Streams
    BY <1>4, <2>5 DEF Project, PipeOK
  <2> QED  BY <1>4, <2>1, <2>2, <2>3, <2>6 DEF Project, PipeOK
<1>5. CASE ProjectUnmarked
  <2>0. log \in Seq(Events) /\ failed \in Nat /\ failed < Len(log) /\ Len(log) \in Nat
    BY <1>5 DEF ProjectUnmarked, PipeOK
  <2>1. log[failed + 1] \in Events
    BY <2>0, RestParts
  <2>2. view' \in Views
    BY <1>5, <2>1, ApplyTypes DEF ProjectUnmarked, PipeOK
  <2>3. failed' \in 0 .. Len(log')
    BY <1>5, <2>0 DEF ProjectUnmarked
  <2> QED  BY <1>5, <2>2, <2>3, PipelineAssumption DEF ProjectUnmarked, Fault, PipeOK
<1>6. CASE ProjectFails
  <2>0. log \in Seq(Events) /\ failed \in Nat /\ failed < Len(log) /\ Len(log) \in Nat
    BY <1>6 DEF ProjectFails, PipeOK
  <2>1. failed' \in 0 .. Len(log')
    BY <1>6, <2>0 DEF ProjectFails
  <2> QED  BY <1>6, <2>1, PipelineAssumption DEF ProjectFails, Fault, PipeOK
<1>7. CASE Resubscribe
  <2>1. failed' \in 0 .. Len(log')
    BY <1>7 DEF Resubscribe, PipeOK
  <2> QED  BY <1>7, <2>1 DEF Resubscribe, PipeOK
<1> QED  BY <1>1, <1>2, <1>3, <1>4, <1>5, <1>6, <1>7 DEF PipeNext

-----------------------------------------------------------------------------
(* Types are kept: the fleet *)

LEMMA OneSaid ==
  ASSUME NEW a \in Events, NEW T, a.type \in T, NEW e, a.ep = e
  PROVE  OfTypes(<<a>>, T) /\ OwnFrames(<<a>>, e)
<1>1. <<a>> \in Seq(Events) /\ Len(<<a>>) = 1 /\ <<a>>[1] = a
  OBVIOUS
<1> QED  BY <1>1 DEF OfTypes, OwnFrames

LEMMA BothSaid ==
  ASSUME NEW s, NEW u, NEW T, OfTypes(s, T), OfTypes(u, T), NEW e
  PROVE  /\ OfTypes(s \o u, T)
         /\ OwnFrames(s, e) /\ OwnFrames(u, e) => OwnFrames(s \o u, e)
<1>a. s \in Seq(Events) /\ u \in Seq(Events)
  BY DEF OfTypes
<1>b. /\ s \o u \in Seq(Events) /\ Len(s \o u) = Len(s) + Len(u) /\ Len(s) \in Nat /\ Len(u) \in Nat
      /\ \A i \in 1 .. Len(s) : i \in 1 .. Len(s \o u) /\ (s \o u)[i] = s[i]
      /\ \A i \in 1 .. Len(u) : Len(s) + i \in 1 .. Len(s \o u) /\ (s \o u)[Len(s) + i] = u[i]
      /\ \A i \in 1 .. Len(s \o u) : i \in 1 .. Len(s) \/ \E k \in 1 .. Len(u) : i = Len(s) + k
  BY <1>a, ConcatParts, SMTT(40)
<1> PICK t : t = s \o u
  OBVIOUS
<1>1. /\ t \in Seq(Events)
      /\ \A i \in 1 .. Len(s) : t[i] = s[i]
      /\ \A i \in 1 .. Len(u) : t[Len(s) + i] = u[i]
      /\ \A i \in 1 .. Len(t) : i \in 1 .. Len(s) \/ \E k \in 1 .. Len(u) : i = Len(s) + k
  BY <1>b, Zenon
<1>2. \A i \in 1 .. Len(t) : t[i].type \in T
  BY <1>1 DEF OfTypes
<1>3. OwnFrames(s, e) /\ OwnFrames(u, e) => OwnFrames(t, e)
  BY <1>1 DEF OwnFrames
<1> QED  BY <1>1, <1>2, <1>3 DEF OfTypes

LEMMA TwoSaid ==
  ASSUME NEW a \in Events, NEW b \in Events, NEW T, a.type \in T, b.type \in T, NEW e, a.ep = e, b.ep = e
  PROVE  OfTypes(<<a, b>>, T) /\ OwnFrames(<<a, b>>, e)
<1>1. <<a, b>> \in Seq(Events) /\ Len(<<a, b>>) = 2 /\ <<a, b>>[1] = a /\ <<a, b>>[2] = b
  OBVIOUS
<1> QED  BY <1>1 DEF OfTypes, OwnFrames

LEMMA ThreeSaid ==
  ASSUME NEW a \in Events, NEW b \in Events, NEW c \in Events, NEW T, a.type \in T, b.type \in T,
         c.type \in T, NEW e, a.ep = e, b.ep = e, c.ep = e
  PROVE  OfTypes(<<a, b, c>>, T) /\ OwnFrames(<<a, b, c>>, e)
<1>1. /\ <<a, b, c>> \in Seq(Events) /\ Len(<<a, b, c>>) = 3
      /\ <<a, b, c>>[1] = a /\ <<a, b, c>>[2] = b /\ <<a, b, c>>[3] = c
  OBVIOUS
<1> QED  BY <1>1 DEF OfTypes, OwnFrames

LEMMA BootTypes ==
  ASSUME FleetTypes, NEW e \in Endpoints, Boot(e)
  PROVE  SaysOnly(EndpointTypes \cup LeaderTypes) /\ FleetTypes'
<1>0. PipeOK /\ JobsOK /\ FleetOK
  BY TypesAre
<1>1. Launch[e] \in Envs \cup {NoEnv}
  BY FleetAssumption
<1>2. SaysOnly(EndpointTypes \cup LeaderTypes)
  <2> PICK a : a = EndpointEvent("EndpointStarted", e, Launch[e])
    OBVIOUS
  <2> PICK b : b = LeaderEvent(e, e)
    OBVIOUS
  <2>1. a \in Events /\ a.ep = e /\ a.type \in EndpointTypes /\ b \in Events /\ b.ep = e /\ b.type \in LeaderTypes
    BY <1>1, EndpointEventIs, LeaderEventIs, TypeSets
  <2>2. OfTypes(<<a, b>>, EndpointTypes \cup LeaderTypes) /\ OwnFrames(<<a, b>>, e)
    BY <2>1, TwoSaid
  <2>3. Publish(e, <<a, b>>) /\ log' = log
    BY DEF Boot
  <2> QED  BY <1>0, <2>2, <2>3, PublishSays
<1>3. PipeOK'
  BY <1>0, <1>2, SaysTypes DEF Boot, Tried, PipeOK
<1>4. FleetOK'
  BY <1>0, <1>1 DEF Boot, FleetOK
<1>5. JobsOK'
  BY <1>0 DEF Boot, JobsOK
<1> QED  BY <1>2, <1>3, <1>4, <1>5, TypesAre

LEMMA ElectTypes ==
  ASSUME FleetTypes, NEW e \in Endpoints, Elect(e)
  PROVE  SaysOnly(LeaderTypes) /\ FleetTypes'
<1>0. PipeOK /\ JobsOK /\ FleetOK
  BY TypesAre
<1>2. SaysOnly(LeaderTypes)
  <2> PICK b : b = LeaderEvent(e, Leader)
    OBVIOUS
  <2>1. b \in Events /\ b.ep = e /\ b.type \in LeaderTypes
    BY FleetAssumption, LeaderEventIs, TypeSets
  <2>2. OfTypes(<<b>>, LeaderTypes) /\ OwnFrames(<<b>>, e)
    BY <2>1, OneSaid
  <2>3. Publish(e, <<b>>) /\ log' = log
    BY DEF Elect
  <2> QED  BY <1>0, <2>2, <2>3, PublishSays
<1>3. PipeOK'
  BY <1>0, <1>2, SaysTypes DEF Elect, Tried, PipeOK
<1>4. FleetOK'
  BY <1>0, FleetAssumption DEF Elect, FleetOK
<1>5. JobsOK'
  BY <1>0 DEF Elect, JobsOK
<1> QED  BY <1>2, <1>3, <1>4, <1>5, TypesAre

\* Publishing one event about the endpoint itself, or about one of its versions.
LEMMA SaysEndpoint ==
  ASSUME PipeOK, NEW e \in Endpoints, NEW t \in EndpointTypes, NEW v \in Envs \cup {NoEnv},
         Publish(e, <<EndpointEvent(t, e, v)>>), log' = log
  PROVE  SaysOnly(EndpointTypes)
<1> PICK a : a = EndpointEvent(t, e, v)
  OBVIOUS
<1>1. a \in Events /\ a.ep = e /\ a.type \in EndpointTypes
  BY EndpointEventIs
<1>2. OfTypes(<<a>>, EndpointTypes) /\ OwnFrames(<<a>>, e)
  BY <1>1, OneSaid
<1> QED  BY <1>2, PublishSays

LEMMA SaysFunction ==
  ASSUME PipeOK, NEW e \in Endpoints, NEW t \in FunctionTypes \cup RemovalTypes, NEW v \in Envs \cup {NoEnv},
         NEW n \in Versions, Publish(e, <<FunctionEvent(t, e, v, n)>>), log' = log, NEW T, t \in T
  PROVE  SaysOnly(T)
<1> PICK a : a = FunctionEvent(t, e, v, n)
  OBVIOUS
<1>1. a \in Events /\ a.ep = e /\ a.type \in T
  BY FunctionEventIs
<1>2. OfTypes(<<a>>, T) /\ OwnFrames(<<a>>, e)
  BY <1>1, OneSaid
<1> QED  BY <1>2, PublishSays

LEMMA SaysJob ==
  ASSUME PipeOK, NEW e \in Endpoints, NEW t \in JobTypes, NEW j \in Jobs,
         NEW n \in Versions \cup {Unversioned}, Publish(e, <<JobEvent(t, e, j, n)>>), log' = log
  PROVE  SaysOnly(JobTypes)
<1> PICK a : a = JobEvent(t, e, j, n)
  OBVIOUS
<1>1. a \in Events /\ a.ep = e /\ a.type \in JobTypes
  BY JobEventIs
<1>2. OfTypes(<<a>>, JobTypes) /\ OwnFrames(<<a>>, e)
  BY <1>1, OneSaid
<1> QED  BY <1>2, PublishSays

LEMMA MetricsTypes ==
  ASSUME FleetTypes, NEW e \in Endpoints, Metrics(e)
  PROVE  SaysOnly(EndpointTypes) /\ FleetTypes'
<1>0. PipeOK /\ JobsOK /\ FleetOK
  BY TypesAre
<1>1. env[e] \in Envs \cup {NoEnv}
  BY <1>0 DEF FleetOK
<1>2. SaysOnly(EndpointTypes)
  BY <1>0, <1>1, SaysEndpoint, TypeSets DEF Metrics
<1>3. PipeOK'
  BY <1>0, <1>2, SaysTypes DEF Metrics, Tried, PipeOK
<1>4. FleetOK' /\ JobsOK'
  BY <1>0 DEF Metrics, fleetVars, FleetOK, JobsOK
<1> QED  BY <1>2, <1>3, <1>4, TypesAre

LEMMA GoneDownTypes ==
  ASSUME FleetTypes, NEW e \in Endpoints, GoneDown(e)
  PROVE  FleetOK' /\ JobsOK' /\ Tried
<1>0. PipeOK /\ JobsOK /\ FleetOK
  BY TypesAre
<1>1. FleetOK'
  BY <1>0 DEF GoneDown, FleetOK
<1>2. ASSUME NEW j \in Jobs
      PROVE  /\ job'[j] \in JobRecords
             /\ IF job'[j].state = "unsent" THEN job'[j].at = Nobody /\ ~job'[j].moved
                ELSE job'[j].at \in Endpoints /\ job'[j].version \in Versions
  <2> PICK st : st = IF job[j].at = e /\ job[j].state \in Active THEN "dead" ELSE job[j].state
    OBVIOUS
  <2>1. job'[j] = [job[j] EXCEPT !.held = job[j].held \ {e}, !.state = st]
    BY DEF GoneDown
  <2>2. job[j] \in JobRecords /\ job[j].held \ {e} \in SUBSET Endpoints
    BY <1>0 DEF JobsOK, JobRecords
  <2>3. st \in Active \cup {"unsent", "refused", "done", "failed", "dead"}
    BY <2>2 DEF JobRecords
  <2>4. job'[j] \in JobRecords /\ job'[j].state = st /\ job'[j].at = job[j].at
        /\ job'[j].moved = job[j].moved /\ job'[j].version = job[j].version
    BY <2>1, <2>2, <2>3 DEF JobRecords
  <2>5. st = job[j].state \/ (st = "dead" /\ job[j].state # "unsent")
    BY DEF Active
  <2> QED  BY <1>0, <2>4, <2>5 DEF JobsOK
<1>3. job' \in [Jobs -> JobRecords]
  <2>1. job' = [j \in Jobs |-> job'[j]]
    BY DEF GoneDown
  <2> QED  BY <1>2, <2>1
<1> QED  BY <1>1, <1>2, <1>3 DEF JobsOK, Tried, GoneDown, Outage

LEMMA StopTypes ==
  ASSUME FleetTypes, NEW e \in Endpoints, Stop(e)
  PROVE  SaysOnly(EndpointTypes) /\ FleetTypes'
<1>0. PipeOK /\ JobsOK /\ FleetOK
  BY TypesAre
<1>1. env[e] \in Envs \cup {NoEnv}
  BY <1>0 DEF FleetOK
<1>2. SaysOnly(EndpointTypes)
  BY <1>0, <1>1, SaysEndpoint, TypeSets DEF Stop, GoneDown
<1>3. FleetOK' /\ JobsOK' /\ Tried
  BY GoneDownTypes DEF Stop
<1>4. PipeOK'
  BY <1>0, <1>2, <1>3, SaysTypes DEF Stop, GoneDown, PipeOK
<1> QED  BY <1>2, <1>3, <1>4, TypesAre

LEMMA CrashTypes ==
  ASSUME FleetTypes, NEW e \in Endpoints, Crash(e)
  PROVE  FleetTypes'
<1>0. PipeOK /\ JobsOK /\ FleetOK
  BY TypesAre
<1>1. FleetOK' /\ JobsOK' /\ Tried
  BY GoneDownTypes DEF Crash
<1>2. wire' = [wire EXCEPT ![e] = <<>>] /\ <<>> \in Seq(Events) /\ Len(<<>>) = 0
  BY DEF Crash
<1>3. wire' \in [Endpoints -> Seq(Events)]
  BY <1>0, <1>2 DEF PipeOK
<1>4. \A x \in Endpoints : Len(wire'[x]) <= MaxWire /\ \A i \in 1 .. Len(wire'[x]) : wire'[x][i].ep = x
  BY <1>0, <1>2, PipelineAssumption DEF PipeOK
<1>5. \A i \in DOMAIN wire[e] : wire[e][i] \in Events
  BY <1>0 DEF PipeOK
<1>6. lost' \subseteq Streams
  BY <1>0, <1>5, StreamOfEvent DEF Crash, PipeOK
<1>7. trouble' \in 0 .. MaxTrouble
  BY <1>0, <1>1, PipelineAssumption DEF Tried, Fault, PipeOK
<1>8. PipeOK'
  BY <1>0, <1>3, <1>4, <1>6, <1>7 DEF Crash, GoneDown, PipeOK
<1> QED  BY <1>1, <1>8, TypesAre

\* Events of types in K about e; the sequence s has only those.
EventsOf(f, K, e) == \A x \in DOMAIN f : f[x] \in Events /\ f[x].type \in K /\ f[x].ep = e
Lists(s, f) == \A i \in 1 .. Len(s) : \E x \in DOMAIN f : s[i] = f[x]

LEMMA SetSaid ==
  ASSUME NEW f, IsFiniteSet(DOMAIN f), NEW K, NEW e, EventsOf(f, K, e),
         NEW s, s = SetToSeq({f[x] : x \in DOMAIN f})
  PROVE  OfTypes(s, K) /\ OwnFrames(s, e) /\ Lists(s, f)
<1> PICK S : S = {f[x] : x \in DOMAIN f}
  OBVIOUS
<1>1. IsFiniteSet(S)
  BY FiniteImage
<1>2. s \in Seq(S)
  BY <1>1, ListOf
<1>3. \A i \in 1 .. Len(s) : s[i] \in S
  BY <1>2, ElementOfSeq
<1>4. \A i \in 1 .. Len(s) : \E x \in DOMAIN f : s[i] = f[x]
  BY <1>3
<1>5. \A y \in S : y \in Events
  BY DEF EventsOf
<1>6. s \in Seq(Events)
  BY <1>2, <1>5
<1> QED  BY <1>4, <1>6 DEF OfTypes, OwnFrames, EventsOf, Lists

LEMMA FiniteDomains ==
  /\ \A V \in SUBSET Versions : IsFiniteSet(V)
  /\ \A J \in SUBSET Jobs : IsFiniteSet(J)
<1>1. IsFiniteSet(Versions)
  BY FS_Interval, ReadModelAssumption DEF Versions
<1> QED  BY <1>1, FS_Subset, ReadModelAssumption

LEMMA JobPut ==
  ASSUME JobsOK, NEW j \in Jobs, NEW r \in JobRecords, job' = [job EXCEPT ![j] = r],
         r.state # "unsent", r.at \in Endpoints, r.version \in Versions
  PROVE  JobsOK' /\ job'[j] = r /\ \A k \in Jobs : k # j => job'[k] = job[k]
  BY DEF JobsOK

LEMMA ReplicateTypes ==
  ASSUME FleetTypes, NEW e \in Endpoints, Replicate(e)
  PROVE  SaysOnly(FunctionTypes) /\ FleetTypes'
<1>0. PipeOK /\ JobsOK /\ FleetOK
  BY TypesAre
<1> PICK V : V = stored[Leader] \ stored[e]
  OBVIOUS
<1> PICK f : f = [v \in V |-> FunctionEvent("FunctionRegistered", e, env[e], v)]
  OBVIOUS
<1> PICK s : s = SetToSeq({FunctionEvent("FunctionRegistered", e, env[e], v) : v \in V})
  OBVIOUS
<1>1. env[e] \in Envs \cup {NoEnv} /\ V \in SUBSET Versions /\ stored[Leader] \in SUBSET Versions
  BY <1>0, FleetAssumption DEF FleetOK
<1>2. EventsOf(f, FunctionTypes, e)
  BY <1>1, FunctionEventIs, TypeSets DEF EventsOf
<1>3. s = SetToSeq({f[x] : x \in DOMAIN f})
  <2>1. {FunctionEvent("FunctionRegistered", e, env[e], v) : v \in V} = {f[x] : x \in DOMAIN f}
    OBVIOUS
  <2> QED  BY <2>1
<1>4. IsFiniteSet(DOMAIN f)
  BY <1>1, FiniteDomains
<1>5. OfTypes(s, FunctionTypes) /\ OwnFrames(s, e)
  BY <1>2, <1>3, <1>4, SetSaid
<1>6. Publish(e, s) /\ log' = log
  BY DEF Replicate
<1>7. SaysOnly(FunctionTypes)
  BY <1>0, <1>5, <1>6, PublishSays
<1>8. PipeOK'
  BY <1>0, <1>7, SaysTypes DEF Replicate, Tried, PipeOK
<1>9. FleetOK'
  BY <1>0, <1>1 DEF Replicate, FleetOK
<1>10. JobsOK'
  BY <1>0 DEF Replicate, JobsOK
<1> QED  BY <1>7, <1>8, <1>9, <1>10, TypesAre

LEMMA RetireTypes ==
  ASSUME FleetTypes, NEW e \in Endpoints, NEW v \in Versions, Retire(e, v)
  PROVE  SaysOnly(FunctionTypes) /\ FleetTypes'
<1>0. PipeOK /\ JobsOK /\ FleetOK
  BY TypesAre
<1>1. env[e] \in Envs \cup {NoEnv}
  BY <1>0 DEF FleetOK
<1>2. SaysOnly(FunctionTypes)
  BY <1>0, <1>1, SaysFunction, TypeSets DEF Retire
<1>3. PipeOK'
  BY <1>0, <1>2, SaysTypes DEF Retire, Tried, PipeOK
<1>4. FleetOK' /\ JobsOK'
  BY <1>0 DEF Retire, FleetOK, JobsOK
<1> QED  BY <1>2, <1>3, <1>4, TypesAre

\* A job that was submitted is where it was placed.
LEMMA PlacedJob ==
  ASSUME JobsOK, NEW j \in Jobs, job[j].state # "unsent"
  PROVE  job[j] \in JobRecords /\ job[j].at \in Endpoints /\ job[j].version \in Versions
  BY DEF JobsOK

LEMMA RefuseTypes ==
  ASSUME FleetTypes, NEW j \in Jobs, Refuse(j)
  PROVE  SaysOnly({}) /\ FleetTypes'
<1>0. PipeOK /\ JobsOK /\ FleetOK
  BY TypesAre
<1>1. SaysOnly({})
  BY <1>0, SilenceSays DEF Refuse
<1>2. PipeOK'
  BY <1>0 DEF Refuse, PipeOK
<1>3. FleetOK'
  BY <1>0 DEF Refuse, FleetOK
<1> PICK r : r = [job[j] EXCEPT !.state = "refused"]
  OBVIOUS
<1>4. job[j] \in JobRecords /\ job[j].at \in Endpoints /\ job[j].version \in Versions
  BY <1>0, PlacedJob DEF Refuse
<1>5. r \in JobRecords /\ r.state # "unsent" /\ r.at = job[j].at /\ r.version = job[j].version
  BY <1>4 DEF JobRecords
<1>6. job' = [job EXCEPT ![j] = r]
  BY DEF Refuse
<1>7. JobsOK'
  BY <1>0, <1>4, <1>5, <1>6, JobPut
<1> QED  BY <1>1, <1>2, <1>3, <1>7, TypesAre

LEMMA DeployFailsTypes ==
  ASSUME FleetTypes, NEW j \in Jobs, DeployFails(j)
  PROVE  SaysOnly(FunctionTypes \cup JobTypes) /\ FleetTypes'
<1>0. PipeOK /\ JobsOK /\ FleetOK
  BY TypesAre
<1> PICK e : e = job[j].at
  OBVIOUS
<1> PICK v : v = job[j].version
  OBVIOUS
<1>1. job[j] \in JobRecords /\ e \in Endpoints /\ v \in Versions
  BY <1>0, PlacedJob DEF DeployFails
<1>2. env[e] \in Envs \cup {NoEnv}
  BY <1>0, <1>1 DEF FleetOK
<1>3. SaysOnly(FunctionTypes \cup JobTypes)
  <2> PICK a : a = FunctionEvent("FunctionDeployFailed", e, env[e], v)
    OBVIOUS
  <2> PICK b : b = JobEvent("JobFailed", e, j, Unversioned)
    OBVIOUS
  <2> PICK c : c = FunctionEvent("FunctionDeactivated", e, env[e], v)
    OBVIOUS
  <2>1. a \in Events /\ a.ep = e /\ a.type \in FunctionTypes /\ c \in Events /\ c.ep = e /\ c.type \in FunctionTypes
    BY <1>1, <1>2, FunctionEventIs, TypeSets
  <2>2. b \in Events /\ b.ep = e /\ b.type \in JobTypes
    BY <1>1, JobEventIs, TypeSets
  <2>3. OfTypes(<<a, b, c>>, FunctionTypes \cup JobTypes) /\ OwnFrames(<<a, b, c>>, e)
    BY <2>1, <2>2, ThreeSaid
  <2>4. Publish(e, <<a, b, c>>) /\ log' = log
    BY DEF DeployFails
  <2> QED  BY <1>0, <1>1, <2>3, <2>4, PublishSays
<1>4. PipeOK'
  BY <1>0, <1>3, SaysTypes DEF DeployFails, Tried, PipeOK
<1>5. FleetOK'
  BY <1>0 DEF DeployFails, FleetOK
<1> PICK r : r = [job[j] EXCEPT !.state = "failed", !.held = job[j].held \ {e}]
  OBVIOUS
<1>6. r \in JobRecords /\ r.state # "unsent" /\ r.at = e /\ r.version = v
  <2>1. job[j].held \ {e} \in SUBSET Endpoints
    BY <1>1 DEF JobRecords
  <2> QED  BY <1>1, <2>1 DEF JobRecords
<1>7. job' = [job EXCEPT ![j] = r]
  BY <1>0 DEF DeployFails, JobsOK
<1>8. JobsOK'
  BY <1>0, <1>1, <1>6, <1>7, JobPut
<1> QED  BY <1>3, <1>4, <1>5, <1>8, TypesAre

LEMMA StartTypes ==
  ASSUME FleetTypes, NEW j \in Jobs, Start(j)
  PROVE  SaysOnly(FunctionTypes \cup JobTypes) /\ FleetTypes'
<1>0. PipeOK /\ JobsOK /\ FleetOK
  BY TypesAre
<1> PICK e : e = job[j].at
  OBVIOUS
<1> PICK v : v = job[j].version
  OBVIOUS
<1>1. job[j] \in JobRecords /\ e \in Endpoints /\ v \in Versions
  BY <1>0, PlacedJob DEF Start
<1>2. env[e] \in Envs \cup {NoEnv}
  BY <1>0, <1>1 DEF FleetOK
<1>3. SaysOnly(FunctionTypes \cup JobTypes)
  <2> PICK K : K = FunctionTypes \cup JobTypes
    OBVIOUS
  <2> PICK a : a = FunctionEvent("FunctionDeployed", e, env[e], v)
    OBVIOUS
  <2> PICK b : b = JobEvent("JobStarted", e, j, v)
    OBVIOUS
  <2> PICK c : c = FunctionEvent("FunctionActivated", e, env[e], v)
    OBVIOUS
  <2>0. /\ "FunctionDeployed" \in FunctionTypes \cup RemovalTypes /\ "FunctionDeployed" \in K
        /\ "FunctionActivated" \in FunctionTypes \cup RemovalTypes /\ "FunctionActivated" \in K
    BY TypeSets
  <2>1. a \in Events /\ a.ep = e /\ a.type \in K
    <3>1. a \in Events /\ a.ep = e /\ a.type = "FunctionDeployed"
      BY <1>1, <1>2, <2>0, FunctionEventIs
    <3> QED  BY <2>0, <3>1
  <2>9. c \in Events /\ c.ep = e /\ c.type \in K
    BY <1>1, <1>2, <2>0, FunctionEventIs
  <2>2. b \in Events /\ b.ep = e /\ b.type \in K
    BY <1>1, JobEventIs, TypeSets
  <2>3. OfTypes(<<b, c>>, K) /\ OwnFrames(<<b, c>>, e)
    BY <2>2, <2>9, TwoSaid
  <2>4. OfTypes(<<a>>, K) /\ OwnFrames(<<a>>, e)
    BY <2>1, OneSaid
  <2>5. OfTypes(<<>>, K) /\ OwnFrames(<<>>, e)
    BY <1>0, NothingSaid DEF PipeOK
  <2> PICK new : new = IF <<e, v>> \in warm THEN <<>> ELSE <<a>>
    OBVIOUS
  <2>6. OfTypes(new, K) /\ OwnFrames(new, e)
    BY <2>4, <2>5
  <2>7. OfTypes(new \o <<b, c>>, K) /\ OwnFrames(new \o <<b, c>>, e)
    BY <2>3, <2>6, BothSaid
  <2>8. Publish(e, new \o <<b, c>>) /\ log' = log
    BY DEF Start
  <2> QED  BY <1>0, <1>1, <2>7, <2>8, PublishSays
<1>4. PipeOK'
  BY <1>0, <1>3, SaysTypes DEF Start, Tried, PipeOK
<1>5. FleetOK'
  BY <1>0, <1>1 DEF Start, FleetOK
<1> PICK r : r = [job[j] EXCEPT !.state = "started"]
  OBVIOUS
<1>6. r \in JobRecords /\ r.state # "unsent" /\ r.at = e /\ r.version = v
  BY <1>1 DEF JobRecords, Active
<1>7. job' = [job EXCEPT ![j] = r]
  BY <1>0 DEF Start, JobsOK
<1>8. JobsOK'
  BY <1>0, <1>1, <1>6, <1>7, JobPut
<1> QED  BY <1>3, <1>4, <1>5, <1>8, TypesAre

LEMMA ForwardTypes ==
  ASSUME FleetTypes, NEW j \in Jobs, NEW e \in Endpoints, Forward(j, e)
  PROVE  SaysOnly(JobTypes) /\ FleetTypes'
<1>0. PipeOK /\ JobsOK /\ FleetOK
  BY TypesAre
<1> PICK v : v = job[j].version
  OBVIOUS
<1>1. job[j] \in JobRecords /\ job[j].at \in Endpoints /\ v \in Versions
  BY <1>0, PlacedJob DEF Forward
<1>3. SaysOnly(JobTypes)
  BY <1>0, <1>1, SaysJob, TypeSets DEF Forward
<1>4. PipeOK'
  BY <1>0, <1>3, SaysTypes DEF Forward, Tried, PipeOK
<1>5. FleetOK'
  BY <1>0 DEF Forward, FleetOK
<1> PICK r : r = [job[j] EXCEPT !.at = e, !.held = job[j].held \cup {e}, !.moved = TRUE]
  OBVIOUS
<1>6. r \in JobRecords /\ r.state # "unsent" /\ r.at = e /\ r.version = v
  <2>1. job[j].held \cup {e} \in SUBSET Endpoints
    BY <1>1 DEF JobRecords
  <2>2. job[j].state # "unsent"
    BY DEF Forward
  <2> QED  BY <1>1, <2>1, <2>2 DEF JobRecords
<1>7. job' = [job EXCEPT ![j] = r]
  BY <1>0 DEF Forward, JobsOK
<1>8. JobsOK'
  BY <1>0, <1>1, <1>6, <1>7, JobPut
<1> QED  BY <1>3, <1>4, <1>5, <1>8, TypesAre

LEMMA FinishTypes ==
  ASSUME FleetTypes, NEW j \in Jobs, NEW ok \in BOOLEAN, Finish(j, ok)
  PROVE  SaysOnly(FunctionTypes \cup JobTypes) /\ FleetTypes'
<1>0. PipeOK /\ JobsOK /\ FleetOK
  BY TypesAre
<1> PICK e : e = job[j].at
  OBVIOUS
<1> PICK v : v = job[j].version
  OBVIOUS
<1>1. job[j] \in JobRecords /\ e \in Endpoints /\ v \in Versions
  BY <1>0, PlacedJob DEF Finish
<1>2. env[e] \in Envs \cup {NoEnv}
  BY <1>0, <1>1 DEF FleetOK
<1>3. SaysOnly(FunctionTypes \cup JobTypes)
  <2> PICK t : t = IF ok THEN "JobCompleted" ELSE "JobFailed"
    OBVIOUS
  <2> PICK b : b = JobEvent(t, e, j, Unversioned)
    OBVIOUS
  <2> PICK c : c = FunctionEvent("FunctionDeactivated", e, env[e], v)
    OBVIOUS
  <2>1. c \in Events /\ c.ep = e /\ c.type \in FunctionTypes
    BY <1>1, <1>2, FunctionEventIs, TypeSets
  <2>2. t \in JobTypes
    BY TypeSets
  <2>3. b \in Events /\ b.ep = e /\ b.type \in JobTypes
    BY <1>1, <2>2, JobEventIs
  <2>4. OfTypes(<<b, c>>, FunctionTypes \cup JobTypes) /\ OwnFrames(<<b, c>>, e)
    BY <2>1, <2>3, TwoSaid
  <2>5. Publish(e, <<b, c>>) /\ log' = log
    BY DEF Finish
  <2> QED  BY <1>0, <1>1, <2>4, <2>5, PublishSays
<1>4. PipeOK'
  BY <1>0, <1>3, SaysTypes DEF Finish, Tried, PipeOK
<1>5. FleetOK'
  BY <1>0 DEF Finish, FleetOK
<1> PICK st : st = IF ok THEN "done" ELSE "failed"
  OBVIOUS
<1> PICK r : r = [job[j] EXCEPT !.state = st, !.held = job[j].held \ {e}]
  OBVIOUS
<1>6. r \in JobRecords /\ r.state # "unsent" /\ r.at = e /\ r.version = v
  <2>1. job[j].held \ {e} \in SUBSET Endpoints /\ st \in {"done", "failed"}
    BY <1>1 DEF JobRecords
  <2> QED  BY <1>1, <2>1 DEF JobRecords
<1>7. job' = [job EXCEPT ![j] = r]
  BY <1>0 DEF Finish, JobsOK
<1>8. JobsOK'
  BY <1>0, <1>1, <1>6, <1>7, JobPut
<1> QED  BY <1>3, <1>4, <1>5, <1>8, TypesAre

LEMMA PingTypes ==
  ASSUME FleetTypes, NEW e \in Endpoints, Ping(e)
  PROVE  SaysOnly({}) /\ FleetTypes'
<1>0. PipeOK /\ JobsOK /\ FleetOK
  BY TypesAre
<1>1. SaysOnly({})
  BY <1>0, SilenceSays DEF Ping
<1>2. trouble' = trouble \/ Fault
  BY DEF Ping
<1>3. PipeOK'
  BY <1>0, <1>2, PipelineAssumption DEF Ping, PipeOK, Fault
<1>4. probe' = [ep |-> e, type |-> "EndpointUnreachable"] \/ probe' = [ep |-> e, type |-> "EndpointRecovered"]
  BY DEF Ping
<1>5. FleetOK'
  BY <1>0, <1>4 DEF Ping, FleetOK
<1>6. JobsOK'
  BY <1>0 DEF Ping, JobsOK
<1> QED  BY <1>1, <1>3, <1>5, <1>6, TypesAre

LEMMA VerdictTypes ==
  ASSUME FleetTypes, Verdict
  PROVE  SaysOnly(EndpointTypes) /\ FleetTypes'
<1>0. PipeOK /\ JobsOK /\ FleetOK
  BY TypesAre
<1>1. probe \in [ep : Endpoints, type : {"EndpointUnreachable", "EndpointRecovered"}]
  BY <1>0 DEF FleetOK, Verdict
<1>2. probe.ep \in Endpoints /\ probe.type \in EndpointTypes
  BY <1>1, TypeSets
<1> PICK a : a = EndpointEvent(probe.type, probe.ep, NoEnv)
  OBVIOUS
<1>3. a \in Events /\ a.type \in EndpointTypes
  BY <1>2, EndpointEventIs
<1>4. OfTypes(<<a>>, EndpointTypes)
  BY <1>3, OneSaid
<1>5. SaysOnly(EndpointTypes)
  BY <1>0, <1>4, AppendSays DEF Verdict
<1>6. PipeOK'
  BY <1>0, <1>5, SaysTypes DEF Verdict, Tried, PipeOK
<1>7. FleetOK' /\ JobsOK'
  BY <1>0 DEF Verdict, FleetOK, JobsOK
<1> QED  BY <1>5, <1>6, <1>7, TypesAre

LEMMA AssignTypes ==
  ASSUME FleetTypes, NEW e \in Endpoints, NEW v \in Envs \cup {NoEnv}, Assign(e, v)
  PROVE  SaysOnly(EndpointTypes) /\ FleetTypes'
<1>0. PipeOK /\ JobsOK /\ FleetOK
  BY TypesAre
<1>1. \/ Publish(e, <<EndpointEvent("EndpointVirtualEnvAssigned", e, v)>>)
      \/ Publish(e, <<EndpointEvent("EndpointVirtualEnvDetached", e, NoEnv)>>)
      \/ wire' = wire
  BY DEF Assign
<1>2. log' = log
  BY DEF Assign
<1>3. SaysOnly(EndpointTypes)
  <2>1. CASE Publish(e, <<EndpointEvent("EndpointVirtualEnvAssigned", e, v)>>)
    BY <1>0, <1>2, <2>1, SaysEndpoint, TypeSets
  <2>2. CASE Publish(e, <<EndpointEvent("EndpointVirtualEnvDetached", e, NoEnv)>>)
    BY <1>0, <1>2, <2>2, SaysEndpoint, TypeSets
  <2>3. CASE wire' = wire
    <3>1. SaysOnly({})
      BY <1>0, <1>2, <2>3, SilenceSays
    <3> QED  BY <3>1 DEF SaysOnly, OfTypes
  <2> QED  BY <1>1, <2>1, <2>2, <2>3
<1>4. PipeOK'
  BY <1>0, <1>3, SaysTypes DEF Assign, Tried, Command, PipeOK
<1>5. FleetOK'
  BY <1>0 DEF Assign, FleetOK
<1>6. JobsOK'
  BY <1>0 DEF Assign, JobsOK
<1> QED  BY <1>3, <1>4, <1>5, <1>6, TypesAre

LEMMA RegisterTypes ==
  ASSUME FleetTypes, Register
  PROVE  SaysOnly(FunctionTypes) /\ FleetTypes'
<1>0. PipeOK /\ JobsOK /\ FleetOK
  BY TypesAre
<1> PICK n : n = NextVersion
  OBVIOUS
<1>1. n \in Versions /\ Leader \in Endpoints /\ env[Leader] \in Envs \cup {NoEnv}
  BY <1>0, FleetAssumption DEF FleetOK, Register
<1>2. SaysOnly(FunctionTypes)
  BY <1>0, <1>1, SaysFunction, TypeSets DEF Register
<1>3. PipeOK'
  BY <1>0, <1>2, SaysTypes DEF Register, Tried, Command, PipeOK
<1>4. stored' = [stored EXCEPT ![Leader] = stored[Leader] \cup {n}] /\ reused' \in {reused, reused \cup {n}}
  BY DEF Register
<1>5. stored[Leader] \cup {n} \in SUBSET Versions
  BY <1>0, <1>1 DEF FleetOK
<1>6. stored' \in [Endpoints -> SUBSET Versions] /\ reused' \subseteq Versions
  BY <1>0, <1>1, <1>4, <1>5 DEF FleetOK
<1>7. FleetOK'
  BY <1>0, <1>6 DEF Register, FleetOK
<1>8. JobsOK'
  BY <1>0 DEF Register, JobsOK
<1> QED  BY <1>2, <1>3, <1>7, <1>8, TypesAre

LEMMA DeleteTypes ==
  ASSUME FleetTypes, NEW v \in Versions, Delete(v)
  PROVE  SaysOnly(RemovalTypes) /\ FleetTypes'
<1>0. PipeOK /\ JobsOK /\ FleetOK
  BY TypesAre
<1>1. Leader \in Endpoints /\ env[Leader] \in Envs \cup {NoEnv}
  BY <1>0, FleetAssumption DEF FleetOK
<1>2. SaysOnly(RemovalTypes)
  BY <1>0, <1>1, SaysFunction, TypeSets DEF Delete
<1>3. PipeOK'
  BY <1>0, <1>2, SaysTypes DEF Delete, Tried, Command, PipeOK
<1>4. FleetOK'
  BY <1>0, <1>1 DEF Delete, FleetOK
<1>5. JobsOK'
  BY <1>0 DEF Delete, JobsOK
<1> QED  BY <1>2, <1>3, <1>4, <1>5, TypesAre

\* PurgeVersion and PurgeRemove take a document away.
LEMMA NoFunctionPut ==
  ASSUME NEW vw \in Views, NEW v \in Versions
  PROVE  LET new == [vw EXCEPT !.functions[v] = NoFunction]
         IN  /\ new \in Views
             /\ new.functions = [vw.functions EXCEPT ![v] = NoFunction]
             /\ new.endpoints = vw.endpoints /\ new.jobs = vw.jobs /\ new.leaders = vw.leaders
<1>1. NoFunction \in FunctionDocs
  BY DEF NoFunction, FunctionDocs
<1> PICK ds : ds = [vw.functions EXCEPT ![v] = NoFunction]
  OBVIOUS
<1>2. ds \in [Versions -> FunctionDocs]
  BY <1>1, ViewsAre
<1>3. [vw EXCEPT !.functions[v] = NoFunction] = [vw EXCEPT !.functions = ds]
  OBVIOUS
<1> QED  BY <1>2, <1>3, ViewsAre

LEMMA NoEndpointPut ==
  ASSUME NEW vw \in Views, NEW e \in Endpoints
  PROVE  LET new == [vw EXCEPT !.endpoints[e] = NoEndpoint]
         IN  /\ new \in Views
             /\ new.endpoints = [vw.endpoints EXCEPT ![e] = NoEndpoint]
             /\ new.functions = vw.functions /\ new.jobs = vw.jobs /\ new.leaders = vw.leaders
<1>1. NoEndpoint \in EndpointDocs
  BY DEF NoEndpoint, EndpointDocs
<1> PICK ds : ds = [vw.endpoints EXCEPT ![e] = NoEndpoint]
  OBVIOUS
<1>2. ds \in [Endpoints -> EndpointDocs]
  BY <1>1, ViewsAre
<1>3. [vw EXCEPT !.endpoints[e] = NoEndpoint] = [vw EXCEPT !.endpoints = ds]
  OBVIOUS
<1> QED  BY <1>2, <1>3, ViewsAre

LEMMA PurgeVersionTypes ==
  ASSUME FleetTypes, NEW v \in Versions, PurgeVersion(v)
  PROVE  SaysOnly({}) /\ FleetTypes'
<1>0. PipeOK /\ JobsOK /\ FleetOK
  BY TypesAre
<1>1. SaysOnly({})
  BY <1>0, SilenceSays DEF PurgeVersion
<1>2. view' \in Views
  BY <1>0, NoFunctionPut DEF PurgeVersion, PipeOK
<1>3. <<"functions", v>> \in Streams
  BY DEF Streams
<1>4. PipeOK'
  BY <1>0, <1>1, <1>2, <1>3, SaysTypes DEF PurgeVersion, Tried, Command, PipeOK
<1>5. FleetOK' /\ JobsOK'
  BY <1>0 DEF PurgeVersion, FleetOK, JobsOK
<1> QED  BY <1>1, <1>4, <1>5, TypesAre

LEMMA PurgeRemoveTypes ==
  ASSUME FleetTypes, PurgeRemove
  PROVE  SaysOnly({}) /\ FleetTypes'
<1>0. PipeOK /\ JobsOK /\ FleetOK
  BY TypesAre
<1>1. SaysOnly({})
  BY <1>0, SilenceSays DEF PurgeRemove
<1>2. purge \in Endpoints
  BY <1>0 DEF FleetOK, PurgeRemove
<1>3. view' \in Views
  BY <1>0, <1>2, NoEndpointPut DEF PurgeRemove, PipeOK
<1>4. PipeOK'
  BY <1>0, <1>1, <1>3, SaysTypes DEF PurgeRemove, Tried, PipeOK
<1>5. FleetOK' /\ JobsOK'
  BY <1>0, <1>2 DEF PurgeRemove, FleetOK, JobsOK
<1> QED  BY <1>1, <1>4, <1>5, TypesAre

LEMMA SubmitTypes ==
  ASSUME FleetTypes, NEW j \in Jobs, NEW e \in Endpoints, NEW v \in Versions, Submit(j, e, v)
  PROVE  SaysOnly(JobTypes) /\ FleetTypes'
<1>0. PipeOK /\ JobsOK /\ FleetOK
  BY TypesAre
<1>1. SaysOnly(JobTypes)
  BY <1>0, SaysJob, TypeSets DEF Submit
<1>2. PipeOK'
  BY <1>0, <1>1, SaysTypes DEF Submit, Tried, Command, PipeOK
<1>3. FleetOK'
  BY <1>0 DEF Submit, FleetOK
<1> PICK r : r = [state |-> "queued", at |-> e, held |-> {e}, moved |-> FALSE, version |-> v]
  OBVIOUS
<1>4. {e} \in SUBSET Endpoints
  OBVIOUS
<1>5. r \in JobRecords /\ r.state # "unsent" /\ r.at = e /\ r.version = v
  BY <1>4 DEF JobRecords, Active
<1>6. job' = [job EXCEPT ![j] = r]
  BY DEF Submit
<1>7. JobsOK'
  BY <1>0, <1>5, <1>6, JobPut
<1> QED  BY <1>1, <1>2, <1>3, <1>7, TypesAre

\* What the cascade appends: jobs of WrittenOff(e) fail, versions of HeldBy(e) go.
LEMMA CascadeSays ==
  ASSUME FleetTypes, NEW e \in Endpoints, PurgeCascade(e)
  PROVE  \E js, vs : \E fj \in [WrittenOff(e) -> Events], fv \in [HeldBy(e) -> Events] :
           /\ AppendAll(js \o vs)
           /\ OfTypes(js, {"JobFailed"}) /\ OfTypes(vs, RemovalTypes)
           /\ Lists(js, fj) /\ \A j \in WrittenOff(e) : fj[j].job = j
           /\ Lists(vs, fv) /\ \A v \in HeldBy(e) : fv[v].version = v
<1> PICK J : J = WrittenOff(e)
  OBVIOUS
<1> PICK V : V = HeldBy(e)
  OBVIOUS
<1>0. J \in SUBSET Jobs /\ V \in SUBSET Versions
  BY DEF WrittenOff, HeldBy
<1>9. ASSUME NEW t \in RemovalTypes, NEW v \in V
      PROVE  /\ FunctionEvent(t, e, NoEnv, v) \in Events /\ FunctionEvent(t, e, NoEnv, v).type = t
             /\ FunctionEvent(t, e, NoEnv, v).ep = e /\ FunctionEvent(t, e, NoEnv, v).version = v
  BY <1>0, FunctionEventIs
<1> PICK fj : fj = [j \in J |-> JobEvent("JobFailed", e, j, Unversioned)]
  OBVIOUS
<1> PICK typ : typ = [v \in V |-> IF LastHolder(e, v) THEN "FunctionDeleted" ELSE "FunctionEndpointDetached"]
  OBVIOUS
<1> PICK fv : fv = [v \in V |-> FunctionEvent(typ[v], e, NoEnv, v)]
  OBVIOUS
<1> PICK js : js = SetToSeq({fj[x] : x \in DOMAIN fj})
  OBVIOUS
<1> PICK vs : vs = SetToSeq({fv[x] : x \in DOMAIN fv})
  OBVIOUS
<1>1. \A j \in J : fj[j] \in Events /\ fj[j].type = "JobFailed" /\ fj[j].ep = e /\ fj[j].job = j
  BY <1>0, JobEventIs, TypeSets
<1>2. ASSUME NEW v \in V
      PROVE  fv[v] \in Events /\ fv[v].type \in RemovalTypes /\ fv[v].ep = e /\ fv[v].version = v
  <2> PICK t : t = typ[v]
    OBVIOUS
  <2>1. t \in RemovalTypes
    BY TypeSets
  <2>3. fv[v] = FunctionEvent(t, e, NoEnv, v)
    OBVIOUS
  <2> QED  BY <1>9, <2>1, <2>3
<1>3. EventsOf(fj, {"JobFailed"}, e) /\ EventsOf(fv, RemovalTypes, e)
  BY <1>1, <1>2 DEF EventsOf
<1>4. IsFiniteSet(DOMAIN fj) /\ IsFiniteSet(DOMAIN fv)
  BY <1>0, FiniteDomains
<1>5. OfTypes(js, {"JobFailed"}) /\ Lists(js, fj)
  BY <1>3, <1>4, SetSaid
<1>6. OfTypes(vs, RemovalTypes) /\ Lists(vs, fv)
  BY <1>3, <1>4, SetSaid
<1>7. fj \in [J -> Events] /\ fv \in [V -> Events]
  BY <1>1, <1>2
<1>8. AppendAll(js \o vs)
  <2>1. {JobEvent("JobFailed", e, j, Unversioned) : j \in WrittenOff(e)} = {fj[x] : x \in DOMAIN fj}
    OBVIOUS
  <2>2. {FunctionEvent(IF LastHolder(e, v) THEN "FunctionDeleted" ELSE "FunctionEndpointDetached", e, NoEnv, v)
           : v \in HeldBy(e)} = {fv[x] : x \in DOMAIN fv}
    OBVIOUS
  <2>3. AppendAll(SetToSeq({JobEvent("JobFailed", e, j, Unversioned) : j \in WrittenOff(e)})
                   \o SetToSeq({FunctionEvent(IF LastHolder(e, v) THEN "FunctionDeleted"
                                              ELSE "FunctionEndpointDetached", e, NoEnv, v)
                                 : v \in HeldBy(e)}))
    BY DEF PurgeCascade
  <2> QED  BY <2>1, <2>2, <2>3
<1> QED  BY <1>1, <1>2, <1>5, <1>6, <1>7, <1>8

LEMMA PurgeCascadeTypes ==
  ASSUME FleetTypes, NEW e \in Endpoints, PurgeCascade(e)
  PROVE  SaysOnly(JobTypes \cup RemovalTypes) /\ FleetTypes'
<1>0. PipeOK /\ JobsOK /\ FleetOK
  BY TypesAre
<1>1. PICK js, vs : AppendAll(js \o vs) /\ OfTypes(js, {"JobFailed"}) /\ OfTypes(vs, RemovalTypes)
  BY CascadeSays
<1>2. OfTypes(js, JobTypes \cup RemovalTypes) /\ OfTypes(vs, JobTypes \cup RemovalTypes)
  BY <1>1, TypeSets DEF OfTypes
<1>3. OfTypes(js \o vs, JobTypes \cup RemovalTypes)
  BY <1>2, BothSaid
<1>4. SaysOnly(JobTypes \cup RemovalTypes)
  BY <1>0, <1>1, <1>3, AppendSays DEF PurgeCascade
<1>5. PipeOK'
  BY <1>0, <1>4, SaysTypes DEF PurgeCascade, Tried, Command, PipeOK
<1>6. WrittenOff(e) \subseteq Jobs /\ {<<"functions", v>> : v \in HeldBy(e)} \subseteq Streams
  BY DEF WrittenOff, HeldBy, Streams
<1>7. FleetOK'
  BY <1>0, <1>6 DEF PurgeCascade, FleetOK
<1>8. JobsOK'
  BY <1>0 DEF PurgeCascade, JobsOK
<1> QED  BY <1>4, <1>5, <1>7, <1>8, TypesAre

LEMMA TypesInit == VemInit => FleetTypes
<1> SUFFICES ASSUME VemInit  PROVE FleetTypes
  OBVIOUS
<1>0. PICK past \in {"none", "registered", "deleted"} :
        /\ view = [endpoints |-> [e \in Endpoints |-> [known |-> TRUE, status |-> "running",
                                                       ve |-> Launch[e], bind |-> TRUE]],
                   functions |-> [v \in Versions |->
                     IF v = 1 /\ past \in {"registered", "deleted"}
                     THEN [known |-> TRUE, holders |-> Endpoints, deleted |-> past = "deleted",
                           container |-> "none", ve |-> Launch[Leader]]
                     ELSE NoFunction],
                   jobs |-> [j \in Jobs |-> NoJob],
                   leaders |-> [v \in Envs |-> IF Launch[Leader] = v THEN Leader ELSE Nobody]]
        /\ stored = [e \in Endpoints |-> IF past = "registered" THEN {1} ELSE {}]
  BY DEF VemInit
<1>1. Launch \in [Endpoints -> Envs \cup {NoEnv}] /\ Leader \in Endpoints /\ 1 \in Versions
  BY FleetAssumption, ReadModelAssumption DEF Versions
<1>2. view.endpoints \in [Endpoints -> EndpointDocs]
  BY <1>0, <1>1 DEF EndpointDocs
<1>3. view.functions \in [Versions -> FunctionDocs]
  <2> PICK del : del = (past = "deleted")
    OBVIOUS
  <2>1. del \in BOOLEAN /\ Endpoints \in SUBSET Endpoints /\ {} \in SUBSET Endpoints
    OBVIOUS
  <2> PICK doc : doc = [known |-> TRUE, holders |-> Endpoints, deleted |-> del,
                        container |-> "none", ve |-> Launch[Leader]]
    OBVIOUS
  <2>2. doc \in FunctionDocs /\ NoFunction \in FunctionDocs
    BY <1>1, <2>1 DEF NoFunction, FunctionDocs
  <2>3. view.functions = [v \in Versions |-> IF v = 1 /\ past \in {"registered", "deleted"}
                                             THEN doc ELSE NoFunction]
    BY <1>0
  <2> QED  BY <2>2, <2>3
<1>4. view.jobs \in [Jobs -> JobDocs]
  <2>1. NoJob \in JobDocs
    BY DEF NoJob, JobDocs
  <2>2. view.jobs = [j \in Jobs |-> NoJob]
    BY <1>0
  <2> QED  BY <2>1, <2>2
<1>5. view.leaders \in [Envs -> Endpoints \cup {Nobody}]
  BY <1>0, <1>1
<1>6. view = [endpoints |-> view.endpoints, functions |-> view.functions, jobs |-> view.jobs,
              leaders |-> view.leaders]
  BY <1>0
<1>7. view \in Views
  BY <1>2, <1>3, <1>4, <1>5, <1>6, ViewsAre
<1>8. stored \in [Endpoints -> SUBSET Versions]
  BY <1>0, <1>1
<1>9. <<>> \in Seq(Events) /\ Len(<<>>) = 0
  OBVIOUS
<1>10. PipeOK
  BY <1>7, <1>9, PipelineAssumption DEF VemInit, PipeOK
<1>11. FleetOK
  BY <1>1, <1>8 DEF VemInit, FleetOK
<1>12. JobsOK
  <2>1. Unsent \in JobRecords /\ Unsent.state = "unsent" /\ Unsent.at = Nobody /\ ~Unsent.moved
    BY DEF Unsent, JobRecords
  <2>2. job = [j \in Jobs |-> Unsent]
    BY DEF VemInit
  <2> QED  BY <2>1, <2>2 DEF JobsOK
<1> QED  BY <1>10, <1>11, <1>12
         DEF FleetTypes, VemTypeOK, Consistent, PipeOK, JobsOK, FleetOK, JobRecords

LEMMA TypesStep ==
  ASSUME FleetTypes, [VemNext]_vemVars
  PROVE  FleetTypes'
<1>0. PipeOK /\ JobsOK /\ FleetOK
  BY TypesAre
<1>1. CASE EndpointStep
  BY <1>1, BootTypes, ElectTypes, MetricsTypes, StopTypes, CrashTypes, ReplicateTypes, RetireTypes,
     RefuseTypes, DeployFailsTypes, StartTypes, ForwardTypes, FinishTypes DEF EndpointStep
<1>2. CASE VemStep
  BY <1>2, PingTypes, PurgeCascadeTypes, AssignTypes, VerdictTypes, RegisterTypes, PurgeRemoveTypes,
     DeleteTypes, PurgeVersionTypes, SubmitTypes DEF VemStep
<1>3. CASE PipeNext /\ UNCHANGED fleetVars
  <2>1. PipeOK'
    BY <1>0, <1>3, PipeTypes
  <2>2. FleetOK' /\ JobsOK'
    BY <1>0, <1>3 DEF fleetVars, FleetOK, JobsOK
  <2> QED  BY <2>1, <2>2, TypesAre
<1>4. CASE UNCHANGED vemVars
  <2>1. PipeOK' /\ JobsOK' /\ FleetOK'
    BY <1>0, <1>4 DEF vemVars, PipeOK, JobsOK, FleetOK
  <2> QED  BY <2>1, TypesAre
<1> QED  BY <1>1, <1>2, <1>3, <1>4 DEF VemNext

\* Documents, frames and records are always of their types, within the bounds, and the
\* projector is never past the end of the log, whatever is lost, repeated or replayed;
\* frames are of the endpoint that sends them and submitted jobs have a place.
THEOREM FleetInvariant == VemSpec => []FleetTypes
<1>1. VemInit => FleetTypes
  BY TypesInit
<1>2. FleetTypes /\ [VemNext]_vemVars => FleetTypes'
  BY TypesStep
<1> QED  BY <1>1, <1>2, PTL DEF VemSpec

\* VemTypeOK holds for any number of endpoints, environments, jobs and versions.
THEOREM VemTypes == VemSpec => []VemTypeOK
<1>1. FleetTypes => VemTypeOK
  BY DEF FleetTypes
<1> QED  BY <1>1, FleetInvariant, PTL

-----------------------------------------------------------------------------
(* What no step of the fleet does *)

FleetKeeps ==
  /\ view'.leaders = view.leaders /\ view'.jobs = view.jobs
  /\ purged \subseteq purged' /\ lost \subseteq lost' /\ tombs \subseteq tombs' /\ reused \subseteq reused'
  /\ \A e \in Endpoints : e \notin purged' => view'.endpoints[e] = view.endpoints[e]

LEMMA FleetKept ==
  ASSUME FleetTypes, EndpointStep \/ VemStep
  PROVE  FleetKeeps
<1>0. PipeOK /\ JobsOK /\ FleetOK
  BY TypesAre
<1> DEFINE Same == UNCHANGED <<view, purged, tombs>> /\ lost \subseteq lost' /\ reused \subseteq reused'
<1>1. Same => FleetKeeps
  BY DEF FleetKeeps
<1>2. ASSUME NEW e \in Endpoints, Boot(e) \/ Elect(e) \/ Metrics(e) \/ Replicate(e)  PROVE Same
  BY <1>2 DEF Boot, Elect, Metrics, Replicate, fleetVars
<1>3. ASSUME NEW e \in Endpoints, Stop(e) \/ Crash(e)  PROVE Same
  BY <1>3 DEF Stop, Crash, GoneDown
<1>4. ASSUME NEW e \in Endpoints, NEW v \in Versions, Retire(e, v)  PROVE Same
  BY <1>4 DEF Retire
<1>5. ASSUME NEW j \in Jobs, Refuse(j) \/ DeployFails(j) \/ Start(j)  PROVE Same
  BY <1>5 DEF Refuse, DeployFails, Start
<1>6. ASSUME NEW j \in Jobs, NEW e \in Endpoints, Forward(j, e)  PROVE Same
  BY <1>6 DEF Forward
<1>7. ASSUME NEW j \in Jobs, NEW ok \in BOOLEAN, Finish(j, ok)  PROVE Same
  BY <1>7 DEF Finish
<1>8. ASSUME NEW e \in Endpoints, Ping(e)  PROVE Same
  BY <1>8 DEF Ping
<1>9. ASSUME NEW e \in Endpoints, PurgeCascade(e)  PROVE FleetKeeps
  BY <1>9 DEF PurgeCascade, FleetKeeps
<1>10. ASSUME NEW e \in Endpoints, NEW v \in Envs \cup {NoEnv}, Assign(e, v)  PROVE Same
  BY <1>10 DEF Assign
<1>11. CASE Verdict
  BY <1>1, <1>11 DEF Verdict
<1>12. CASE Register
  <2>1. reused' \in {reused, reused \cup {NextVersion}}
    BY <1>12 DEF Register
  <2> QED  BY <1>1, <1>12, <2>1 DEF Register
<1>13. CASE PurgeRemove
  <2>1. purge \in Endpoints /\ view \in Views
    BY <1>0, <1>13 DEF FleetOK, PipeOK, PurgeRemove
  <2>2. /\ view'.endpoints = [view.endpoints EXCEPT ![purge] = NoEndpoint]
        /\ view'.leaders = view.leaders /\ view'.jobs = view.jobs
    BY <1>13, <2>1, NoEndpointPut DEF PurgeRemove
  <2>3. view.endpoints \in [Endpoints -> EndpointDocs]
    BY <2>1, ViewsAre
  <2> QED  BY <1>13, <2>2, <2>3 DEF PurgeRemove, FleetKeeps
<1>14. ASSUME NEW v \in Versions, Delete(v)  PROVE Same
  BY <1>14 DEF Delete
<1>15. ASSUME NEW v \in Versions, PurgeVersion(v)  PROVE FleetKeeps
  <2>1. view'.endpoints = view.endpoints /\ view'.leaders = view.leaders /\ view'.jobs = view.jobs
    BY <1>0, <1>15, NoFunctionPut DEF PurgeVersion, PipeOK
  <2> QED  BY <1>15, <2>1 DEF PurgeVersion, FleetKeeps
<1>16. ASSUME NEW j \in Jobs, NEW e \in Endpoints, NEW v \in Versions, Submit(j, e, v)  PROVE Same
  BY <1>16 DEF Submit
<1> HIDE DEF Same
<1>17. CASE EndpointStep
  BY <1>1, <1>2, <1>3, <1>4, <1>5, <1>6, <1>7, <1>17 DEF EndpointStep
<1>18. CASE VemStep
  BY <1>1, <1>8, <1>9, <1>10, <1>11, <1>12, <1>13, <1>14, <1>15, <1>16, <1>18 DEF VemStep
<1> QED  BY <1>17, <1>18

\* A pipeline step applies a record or leaves the documents alone.
Applied == log[failed + 1]

LEMMA AppliedIs ==
  ASSUME PipeOK, Project \/ ProjectUnmarked
  PROVE  /\ Applied \in Events /\ view' = Apply(view, Applied)
         /\ failed \in Nat /\ failed < Len(log) /\ Has(log, {Applied})
<1>1. log \in Seq(Events) /\ failed \in Nat /\ failed < Len(log) /\ view' = Apply(view, Applied)
  BY DEF Project, ProjectUnmarked, PipeOK, Applied
<1>2. Applied \in Events /\ failed + 1 \in 1 .. Len(log)
  BY <1>1, RestParts DEF Applied
<1> QED  BY <1>1, <1>2 DEF Has, Applied

LEMMA PipeCases ==
  ASSUME PipeNext
  PROVE  (Project \/ ProjectUnmarked) \/ view' = view
  BY DEF PipeNext, Ingest, IngestTwice, IngestGivesUp, ProjectFails, Resubscribe

-----------------------------------------------------------------------------
(* Watched *)

LEMMA WatchedInit == VemInit => Watched
  BY DEF VemInit, Watched

LEMMA WatchedStep ==
  ASSUME FleetTypes, Watched, [VemNext]_vemVars
  PROVE  Watched'
<1>0. PipeOK /\ JobsOK /\ FleetOK
  BY TypesAre
<1>1. CASE EndpointStep \/ VemStep
  BY <1>1, FleetKept DEF FleetKeeps, Watched
<1>2. CASE view' = view /\ purged' = purged
  BY <1>2 DEF Watched
<1>3. CASE (Project \/ ProjectUnmarked) /\ UNCHANGED fleetVars
  <2>1. Applied \in Events /\ view' = Apply(view, Applied) /\ view \in Views /\ purged' = purged
    BY <1>0, <1>3, AppliedIs DEF PipeOK, fleetVars
  <2>2. CASE Applied \in OfEndpoint
    <3> PICK x : x = Applied.ep
      OBVIOUS
    <3>1. x \in Endpoints /\ view.endpoints \in [Endpoints -> EndpointDocs] /\ view.endpoints[x] \in EndpointDocs
      BY <2>1, ViewsAre, EventKinds
    <3> PICK doc : doc = ApplyEndpoint(view.endpoints[x], Applied)
      OBVIOUS
    <3>2. view'.endpoints = [view.endpoints EXCEPT ![x] = doc]
      BY <2>1, <2>2, ApplyAsEndpoint
    <3>3. doc.known /\ (view.endpoints[x].bind => doc.bind)
          /\ (view.endpoints[x].status # "none" => doc.status # "none")
      BY <2>2, <3>1, ApplyEndpointIs
    <3> QED  BY <2>1, <3>1, <3>2, <3>3 DEF Watched
  <2>3. CASE Applied \in OfFunction \cup OfJob \cup OfLeader
    <3>1. view'.endpoints = view.endpoints
      BY <2>1, <2>3, ApplyAsFunction, ApplyAsJob, ApplyAsLeader
    <3> QED  BY <2>1, <3>1 DEF Watched
  <2> QED  BY <2>1, <2>2, <2>3, EventKinds
<1>4. CASE PipeNext /\ UNCHANGED fleetVars
  BY <1>2, <1>3, <1>4, PipeCases DEF fleetVars
<1>5. CASE UNCHANGED vemVars
  BY <1>2, <1>5 DEF vemVars
<1> QED  BY <1>1, <1>4, <1>5 DEF VemNext

\* UnwatchedIsExplained: a document the liveness worker cannot look at (_check skips it
\* without status or router_bind) is of an endpoint that was purged.
THEOREM UnwatchedAlwaysExplained == VemSpec => []UnwatchedIsExplained
<1>1. VemInit => Watched
  BY WatchedInit
<1>2. FleetTypes /\ Watched /\ [VemNext]_vemVars => Watched'
  BY WatchedStep
<1>3. Watched => UnwatchedIsExplained
  BY DEF Watched, UnwatchedIsExplained
<1> QED  BY <1>1, <1>2, <1>3, FleetInvariant, PTL DEF VemSpec

-----------------------------------------------------------------------------
(* What a step does to events that are due *)

\* Nobody but x has events of B under way on its wire.
OnlyFrom(x, B) == \A y \in Endpoints : y # x => ~Has(wire[y], B)
NoneOf(B, T) == \A ev \in B : ev.type \notin T
NoneLost(G) == \A ev \in G : ev \in Events /\ StreamOf(ev) \notin lost'

LEMMA NotSaid ==
  ASSUME NEW s, NEW T, OfTypes(s, T), NEW B, NoneOf(B, T)
  PROVE  ~Has(s, B)
  BY DEF Has, OfTypes, NoneOf

\* Events that are not in B are published by one endpoint, or appended.
SaysOutside(B) ==
  /\ \E e \in Endpoints : \E us \in Seq(Events) :
       wire' = [wire EXCEPT ![e] = wire[e] \o us] /\ ~Has(us, B)
  /\ \E vs \in Seq(Events) : log' = log \o vs /\ ~Has(vs, B)

LEMMA OnlyIsOutside ==
  ASSUME NEW T, SaysOnly(T), NEW B, NoneOf(B, T)
  PROVE  SaysOutside(B)
<1>1. PICK e \in Endpoints : \E us : wire' = [wire EXCEPT ![e] = wire[e] \o us] /\ OfTypes(us, T)
  BY DEF SaysOnly
<1>2. PICK us : wire' = [wire EXCEPT ![e] = wire[e] \o us] /\ OfTypes(us, T)
  BY <1>1
<1>3. PICK vs : log' = log \o vs /\ OfTypes(vs, T)
  BY DEF SaysOnly
<1>4. us \in Seq(Events) /\ vs \in Seq(Events) /\ ~Has(us, B) /\ ~Has(vs, B)
  BY <1>2, <1>3, NotSaid DEF OfTypes
<1> QED  BY <1>2, <1>3, <1>4 DEF SaysOutside

LEMMA PublishOutside ==
  ASSUME PipeOK, NEW e \in Endpoints, NEW us \in Seq(Events), Publish(e, us), log' = log, NEW B, ~Has(us, B)
  PROVE  SaysOutside(B)
<1>1. wire' = [wire EXCEPT ![e] = wire[e] \o us]
  BY DEF Publish
<1>2. log \o <<>> = log /\ <<>> \in Seq(Events)
  BY NothingSaid DEF PipeOK
<1>3. ~Has(<<>>, B)
  BY DEF Has
<1> QED  BY <1>1, <1>2, <1>3 DEF SaysOutside

LEMMA AppendOutside ==
  ASSUME PipeOK, NEW vs \in Seq(Events), AppendAll(vs), wire' = wire, NEW B, ~Has(vs, B)
  PROVE  SaysOutside(B)
<1>1. log' = log \o vs
  BY DEF AppendAll
<1>2. Leader \in Endpoints /\ wire[Leader] \in Seq(Events)
  BY FleetAssumption DEF PipeOK
<1>3. wire[Leader] \o <<>> = wire[Leader] /\ <<>> \in Seq(Events)
  BY <1>2, NothingSaid
<1>4. wire' = [wire EXCEPT ![Leader] = wire[Leader] \o <<>>]
  BY <1>2, <1>3 DEF PipeOK
<1>5. ~Has(<<>>, B)
  BY DEF Has
<1> QED  BY <1>1, <1>2, <1>3, <1>4, <1>5 DEF SaysOutside

LEMMA SettledOutside ==
  ASSUME PipeOK, NEW x \in Endpoints, NEW B, NEW G, SaysOutside(B)
  PROVE  /\ Settled(wire[x], log, B, G) => Settled(wire'[x], log', B, G)
         /\ Due(wire[x], log, G) => Due(wire'[x], log', G)
         /\ ~Has(log, B) => ~Has(log', B)
         /\ ~Has(wire[x], B) => ~Has(wire'[x], B)
         /\ Has(log, G) => Has(log', G)
         /\ Has(wire[x], G) => Has(wire'[x], G)
<1>1. PICK e \in Endpoints : \E us \in Seq(Events) :
        wire' = [wire EXCEPT ![e] = wire[e] \o us] /\ ~Has(us, B)
  BY DEF SaysOutside
<1>2. PICK us \in Seq(Events) : wire' = [wire EXCEPT ![e] = wire[e] \o us] /\ ~Has(us, B)
  BY <1>1
<1>3. PICK vs \in Seq(Events) : log' = log \o vs /\ ~Has(vs, B)
  BY DEF SaysOutside
<1>5. wire[x] \in Seq(Events) /\ log \in Seq(Events) /\ wire'[x] = IF x = e THEN wire[x] \o us ELSE wire[x]
  BY <1>2 DEF PipeOK
<1> PICK w : w = wire'[x]
  OBVIOUS
<1>6. /\ Answered(wire[x], B, G) => Answered(w, B, G)
      /\ Has(wire[x], G) => Has(w, G)
      /\ ~Has(wire[x], B) => ~Has(w, B)
  <2>1. CASE x = e
    <3>1. w = wire[x] \o us
      BY <1>5, <2>1
    <3> QED  BY <1>2, <1>5, <3>1, HasConcat, AnsweredConcat
  <2>2. CASE x # e
    BY <1>5, <2>2
  <2> QED  BY <2>1, <2>2
<1>7. /\ Answered(log, B, G) => Answered(log', B, G)
      /\ Has(log, G) => Has(log', G)
      /\ ~Has(log, B) => ~Has(log', B)
  BY <1>3, <1>5, HasConcat, AnsweredConcat
<1> QED  BY <1>6, <1>7 DEF Settled, Due

LEMMA SettledSays ==
  ASSUME PipeOK, NEW T, SaysOnly(T), NEW x \in Endpoints, NEW B, NEW G, NoneOf(B, T)
  PROVE  /\ Settled(wire[x], log, B, G) => Settled(wire'[x], log', B, G)
         /\ Due(wire[x], log, G) => Due(wire'[x], log', G)
         /\ ~Has(log, B) => ~Has(log', B)
         /\ ~Has(wire[x], B) => ~Has(wire'[x], B)
  BY OnlyIsOutside, SettledOutside

\* A crash clears a wire of which nothing of G is.
LEMMA SettledCrash ==
  ASSUME PipeOK, NEW e \in Endpoints, Crash(e), NEW x \in Endpoints, NEW B, NEW G, NoneLost(G)
  PROVE  /\ Settled(wire[x], log, B, G) => Settled(wire'[x], log', B, G)
         /\ Due(wire[x], log, G) => Due(wire'[x], log', G)
<1>1. log' = log /\ wire'[x] = IF x = e THEN <<>> ELSE wire[x]
  BY DEF Crash, GoneDown, PipeOK
<1>2. CASE x = e
  <2>1. \A i \in 1 .. Len(wire[e]) : StreamOf(wire[e][i]) \in lost'
    BY DEF Crash, PipeOK
  <2>2. ~Has(wire[x], G)
    BY <1>2, <2>1 DEF Has, NoneLost
  <2>3. wire'[x] = <<>>
    BY <1>1, <1>2
  <2> QED  BY <1>1, <2>2, <2>3, SettledClear
<1> QED  BY <1>1, <1>2

LEMMA SettledPipe ==
  ASSUME PipeOK, PipeNext, NEW x \in Endpoints, NEW B, NEW G, B \cap G = {}, OnlyFrom(x, B), NoneLost(G)
  PROVE  /\ Settled(wire[x], log, B, G) => Settled(wire'[x], log', B, G)
         /\ Due(wire[x], log, G) => Due(wire'[x], log', G) \/ (Project /\ Applied \in G)
         /\ Settled(wire[x], log, B, G) /\ (Project \/ ProjectUnmarked) /\ Applied \in B =>
              Due(wire'[x], log', G)
<1>0. wire[x] \in Seq(Events) /\ log \in Seq(Events)
  BY DEF PipeOK
<1>1. ASSUME NEW e \in Endpoints, Ingest(e) \/ IngestTwice(e)
      PROVE  /\ Settled(wire[x], log, B, G) => Settled(wire'[x], log', B, G)
             /\ Due(wire[x], log, G) => Due(wire'[x], log', G)
  <2>1. wire[e] # <<>> /\ log' = Append(log, wire[e][1]) /\ (wire' = [wire EXCEPT ![e] = Tail(wire[e])] \/ wire' = wire)
    BY <1>1 DEF Ingest, IngestTwice, Frame, Taken
  <2>2. CASE x = e
    <3>1. wire'[x] = Tail(wire[x]) \/ wire'[x] = wire[x]
      BY <2>1, <2>2 DEF PipeOK
    <3> QED  BY <1>0, <2>1, <2>2, <3>1, SettledIngest
  <2>3. CASE x # e
    <3>1. wire'[x] = wire[x]
      BY <2>1, <2>3 DEF PipeOK
    <3> PICK f : f = wire[e][1]
      OBVIOUS
    <3>2. wire[e] \in Seq(Events) /\ f \in Events /\ 1 \in 1 .. Len(wire[e])
      BY <2>1, TailParts DEF PipeOK
    <3>3. f \notin B
      BY <2>3, <3>2 DEF OnlyFrom, Has
    <3> QED  BY <1>0, <2>1, <3>1, <3>2, <3>3, SettledOther
  <2> QED  BY <2>2, <2>3
<1>2. ASSUME NEW e \in Endpoints, IngestGivesUp(e)
      PROVE  /\ Settled(wire[x], log, B, G) => Settled(wire'[x], log', B, G)
             /\ Due(wire[x], log, G) => Due(wire'[x], log', G)
  <2>1. wire[e] # <<>> /\ log' = log /\ wire' = [wire EXCEPT ![e] = Tail(wire[e])] /\ StreamOf(wire[e][1]) \in lost'
    BY <1>2 DEF IngestGivesUp, Frame, Taken
  <2>2. CASE x = e
    <3>1. wire'[x] = Tail(wire[x]) /\ wire[x][1] \notin G
      BY <2>1, <2>2 DEF PipeOK, NoneLost
    <3> QED  BY <1>0, <2>1, <2>2, <3>1, SettledDrop
  <2>3. CASE x # e
    <3>1. wire'[x] = wire[x]
      BY <2>1, <2>3 DEF PipeOK
    <3> QED  BY <2>1, <3>1
  <2> QED  BY <2>2, <2>3
<1>3. CASE Project
  <2>1. /\ failed \in Nat /\ failed < Len(log) /\ wire' = wire
        /\ log' = SubSeq(log, failed + 2, Len(log)) /\ \A i \in 1 .. failed : StreamOf(log[i]) \in lost'
    BY <1>3 DEF Project, PipeOK
  <2>2. ~HadFirst(log, failed, G)
    BY <2>1 DEF HadFirst, NoneLost
  <2>3. /\ Settled(wire[x], log, B, G) => Settled(wire[x], log', B, G) /\ (Applied \in B => Due(wire[x], log', G))
        /\ Due(wire[x], log, G) /\ Applied \notin G /\ ~HadFirst(log, failed, G) => Due(wire[x], log', G)
    BY <1>0, <2>1, SettledProject DEF Applied
  <2> QED  BY <1>3, <2>1, <2>2, <2>3
<1>4. CASE ProjectUnmarked
  <2>1. failed \in Nat /\ failed < Len(log) /\ wire' = wire /\ log' = log
    BY <1>4 DEF ProjectUnmarked, PipeOK
  <2>2. Settled(wire[x], log, B, G) => (Applied \in B => Due(wire[x], log, G))
    BY <1>0, <2>1, SettledProject DEF Applied
  <2> QED  BY <2>1, <2>2
<1>5. ASSUME ProjectFails \/ Resubscribe  PROVE wire' = wire /\ log' = log
  BY <1>5 DEF ProjectFails, Resubscribe
<1> QED  BY <1>1, <1>2, <1>3, <1>4, <1>5 DEF PipeNext

-----------------------------------------------------------------------------
(* LeaderInv *)

WrongLeader == \E v \in Envs : view.leaders[v] \notin {Leader, Nobody}
LeaderDue(e) == ~LeaderKnown(e) \/ Due(wire[e], log, Corrected(e))
LeaderSettled(e) == LeaderKnown(e) => Settled(wire[e], log, Misled(e), Corrected(e))

LEMMA LeaderInvIs ==
  /\ LeaderInv <=> (\A e \in Endpoints : LeaderSettled(e)) /\ (WrongLeader => \E e \in Endpoints : LeaderDue(e))
  /\ LeaderInv' <=> (\A e \in Endpoints : LeaderSettled(e)') /\ (WrongLeader' => \E e \in Endpoints : LeaderDue(e)')
  BY DEF LeaderInv, WrongLeader, LeaderDue, LeaderSettled

\* If an endpoint's word is known after the step, none of it was lost.
LEMMA CorrectedKept ==
  ASSUME NEW e \in Endpoints, LeaderKnown(e)'
  PROVE  NoneLost(Corrected(e))
<1>1. \A ev \in Corrected(e) : ev \in Events /\ ev.type \in LeaderTypes /\ ev.ep = e
  BY DEF Corrected
<1>2. \A ev \in Corrected(e) : StreamOf(ev) = <<"consensus", e>>
  BY <1>1, StreamOfEvent
<1> QED  BY <1>1, <1>2 DEF NoneLost, LeaderKnown

LEMMA MisledFacts ==
  ASSUME NEW e \in Endpoints
  PROVE  /\ Misled(e) \cap Corrected(e) = {}
         /\ \A T : T \cap LeaderTypes = {} => NoneOf(Misled(e), T)
         /\ PipeOK => OnlyFrom(e, Misled(e))
<1>1. \A ev \in Misled(e) : ev.ep = e /\ ev.type \in LeaderTypes /\ ev.leader # Leader
  BY DEF Misled
<1>2. Misled(e) \cap Corrected(e) = {}
  BY DEF Misled, Corrected
<1>3. \A T : T \cap LeaderTypes = {} => NoneOf(Misled(e), T)
  BY <1>1 DEF NoneOf
<1>4. PipeOK => OnlyFrom(e, Misled(e))
  BY <1>1 DEF PipeOK, OnlyFrom, Has
<1> QED  BY <1>2, <1>3, <1>4

\* A step that changes neither what was elected nor the flags, and keeps what is due.
LEMMA LeaderFrame ==
  ASSUME LeaderInv, elected' = elected, lost \subseteq lost', view'.leaders = view.leaders,
         \A e \in Endpoints : LeaderKnown(e)' =>
           /\ Settled(wire[e], log, Misled(e), Corrected(e)) => Settled(wire'[e], log', Misled(e), Corrected(e))
           /\ Due(wire[e], log, Corrected(e)) => Due(wire'[e], log', Corrected(e))
  PROVE  LeaderInv'
<1>1. \A e \in Endpoints : LeaderKnown(e)' => LeaderKnown(e)
  BY DEF LeaderKnown
<1>2. \A e \in Endpoints : LeaderSettled(e)'
  BY <1>1, LeaderInvIs DEF LeaderSettled
<1>3. \A e \in Endpoints : LeaderDue(e) => LeaderDue(e)'
  BY <1>1 DEF LeaderDue
<1>4. WrongLeader' => WrongLeader
  BY DEF WrongLeader
<1> QED  BY <1>2, <1>3, <1>4, LeaderInvIs

LEMMA LeaderSays ==
  ASSUME PipeOK, LeaderInv, NEW T, SaysOnly(T), T \cap LeaderTypes = {}, FleetKeeps, elected' = elected
  PROVE  LeaderInv'
<1>1. ASSUME NEW e \in Endpoints
      PROVE  /\ Settled(wire[e], log, Misled(e), Corrected(e)) => Settled(wire'[e], log', Misled(e), Corrected(e))
             /\ Due(wire[e], log, Corrected(e)) => Due(wire'[e], log', Corrected(e))
  <2>1. NoneOf(Misled(e), T)
    BY MisledFacts
  <2> QED  BY <2>1, SettledSays
<1> QED  BY <1>1, LeaderFrame DEF FleetKeeps

LEMMA LeaderCrash ==
  ASSUME PipeOK, LeaderInv, NEW x \in Endpoints, Crash(x), FleetKeeps
  PROVE  LeaderInv'
<1>1. ASSUME NEW e \in Endpoints, LeaderKnown(e)'
      PROVE  /\ Settled(wire[e], log, Misled(e), Corrected(e)) => Settled(wire'[e], log', Misled(e), Corrected(e))
             /\ Due(wire[e], log, Corrected(e)) => Due(wire'[e], log', Corrected(e))
  BY <1>1, CorrectedKept, SettledCrash
<1>2. elected' = elected
  BY DEF Crash, GoneDown
<1> QED  BY <1>1, <1>2, LeaderFrame DEF FleetKeeps

\* A restarted endpoint elects itself, so its last word is still to come.
LEMMA LeaderBoot ==
  ASSUME PipeOK, FleetOK, LeaderInv, NEW x \in Endpoints, Boot(x)
  PROVE  LeaderInv'
<1>1. elected' = [elected EXCEPT ![x] = x] /\ x # Leader /\ log' = log /\ lost' = lost
  BY DEF Boot, FleetOK
<1>2. ~LeaderKnown(x)'
  BY <1>1 DEF LeaderKnown, FleetOK
<1>3. ASSUME NEW e \in Endpoints, e # x  PROVE wire'[e] = wire[e] /\ elected'[e] = elected[e]
  BY <1>1, <1>3 DEF Boot, Publish, PipeOK, FleetOK
<1>4. \A e \in Endpoints : LeaderSettled(e)'
  BY <1>1, <1>2, <1>3, LeaderInvIs DEF LeaderSettled, LeaderKnown
<1>5. LeaderDue(x)'
  BY <1>2 DEF LeaderDue
<1> QED  BY <1>4, <1>5, LeaderInvIs

LEMMA LeaderElect ==
  ASSUME PipeOK, FleetOK, LeaderInv, NEW x \in Endpoints, Elect(x)
  PROVE  LeaderInv'
<1> PICK b : b = LeaderEvent(x, Leader)
  OBVIOUS
<1>1. elected' = [elected EXCEPT ![x] = Leader] /\ log' = log /\ lost' = lost /\ wire' = [wire EXCEPT ![x] = wire[x] \o <<b>>]
  BY DEF Elect, Publish
<1>2. b \in Events /\ b.type \in LeaderTypes /\ b.ep = x /\ b.leader = Leader
  BY FleetAssumption, LeaderEventIs, TypeSets
<1>3. b \in Corrected(x) /\ b \notin Misled(x)
  BY <1>2 DEF Corrected, Misled
<1>4. <<b>> \in Seq(Events) /\ Len(<<b>>) = 1 /\ <<b>>[1] = b
  BY <1>2
<1>5. Has(<<b>>, Corrected(x)) /\ ~Has(<<b>>, Misled(x))
  BY <1>3, <1>4 DEF Has
<1>6. wire[x] \in Seq(Events) /\ log \in Seq(Events) /\ wire'[x] = wire[x] \o <<b>>
  BY <1>1 DEF PipeOK
<1>7. Settled(wire'[x], log', Misled(x), Corrected(x)) /\ Due(wire'[x], log', Corrected(x))
  BY <1>1, <1>4, <1>5, <1>6, SettledPublish
<1>8. ASSUME NEW e \in Endpoints, e # x  PROVE wire'[e] = wire[e] /\ elected'[e] = elected[e]
  BY <1>1, <1>8 DEF PipeOK, FleetOK
<1>9. \A e \in Endpoints : LeaderSettled(e)'
  BY <1>1, <1>7, <1>8, LeaderInvIs DEF LeaderSettled, LeaderKnown
<1>10. LeaderDue(x)'
  BY <1>7 DEF LeaderDue
<1> QED  BY <1>9, <1>10, LeaderInvIs

LEMMA LostGrows ==
  ASSUME PipeNext
  PROVE  lost \subseteq lost'
  BY DEF PipeNext, Ingest, IngestTwice, IngestGivesUp, Project, ProjectUnmarked, ProjectFails, Resubscribe

LEMMA LeaderPipe ==
  ASSUME PipeOK, LeaderInv, PipeNext, elected' = elected
  PROVE  LeaderInv'
<1>0. \A e \in Endpoints : (LeaderKnown(e)' => LeaderKnown(e))
  BY LostGrows DEF LeaderKnown
<1>1. ASSUME NEW e \in Endpoints, LeaderKnown(e)'
      PROVE  /\ Settled(wire[e], log, Misled(e), Corrected(e)) => Settled(wire'[e], log', Misled(e), Corrected(e))
             /\ Due(wire[e], log, Corrected(e)) =>
                  Due(wire'[e], log', Corrected(e)) \/ (Project /\ Applied \in Corrected(e))
             /\ Settled(wire[e], log, Misled(e), Corrected(e)) /\ (Project \/ ProjectUnmarked)
                  /\ Applied \in Misled(e) => Due(wire'[e], log', Corrected(e))
  <2>1. NoneLost(Corrected(e)) /\ Misled(e) \cap Corrected(e) = {} /\ OnlyFrom(e, Misled(e))
    BY <1>1, CorrectedKept, MisledFacts
  <2> QED  BY <2>1, SettledPipe
<1>2. \A e \in Endpoints : LeaderSettled(e)'
  BY <1>0, <1>1, LeaderInvIs DEF LeaderSettled
<1>3. ASSUME view'.leaders = view.leaders, ~(Project /\ Applied \in OfLeader)  PROVE LeaderInv'
  <2>1. \A e \in Endpoints : Corrected(e) \subseteq OfLeader
    BY EventKinds DEF Corrected
  <2>2. \A e \in Endpoints : LeaderDue(e) => LeaderDue(e)'
    BY <1>0, <1>1, <1>3, <2>1 DEF LeaderDue
  <2>3. WrongLeader' => WrongLeader
    BY <1>3 DEF WrongLeader
  <2> QED  BY <1>2, <2>2, <2>3, LeaderInvIs
<1>4. CASE Project \/ ProjectUnmarked
  <2>1. Applied \in Events /\ view' = Apply(view, Applied) /\ view \in Views
    BY <1>4, AppliedIs DEF PipeOK
  <2>2. CASE Applied \in OfEndpoint \cup OfFunction \cup OfJob
    <3>1. view'.leaders = view.leaders
      BY <2>1, <2>2, ApplyAsEndpoint, ApplyAsFunction, ApplyAsJob
    <3>2. Applied \notin OfLeader
      BY <2>1, <2>2, EventKinds, TypeSets
    <3> QED  BY <1>3, <3>1, <3>2
  <2>3. CASE Applied \in OfLeader
    <3> PICK x : x = Applied.ep
      OBVIOUS
    <3>1. x \in Endpoints /\ Applied.type \in LeaderTypes /\ \A v \in Envs : view'.leaders[v] \in {Applied.leader, Nobody}
      BY <2>1, <2>3, ApplyAsLeader, EventKinds
    <3>2. ASSUME WrongLeader'  PROVE LeaderDue(x)'
      <4>1. Applied.leader # Leader
        BY <3>1, <3>2 DEF WrongLeader
      <4>2. Applied \in Misled(x)
        BY <2>1, <3>1, <4>1 DEF Misled
      <4> QED  BY <1>0, <1>1, <1>4, <3>1, <4>2, LeaderInvIs DEF LeaderDue, LeaderSettled
    <3> QED  BY <1>2, <3>1, <3>2, LeaderInvIs
  <2> QED  BY <2>1, <2>2, <2>3, EventKinds
<1>5. CASE ~(Project \/ ProjectUnmarked)
  <2>1. view' = view
    BY <1>5, PipeCases
  <2> QED  BY <1>3, <1>5, <2>1
<1> QED  BY <1>4, <1>5

LEMMA LeaderInitial == VemInit => LeaderInv
<1> SUFFICES ASSUME VemInit  PROVE LeaderInv
  OBVIOUS
<1>1. log = <<>> /\ \A e \in Endpoints : wire[e] = <<>>
  BY DEF VemInit
<1>2. \A e \in Endpoints : Settled(wire[e], log, Misled(e), Corrected(e))
  BY <1>1 DEF Settled, Answered
<1>3. \A v \in Envs : view.leaders[v] \in {Leader, Nobody}
  BY DEF VemInit
<1> QED  BY <1>2, <1>3 DEF LeaderInv

\* No event of the types in K is published or appended.
SaysNone(K) == \E T : SaysOnly(T) /\ T \cap K = {}

LEMMA DisjointTypes ==
  /\ EndpointTypes \cap LeaderTypes = {} /\ FunctionTypes \cap LeaderTypes = {}
  /\ JobTypes \cap LeaderTypes = {} /\ RemovalTypes \cap LeaderTypes = {}
  /\ EndpointTypes \cap JobTypes = {} /\ FunctionTypes \cap JobTypes = {}
  /\ LeaderTypes \cap JobTypes = {} /\ RemovalTypes \cap JobTypes = {}
  /\ EndpointTypes \cap RemovalTypes = {} /\ FunctionTypes \cap RemovalTypes = {}
  /\ LeaderTypes \cap RemovalTypes = {} /\ JobTypes \cap RemovalTypes = {}
  BY TypeSets

LEMMA LeaderOthers ==
  ASSUME FleetTypes, EndpointStep \/ VemStep,
         \A e \in Endpoints : ~Boot(e) /\ ~Elect(e) /\ ~Crash(e)
  PROVE  SaysNone(LeaderTypes) /\ elected' = elected
<1>1. ASSUME NEW e \in Endpoints, Metrics(e) \/ Stop(e)
      PROVE  SaysNone(LeaderTypes) /\ elected' = elected
  BY <1>1, MetricsTypes, StopTypes, DisjointTypes DEF Metrics, Stop, GoneDown, fleetVars, SaysNone
<1>2. ASSUME NEW e \in Endpoints, Replicate(e)
      PROVE  SaysNone(LeaderTypes) /\ elected' = elected
  BY <1>2, ReplicateTypes, DisjointTypes DEF Replicate, SaysNone
<1>3. ASSUME NEW e \in Endpoints, NEW v \in Versions, Retire(e, v)
      PROVE  SaysNone(LeaderTypes) /\ elected' = elected
  BY <1>3, RetireTypes, DisjointTypes DEF Retire, SaysNone
<1>4. ASSUME NEW j \in Jobs, Refuse(j)
      PROVE  SaysNone(LeaderTypes) /\ elected' = elected
  <2>1. SaysOnly({}) /\ {} \cap LeaderTypes = {}
    BY <1>4, RefuseTypes
  <2>2. elected' = elected
    BY <1>4 DEF Refuse
  <2> QED  BY <2>1, <2>2 DEF SaysNone
<1>5. ASSUME NEW j \in Jobs, DeployFails(j) \/ Start(j)
      PROVE  SaysNone(LeaderTypes) /\ elected' = elected
  BY <1>5, DeployFailsTypes, StartTypes, DisjointTypes DEF DeployFails, Start, SaysNone
<1>6. ASSUME NEW j \in Jobs, NEW e \in Endpoints, Forward(j, e)
      PROVE  SaysNone(LeaderTypes) /\ elected' = elected
  BY <1>6, ForwardTypes, DisjointTypes DEF Forward, SaysNone
<1>7. ASSUME NEW j \in Jobs, NEW ok \in BOOLEAN, Finish(j, ok)
      PROVE  SaysNone(LeaderTypes) /\ elected' = elected
  <2>1. SaysOnly(FunctionTypes \cup JobTypes) /\ (FunctionTypes \cup JobTypes) \cap LeaderTypes = {}
    BY <1>7, FinishTypes, DisjointTypes
  <2>2. elected' = elected
    BY <1>7 DEF Finish
  <2> QED  BY <2>1, <2>2 DEF SaysNone
<1>8. ASSUME NEW e \in Endpoints, Ping(e)
      PROVE  SaysNone(LeaderTypes) /\ elected' = elected
  BY <1>8, PingTypes DEF Ping, SaysNone
<1>9. ASSUME NEW e \in Endpoints, PurgeCascade(e)
      PROVE  SaysNone(LeaderTypes) /\ elected' = elected
  BY <1>9, PurgeCascadeTypes, DisjointTypes DEF PurgeCascade, SaysNone
<1>10. ASSUME NEW e \in Endpoints, NEW v \in Envs \cup {NoEnv}, Assign(e, v)
       PROVE  SaysNone(LeaderTypes) /\ elected' = elected
  BY <1>10, AssignTypes, DisjointTypes DEF Assign, SaysNone
<1>11. ASSUME Verdict \/ Register
       PROVE  SaysNone(LeaderTypes) /\ elected' = elected
  BY <1>11, VerdictTypes, RegisterTypes, DisjointTypes DEF Verdict, Register, SaysNone
<1>12. ASSUME PurgeRemove
       PROVE  SaysNone(LeaderTypes) /\ elected' = elected
  BY <1>12, PurgeRemoveTypes DEF PurgeRemove, SaysNone
<1>13. ASSUME NEW v \in Versions, Delete(v) \/ PurgeVersion(v)
       PROVE  SaysNone(LeaderTypes) /\ elected' = elected
  BY <1>13, DeleteTypes, PurgeVersionTypes, DisjointTypes DEF Delete, PurgeVersion, SaysNone
<1>14. ASSUME NEW j \in Jobs, NEW e \in Endpoints, NEW v \in Versions, Submit(j, e, v)
       PROVE  SaysNone(LeaderTypes) /\ elected' = elected
  BY <1>14, SubmitTypes, DisjointTypes DEF Submit, SaysNone
<1>15. CASE EndpointStep
  BY <1>1, <1>2, <1>3, <1>4, <1>5, <1>6, <1>7, <1>15 DEF EndpointStep
<1>16. CASE VemStep
  BY <1>8, <1>9, <1>10, <1>11, <1>12, <1>13, <1>14, <1>16 DEF VemStep
<1> QED  BY <1>15, <1>16

LEMMA LeaderStep ==
  ASSUME FleetTypes, LeaderInv, [VemNext]_vemVars
  PROVE  LeaderInv'
<1>0. PipeOK /\ JobsOK /\ FleetOK
  BY TypesAre
<1>1. ASSUME NEW e \in Endpoints, Boot(e) \/ Elect(e) \/ Crash(e)  PROVE LeaderInv'
  <2>1. FleetKeeps
    BY <1>1, FleetKept DEF EndpointStep
  <2> QED  BY <1>0, <1>1, <2>1, LeaderBoot, LeaderElect, LeaderCrash
<1>2. ASSUME EndpointStep \/ VemStep, \A e \in Endpoints : ~Boot(e) /\ ~Elect(e) /\ ~Crash(e)
      PROVE  LeaderInv'
  <2>1. SaysNone(LeaderTypes) /\ elected' = elected /\ FleetKeeps
    BY <1>2, LeaderOthers, FleetKept
  <2> QED  BY <1>0, <2>1, LeaderSays DEF SaysNone
<1>3. CASE PipeNext /\ UNCHANGED fleetVars
  BY <1>0, <1>3, LeaderPipe DEF fleetVars
<1>4. CASE UNCHANGED vemVars
  BY <1>4 DEF vemVars, LeaderInv, LeaderKnown
<1> QED  BY <1>1, <1>2, <1>3, <1>4 DEF VemNext

\* LeaderShownRight: once every endpoint has last elected the leader and everything
\* under way has been applied, no other endpoint is flagged (_apply_leader_change), for
\* any number of restarts, repeated frames and replayed records.
THEOREM LeaderAlwaysShownRight == VemSpec => []LeaderShownRight
<1>1. VemInit => LeaderInv
  BY LeaderInitial
<1>2. FleetTypes /\ LeaderInv /\ [VemNext]_vemVars => LeaderInv'
  BY LeaderStep
<1>3. LeaderInv => LeaderShownRight
  <2> SUFFICES ASSUME LeaderInv, Quiet, \A e \in Endpoints : elected[e] = Leader /\ <<"consensus", e>> \notin lost
               PROVE  \A v \in Envs : view.leaders[v] \in {Leader, Nobody}
    BY DEF LeaderShownRight
  <2>1. \A e \in Endpoints : ~Has(wire[e], Corrected(e)) /\ ~Has(log, Corrected(e))
    BY DEF Quiet, Has
  <2>2. \A e \in Endpoints : LeaderKnown(e) /\ ~Due(wire[e], log, Corrected(e))
    BY <2>1 DEF LeaderKnown, Due
  <2> QED  BY <2>2 DEF LeaderInv
<1> QED  BY <1>1, <1>2, <1>3, FleetInvariant, PTL DEF VemSpec

-----------------------------------------------------------------------------
(* FunctionInv *)

LEMMA AfootPipe ==
  ASSUME PipeOK, PipeNext, NEW A, Afoot(A)'
  PROVE  Afoot(A)
<1>0. log \in Seq(Events) /\ \A x \in Endpoints : wire[x] \in Seq(Events)
  BY DEF PipeOK
<1>1. ASSUME NEW e \in Endpoints, Ingest(e) \/ IngestTwice(e) \/ IngestGivesUp(e)  PROVE Afoot(A)
  <2> PICK f : f = wire[e][1]
    OBVIOUS
  <2>1. /\ wire[e] # <<>> /\ (log' = Append(log, f) \/ log' = log)
        /\ (wire' = [wire EXCEPT ![e] = Tail(wire[e])] \/ wire' = wire)
    BY <1>1 DEF Ingest, IngestTwice, IngestGivesUp, Frame, Taken
  <2>2. f \in Events /\ (Has(wire[e], A) <=> f \in A \/ Has(Tail(wire[e]), A))
    BY <1>0, <2>1, TailParts, HasTail
  <2>3. Has(log', A) => Has(log, A) \/ f \in A
    <3>1. Has(Append(log, f), A) <=> Has(log, A) \/ f \in A
      BY <1>0, <2>2, HasAppend
    <3> QED  BY <2>1, <3>1
  <2>4. \A x \in Endpoints : wire'[x] = wire[x] \/ (x = e /\ wire'[x] = Tail(wire[e]))
    BY <2>1 DEF PipeOK
  <2> QED  BY <2>2, <2>3, <2>4 DEF Afoot
<1>2. CASE Project
  <2>1. failed \in Nat /\ failed < Len(log) /\ wire' = wire /\ log' = SubSeq(log, failed + 2, Len(log))
    BY <1>2 DEF Project, PipeOK
  <2>2. Has(log', A) => Has(log, A)
    BY <1>0, <2>1, HasRest
  <2> QED  BY <2>1, <2>2 DEF Afoot
<1>3. CASE ProjectUnmarked \/ ProjectFails \/ Resubscribe
  BY <1>3 DEF ProjectUnmarked, ProjectFails, Resubscribe, Afoot
<1> QED  BY <1>1, <1>2, <1>3 DEF PipeNext

LEMMA AfootSays ==
  ASSUME PipeOK, NEW T, SaysOnly(T), NEW A, NoneOf(A, T), Afoot(A)'
  PROVE  Afoot(A)
<1>1. \A x \in Endpoints : ~Has(wire[x], A) => ~Has(wire'[x], A)
  BY SettledSays
<1>2. ~Has(log, A) => ~Has(log', A)
  BY FleetAssumption, SettledSays
<1> QED  BY <1>1, <1>2 DEF Afoot

LEMMA AfootCrash ==
  ASSUME PipeOK, NEW e \in Endpoints, Crash(e), NEW A, Afoot(A)'
  PROVE  Afoot(A)
<1>1. log' = log /\ \A x \in Endpoints : wire'[x] = wire[x] \/ wire'[x] = <<>>
  BY DEF Crash, GoneDown, PipeOK
<1>2. ~Has(<<>>, A)
  BY DEF Has
<1> QED  BY <1>1, <1>2 DEF Afoot

\* Version v is being removed only once the leader has deleted it; the leader's version
\* is shown.
Excused(v) == v \in reused \/ <<"functions", v>> \in purged
Gone(v) == v \notin stored[Leader] /\ (view.functions[v].known \/ <<"functions", v>> \in tombs)
ShownHeld(v) == view.functions[v].known /\ Leader \in view.functions[v].holders
HeldDue(v) == Due(wire[Leader], log, Holding(v))
RemovedByLeader(v) == view.functions[v].deleted \/ Afoot(Removal(v)) => Excused(v) \/ Gone(v)
Registered(v) == v \in stored[Leader] /\ ~Excused(v) /\ <<"functions", v>> \notin lost =>
                   ShownHeld(v) \/ HeldDue(v)

LEMMA FunctionInvIs ==
  /\ FunctionInv <=> \A v \in Versions : RemovedByLeader(v) /\ Registered(v)
  /\ FunctionInv' <=> \A v \in Versions : RemovedByLeader(v)' /\ Registered(v)'
  BY DEF FunctionInv, RemovedByLeader, Registered, Removing, Excused, Gone, ShownHeld, HeldDue

LEMMA HoldingKept ==
  ASSUME NEW v \in Versions, <<"functions", v>> \notin lost'
  PROVE  NoneLost(Holding(v))
<1>1. \A ev \in Holding(v) : ev \in Events /\ ev.type \in FunctionTypes \cup RemovalTypes /\ ev.version = v
  BY DEF Holding
<1>2. \A ev \in Holding(v) : StreamOf(ev) = <<"functions", v>>
  BY <1>1, StreamOfEvent
<1> QED  BY <1>1, <1>2 DEF NoneLost

LEMMA NoRemoval ==
  ASSUME NEW v \in Versions, NEW T, T \cap RemovalTypes = {}
  PROVE  NoneOf(Removal(v), T)
  BY DEF NoneOf, Removal

\* What is due to be shown stays so whatever is said.
LEMMA HeldSays ==
  ASSUME PipeOK, NEW T, SaysOnly(T), NEW v \in Versions, HeldDue(v)
  PROVE  HeldDue(v)'
<1>1. NoneOf({}, T)
  BY DEF NoneOf
<1>2. Due(wire[Leader], log, Holding(v)) => Due(wire'[Leader], log', Holding(v))
  BY <1>1, FleetAssumption, SettledSays
<1> QED  BY <1>2 DEF HeldDue

\* A step that leaves the function documents and the leader's registry alone.
LEMMA FunctionFrame ==
  ASSUME FunctionInv, FleetKeeps, view'.functions = view.functions, stored'[Leader] = stored[Leader],
         NEW v \in Versions, Afoot(Removal(v))' => Afoot(Removal(v)) \/ Excused(v)',
         HeldDue(v) => HeldDue(v)'
  PROVE  RemovedByLeader(v)' /\ Registered(v)'
<1>1. RemovedByLeader(v) /\ Registered(v)
  BY FunctionInvIs
<1>2. (Excused(v) => Excused(v)') /\ (Gone(v) => Gone(v)') /\ (ShownHeld(v) => ShownHeld(v)')
  BY DEF FleetKeeps, Excused, Gone, ShownHeld
<1>3. <<"functions", v>> \in lost => <<"functions", v>> \in lost'
  BY DEF FleetKeeps
<1>4. view'.functions[v].deleted <=> view.functions[v].deleted
  OBVIOUS
<1>5. RemovedByLeader(v)'
  BY <1>1, <1>2, <1>4 DEF RemovedByLeader
<1>6. Registered(v)'
  BY <1>1, <1>2, <1>3 DEF Registered
<1> QED  BY <1>5, <1>6

LEMMA FunctionSays ==
  ASSUME PipeOK, FunctionInv, FleetKeeps, SaysNone(RemovalTypes), view'.functions = view.functions,
         stored'[Leader] = stored[Leader]
  PROVE  FunctionInv'
<1>1. PICK T : SaysOnly(T) /\ T \cap RemovalTypes = {}
  BY DEF SaysNone
<1>2. ASSUME NEW v \in Versions  PROVE RemovedByLeader(v)' /\ Registered(v)'
  <2>1. Afoot(Removal(v))' => Afoot(Removal(v))
    BY <1>1, NoRemoval, AfootSays
  <2>2. HeldDue(v) => HeldDue(v)'
    BY <1>1, HeldSays
  <2> QED  BY <2>1, <2>2, FunctionFrame
<1> QED  BY <1>2, FunctionInvIs

LEMMA FunctionCrash ==
  ASSUME PipeOK, FleetOK, FunctionInv, FleetKeeps, NEW e \in Endpoints, Crash(e)
  PROVE  FunctionInv'
<1>1. e # Leader /\ view' = view /\ log' = log /\ stored'[Leader] = stored[Leader] /\ wire'[Leader] = wire[Leader]
  BY FleetAssumption DEF Crash, GoneDown, PipeOK, FleetOK
<1>2. ASSUME NEW v \in Versions  PROVE RemovedByLeader(v)' /\ Registered(v)'
  <2>1. Afoot(Removal(v))' => Afoot(Removal(v))
    BY AfootCrash
  <2>2. HeldDue(v) => HeldDue(v)'
    BY <1>1 DEF HeldDue
  <2> QED  BY <1>1, <2>1, <2>2, FunctionFrame
<1> QED  BY <1>2, FunctionInvIs

\* PurgeCascade removes versions it has written off.
LEMMA FunctionCascade ==
  ASSUME FleetTypes, PipeOK, FunctionInv, FleetKeeps, NEW e \in Endpoints, PurgeCascade(e)
  PROVE  FunctionInv'
<1>0. log \in Seq(Events) /\ view' = view /\ stored' = stored /\ wire' = wire
  BY DEF PipeOK, PurgeCascade
<1>1. PICK js, vs : \E fj \in [WrittenOff(e) -> Events], fv \in [HeldBy(e) -> Events] :
           /\ AppendAll(js \o vs)
           /\ OfTypes(js, {"JobFailed"}) /\ OfTypes(vs, RemovalTypes)
           /\ Lists(js, fj) /\ \A j \in WrittenOff(e) : fj[j].job = j
           /\ Lists(vs, fv) /\ \A v \in HeldBy(e) : fv[v].version = v
  BY CascadeSays
<1>2. PICK fv \in [HeldBy(e) -> Events] :
           /\ AppendAll(js \o vs)
           /\ OfTypes(js, {"JobFailed"}) /\ OfTypes(vs, RemovalTypes)
           /\ Lists(vs, fv) /\ \A v \in HeldBy(e) : fv[v].version = v
  BY <1>1
<1>3. js \in Seq(Events) /\ vs \in Seq(Events) /\ js \o vs \in Seq(Events) /\ log' = log \o (js \o vs)
  BY <1>2, ConcatParts DEF OfTypes, AppendAll
<1>4. ASSUME NEW v \in Versions  PROVE RemovedByLeader(v)' /\ Registered(v)'
  <2>1. ~Has(js, Removal(v))
    <3>1. NoneOf(Removal(v), {"JobFailed"})
      BY TypeSets, NoRemoval
    <3> QED  BY <1>2, <3>1, NotSaid
  <2>2. Has(vs, Removal(v)) => v \in HeldBy(e)
    BY <1>2 DEF Has, Lists, Removal
  <2>3. v \in HeldBy(e) => Excused(v)'
    BY DEF PurgeCascade, Excused
  <2>4. Has(log', Removal(v)) => Has(log, Removal(v)) \/ Has(js, Removal(v)) \/ Has(vs, Removal(v))
    BY <1>0, <1>3, HasConcat
  <2>5. Afoot(Removal(v))' => Afoot(Removal(v)) \/ Excused(v)'
    BY <1>0, <2>1, <2>2, <2>3, <2>4 DEF Afoot
  <2>6. HeldDue(v) => HeldDue(v)'
    BY PurgeCascadeTypes, HeldSays
  <2> QED  BY <1>0, <2>5, <2>6, FunctionFrame
<1> QED  BY <1>4, FunctionInvIs

\* A version registered again shows that it was removed; a new one is under way.
LEMMA FunctionRegister ==
  ASSUME FleetTypes, PipeOK, FleetOK, FunctionInv, FleetKeeps, Register
  PROVE  FunctionInv'
<1> PICK n : n = NextVersion
  OBVIOUS
<1> PICK b : b = FunctionEvent("FunctionRegistered", Leader, env[Leader], n)
  OBVIOUS
<1>1. /\ n \in Versions /\ Leader \in Endpoints /\ env[Leader] \in Envs \cup {NoEnv}
      /\ view' = view /\ log' = log /\ stored' = [stored EXCEPT ![Leader] = stored[Leader] \cup {n}]
      /\ reused' = IF view.functions[n].known \/ <<"functions", n>> \in tombs THEN reused \cup {n} ELSE reused
      /\ wire' = [wire EXCEPT ![Leader] = wire[Leader] \o <<b>>]
  BY FleetAssumption DEF Register, Publish, FleetOK
<1>2. \A v \in Versions : v \in stored'[Leader] => v = n \/ v \in stored[Leader]
  BY <1>1 DEF FleetOK
<1>3. ASSUME NEW v \in Versions  PROVE /\ Afoot(Removal(v))' => Afoot(Removal(v))
                                       /\ HeldDue(v) => HeldDue(v)'
  <2>1. NoneOf(Removal(v), FunctionTypes)
    BY DisjointTypes, NoRemoval
  <2> QED  BY <2>1, RegisterTypes, AfootSays, HeldSays
<1>4. b \in Events /\ b.type = "FunctionRegistered" /\ b.ep = Leader /\ b.version = n
  BY <1>1, FunctionEventIs, TypeSets
<1>5. HeldDue(n)'
  <2>1. b \in Holding(n)
    BY <1>4, TypeSets DEF Holding
  <2>2. <<b>> \in Seq(Events) /\ Len(<<b>>) = 1 /\ <<b>>[1] = b
    BY <1>4
  <2>3. Has(<<b>>, Holding(n))
    BY <2>1, <2>2 DEF Has
  <2>4. wire[Leader] \in Seq(Events) /\ wire'[Leader] = wire[Leader] \o <<b>>
    BY <1>1 DEF PipeOK
  <2>5. Has(wire'[Leader], Holding(n))
    <3>1. Has(wire[Leader] \o <<b>>, Holding(n))
      BY <2>2, <2>3, <2>4, HasConcat
    <3> QED  BY <2>4, <3>1
  <2> QED  BY <2>5 DEF HeldDue, Due
<1>6. ASSUME NEW v \in Versions  PROVE RemovedByLeader(v)'
  <2>1. /\ view'.functions[v].deleted \/ Afoot(Removal(v))' => view.functions[v].deleted \/ Afoot(Removal(v))
        /\ Excused(v) => Excused(v)'
        /\ Gone(v) => Gone(v)' \/ Excused(v)'
    <3>1. view'.functions[v].deleted \/ Afoot(Removal(v))' => view.functions[v].deleted \/ Afoot(Removal(v))
      BY <1>1, <1>3
    <3>2. Excused(v) => Excused(v)'
      BY DEF FleetKeeps, Excused
    <3>3. CASE v = n
      <4>1. Gone(v) => v \in reused'
        BY <1>1, <3>3 DEF Gone
      <4> QED  BY <3>1, <3>2, <4>1 DEF Excused
    <3>4. CASE v # n
      <4>1. Gone(v) => Gone(v)'
        BY <1>1, <1>2, <3>4 DEF Gone, FleetKeeps
      <4> QED  BY <3>1, <3>2, <4>1
    <3> QED  BY <3>3, <3>4
  <2> QED  BY <2>1, FunctionInvIs DEF RemovedByLeader
<1>7. ASSUME NEW v \in Versions  PROVE Registered(v)'
  <2>1. CASE v = n
    BY <1>5, <2>1 DEF Registered
  <2>2. CASE v # n
    <3>1. /\ v \in stored'[Leader] => v \in stored[Leader]
          /\ Excused(v) => Excused(v)'
          /\ ShownHeld(v) => ShownHeld(v)'
          /\ <<"functions", v>> \in lost => <<"functions", v>> \in lost'
      BY <1>1, <1>2, <2>2 DEF FleetKeeps, Excused, ShownHeld
    <3> QED  BY <1>3, <3>1, FunctionInvIs DEF Registered
  <2> QED  BY <2>1, <2>2
<1> QED  BY <1>6, <1>7, FunctionInvIs

\* DeleteFunctionUseCase needs a document, which stays.
LEMMA FunctionDelete ==
  ASSUME FleetTypes, PipeOK, FleetOK, FunctionInv, FleetKeeps, NEW n \in Versions, Delete(n)
  PROVE  FunctionInv'
<1> PICK b : b = FunctionEvent("FunctionDeleted", Leader, env[Leader], n)
  OBVIOUS
<1>1. /\ Leader \in Endpoints /\ env[Leader] \in Envs \cup {NoEnv}
      /\ view' = view /\ log' = log /\ stored' = [stored EXCEPT ![Leader] = stored[Leader] \ {n}]
      /\ wire' = [wire EXCEPT ![Leader] = wire[Leader] \o <<b>>] /\ view.functions[n].known
  BY FleetAssumption DEF Delete, MayDelete, Publish, FleetOK
<1>2. b \in Events /\ b.version = n
  BY <1>1, FunctionEventIs, TypeSets
<1>3. \A v \in Versions : v \in stored'[Leader] <=> v # n /\ v \in stored[Leader]
  BY <1>1 DEF FleetOK
<1>4. ASSUME NEW v \in Versions, v # n, Afoot(Removal(v))'  PROVE Afoot(Removal(v))
  <2>1. <<b>> \in Seq(Events) /\ Len(<<b>>) = 1 /\ <<b>>[1] = b /\ b \notin Removal(v)
    BY <1>2, <1>4 DEF Removal
  <2>2. ~Has(<<b>>, Removal(v))
    BY <2>1 DEF Has
  <2>3. Has(wire[Leader] \o <<b>>, Removal(v)) => Has(wire[Leader], Removal(v))
    BY <1>1, <2>1, <2>2, HasConcat DEF PipeOK
  <2>4. \A x \in Endpoints : Has(wire'[x], Removal(v)) => Has(wire[x], Removal(v))
    BY <1>1, <2>3 DEF PipeOK
  <2> QED  BY <1>1, <1>4, <2>4 DEF Afoot
<1>5. ASSUME NEW v \in Versions  PROVE RemovedByLeader(v)'
  <2>1. CASE v = n
    <3>1. Gone(v)'
      BY <1>1, <1>3, <2>1 DEF Gone
    <3> QED  BY <3>1 DEF RemovedByLeader
  <2>2. CASE v # n
    <3>1. /\ view'.functions[v].deleted => view.functions[v].deleted
          /\ Excused(v) => Excused(v)'
          /\ Gone(v) => Gone(v)'
      BY <1>1, <1>3, <2>2 DEF FleetKeeps, Excused, Gone
    <3> QED  BY <1>4, <2>2, <3>1, FunctionInvIs DEF RemovedByLeader
  <2> QED  BY <2>1, <2>2
<1>6. ASSUME NEW v \in Versions  PROVE Registered(v)'
  <2>1. /\ v \in stored'[Leader] => v \in stored[Leader]
        /\ Excused(v) => Excused(v)'
        /\ ShownHeld(v) => ShownHeld(v)'
        /\ <<"functions", v>> \in lost => <<"functions", v>> \in lost'
    BY <1>1, <1>3 DEF FleetKeeps, Excused, ShownHeld
  <2>2. HeldDue(v) => HeldDue(v)'
    BY DeleteTypes, HeldSays
  <2> QED  BY <2>1, <2>2, FunctionInvIs DEF Registered
<1> QED  BY <1>5, <1>6, FunctionInvIs

\* The document that goes is of a version that is deleted, and leaves a tombstone.
LEMMA FunctionPurge ==
  ASSUME FleetTypes, PipeOK, FunctionInv, FleetKeeps, NEW n \in Versions, PurgeVersion(n)
  PROVE  FunctionInv'
<1>1. view'.functions = [view.functions EXCEPT ![n] = NoFunction] /\ view.functions \in [Versions -> FunctionDocs]
  BY NoFunctionPut, ViewsAre DEF PurgeVersion, PipeOK
<1>2. stored' = stored /\ <<"functions", n>> \in tombs' /\ view.functions[n].deleted
  BY DEF PurgeVersion
<1>3. view'.functions[n] = NoFunction /\ \A v \in Versions : v # n => view'.functions[v] = view.functions[v]
  BY <1>1
<1>4. ASSUME NEW v \in Versions
      PROVE  /\ Afoot(Removal(v))' => Afoot(Removal(v))
             /\ HeldDue(v) => HeldDue(v)'
             /\ Excused(v) => Excused(v)'
             /\ Gone(v) => Gone(v)'
             /\ <<"functions", v>> \in lost => <<"functions", v>> \in lost'
  <2>1. Afoot(Removal(v))' => Afoot(Removal(v))
    BY DEF PurgeVersion, Afoot
  <2>2. HeldDue(v) => HeldDue(v)'
    BY DEF PurgeVersion, HeldDue
  <2>3. Gone(v) => Gone(v)'
    BY <1>2, <1>3 DEF FleetKeeps, Gone
  <2> QED  BY <2>1, <2>2, <2>3 DEF FleetKeeps, Excused
<1>5. ASSUME NEW v \in Versions  PROVE RemovedByLeader(v)'
  <2>1. view'.functions[v].deleted => view.functions[v].deleted
    BY <1>2, <1>3
  <2> QED  BY <1>4, <2>1, FunctionInvIs DEF RemovedByLeader
<1>6. ASSUME NEW v \in Versions  PROVE Registered(v)'
  <2>1. CASE v = n
    <3>1. Excused(n) \/ n \notin stored[Leader]
      BY <1>2, FunctionInvIs DEF RemovedByLeader, Gone
    <3> QED  BY <1>2, <1>4, <2>1, <3>1 DEF Registered
  <2>2. CASE v # n
    <3>1. ShownHeld(v) => ShownHeld(v)'
      BY <1>3, <2>2 DEF ShownHeld
    <3> QED  BY <1>2, <1>4, <3>1, FunctionInvIs DEF Registered
  <2> QED  BY <2>1, <2>2
<1> QED  BY <1>5, <1>6, FunctionInvIs

\* What applying a record does to the document of version v.
LEMMA FunctionApplied ==
  ASSUME PipeOK, Project \/ ProjectUnmarked, NEW v \in Versions
  PROVE  /\ view'.functions[v].deleted => view.functions[v].deleted \/ Afoot(Removal(v))
         /\ view.functions[v].known => view'.functions[v].known
         /\ ShownHeld(v) => ShownHeld(v)' \/ Afoot(Removal(v))
         /\ Applied \in Holding(v) => ShownHeld(v)'
<1>1. Applied \in Events /\ view' = Apply(view, Applied) /\ view \in Views /\ Has(log, {Applied})
  BY AppliedIs DEF PipeOK
<1>2. CASE Applied \in OfFunction
  <2> PICK u : u = Applied.version
    OBVIOUS
  <2> PICK doc : doc = view.functions[u]
    OBVIOUS
  <2> PICK new : new = IF Applied.type \in FunctionTypes THEN ApplyFunction(doc, Applied) ELSE ApplyRemoval(doc, Applied)
    OBVIOUS
  <2>1. /\ u \in Versions /\ Applied.type \in FunctionTypes \cup RemovalTypes
        /\ view.functions \in [Versions -> FunctionDocs] /\ doc \in FunctionDocs
    BY <1>1, <1>2, ViewsAre DEF OfFunction
  <2>2. view'.functions = [view.functions EXCEPT ![u] = new]
    BY <1>1, <1>2, ApplyAsFunction
  <2>3. v # u => view'.functions[v] = view.functions[v]
    BY <2>1, <2>2
  <2>4. v = u => view'.functions[v] = new /\ view.functions[v] = doc
    BY <2>1, <2>2
  <2>5. Applied \in Holding(v) => v = u /\ Applied.type \in FunctionTypes /\ Applied.ep = Leader
    BY DEF Holding
  <2>6. CASE Applied.type \in FunctionTypes
    <3>1. new.known /\ (new.deleted = doc.deleted) /\ new.holders = doc.holders \cup {Applied.ep}
      BY <1>2, <2>1, <2>6, ApplyFunctionIs
    <3>2. v = u /\ ShownHeld(v) => ShownHeld(v)'
      BY <2>4, <3>1 DEF ShownHeld
    <3>3. Applied \in Holding(v) => ShownHeld(v)'
      BY <2>4, <2>5, <3>1 DEF ShownHeld
    <3>4. v # u /\ ShownHeld(v) => ShownHeld(v)'
      BY <2>3 DEF ShownHeld
    <3> QED  BY <2>3, <2>4, <3>1, <3>2, <3>3, <3>4
  <2>7. CASE Applied.type \notin FunctionTypes
    <3>1. doc.known => new.known
      BY <1>2, <2>1, <2>7, ApplyRemovalIs
    <3>2. v = u => Applied \in Removal(v)
      BY <1>1, <2>1, <2>7 DEF Removal
    <3>3. v = u => Afoot(Removal(v))
      BY <1>1, <3>2 DEF Afoot, Has
    <3>4. v # u /\ ShownHeld(v) => ShownHeld(v)'
      BY <2>3 DEF ShownHeld
    <3> QED  BY <2>3, <2>4, <2>5, <2>7, <3>1, <3>3, <3>4
  <2> QED  BY <2>6, <2>7
<1>3. CASE Applied \in OfEndpoint \cup OfJob \cup OfLeader
  <2>1. view'.functions = view.functions
    BY <1>1, <1>3, ApplyAsEndpoint, ApplyAsJob, ApplyAsLeader
  <2>2. Applied \notin Holding(v)
    BY <1>1, <1>3, EventKinds, TypeSets DEF Holding
  <2> QED  BY <2>1, <2>2 DEF ShownHeld
<1> QED  BY <1>1, <1>2, <1>3, EventKinds

LEMMA FunctionPipe ==
  ASSUME PipeOK, FunctionInv, PipeNext, UNCHANGED fleetVars
  PROVE  FunctionInv'
<1>0. /\ lost \subseteq lost' /\ tombs' = tombs /\ stored' = stored /\ reused' = reused /\ purged' = purged
  BY LostGrows DEF fleetVars, PipeNext, Ingest, IngestTwice, IngestGivesUp, Project, ProjectUnmarked,
                   ProjectFails, Resubscribe
<1>1. ASSUME NEW v \in Versions
      PROVE  /\ view'.functions[v].deleted => view.functions[v].deleted \/ Afoot(Removal(v))
             /\ view.functions[v].known => view'.functions[v].known
             /\ ShownHeld(v) => ShownHeld(v)' \/ Afoot(Removal(v))
             /\ Project /\ Applied \in Holding(v) => ShownHeld(v)'
  <2>1. CASE Project \/ ProjectUnmarked
    BY <2>1, FunctionApplied
  <2>2. CASE ~(Project \/ ProjectUnmarked)
    <3>1. view' = view
      BY <2>2, PipeCases
    <3> QED  BY <2>2, <3>1 DEF ShownHeld
  <2> QED  BY <2>1, <2>2
<1>2. ASSUME NEW v \in Versions, <<"functions", v>> \notin lost', HeldDue(v)
      PROVE  HeldDue(v)' \/ (Project /\ Applied \in Holding(v))
  <2>1. NoneLost(Holding(v)) /\ {} \cap Holding(v) = {} /\ OnlyFrom(Leader, {})
    BY <1>2, HoldingKept DEF OnlyFrom, Has
  <2>2. Due(wire[Leader], log, Holding(v)) =>
          Due(wire'[Leader], log', Holding(v)) \/ (Project /\ Applied \in Holding(v))
    BY <2>1, FleetAssumption, SettledPipe
  <2> QED  BY <1>2, <2>2 DEF HeldDue
<1>3. ASSUME NEW v \in Versions  PROVE RemovedByLeader(v)'
  <2>1. Afoot(Removal(v))' => Afoot(Removal(v))
    BY AfootPipe
  <2>2. (Excused(v) => Excused(v)') /\ (Gone(v) => Gone(v)')
    BY <1>0, <1>1 DEF Excused, Gone
  <2> QED  BY <1>1, <2>1, <2>2, FunctionInvIs DEF RemovedByLeader
<1>4. ASSUME NEW v \in Versions  PROVE Registered(v)'
  <2> SUFFICES ASSUME v \in stored'[Leader], ~Excused(v)', <<"functions", v>> \notin lost'
               PROVE  ShownHeld(v)' \/ HeldDue(v)'
    BY DEF Registered
  <2>1. v \in stored[Leader] /\ ~Excused(v) /\ <<"functions", v>> \notin lost
    BY <1>0 DEF Excused
  <2>2. ShownHeld(v) \/ HeldDue(v)
    BY <2>1, FunctionInvIs DEF Registered
  <2>3. ~Afoot(Removal(v))
    BY <2>1, FunctionInvIs DEF RemovedByLeader, Gone
  <2> QED  BY <1>1, <1>2, <2>2, <2>3
<1> QED  BY <1>3, <1>4, FunctionInvIs

\* At first version 1 is shown as it is, and no other.
ShownAs(past, v) ==
  IF v = 1 /\ past \in {"registered", "deleted"}
  THEN ShownHeld(v) /\ (view.functions[v].deleted <=> past = "deleted")
  ELSE ~view.functions[v].deleted

LEMMA InitialFunctions ==
  ASSUME VemInit
  PROVE  \E past \in {"none", "registered", "deleted"} :
           /\ stored[Leader] = IF past = "registered" THEN {1} ELSE {}
           /\ \A v \in Versions : ShownAs(past, v)
<1>0. PICK past \in {"none", "registered", "deleted"} :
        /\ view = [endpoints |-> [e \in Endpoints |-> [known |-> TRUE, status |-> "running",
                                                       ve |-> Launch[e], bind |-> TRUE]],
                   functions |-> [v \in Versions |->
                     IF v = 1 /\ past \in {"registered", "deleted"}
                     THEN [known |-> TRUE, holders |-> Endpoints, deleted |-> past = "deleted",
                           container |-> "none", ve |-> Launch[Leader]]
                     ELSE NoFunction],
                   jobs |-> [j \in Jobs |-> NoJob],
                   leaders |-> [v \in Envs |-> IF Launch[Leader] = v THEN Leader ELSE Nobody]]
        /\ stored = [e \in Endpoints |-> IF past = "registered" THEN {1} ELSE {}]
  BY DEF VemInit
<1> PICK del : del = (past = "deleted")
  OBVIOUS
<1> PICK doc : doc = [known |-> TRUE, holders |-> Endpoints, deleted |-> del,
                      container |-> "none", ve |-> Launch[Leader]]
  OBVIOUS
<1>1. view.functions = [v \in Versions |-> IF v = 1 /\ past \in {"registered", "deleted"} THEN doc ELSE NoFunction]
  BY <1>0
<1>2. doc.known /\ Leader \in doc.holders /\ (doc.deleted <=> past = "deleted")
  BY FleetAssumption
<1>3. ASSUME NEW v \in Versions  PROVE ShownAs(past, v)
  <2>1. CASE v = 1 /\ past \in {"registered", "deleted"}
    <3>1. view.functions[v] = doc
      BY <1>1, <2>1
    <3> QED  BY <1>2, <2>1, <3>1 DEF ShownAs, ShownHeld
  <2>2. CASE ~(v = 1 /\ past \in {"registered", "deleted"})
    <3>1. view.functions[v] = NoFunction
      BY <1>1, <2>2
    <3> QED  BY <2>2, <3>1 DEF ShownAs, NoFunction
  <2> QED  BY <2>1, <2>2
<1>4. stored[Leader] = IF past = "registered" THEN {1} ELSE {}
  BY <1>0, FleetAssumption
<1> QED  BY <1>3, <1>4

LEMMA FunctionInitial == VemInit => FunctionInv
<1> SUFFICES ASSUME VemInit  PROVE FunctionInv
  OBVIOUS
<1>0. PICK past \in {"none", "registered", "deleted"} :
        /\ stored[Leader] = IF past = "registered" THEN {1} ELSE {}
        /\ \A v \in Versions : ShownAs(past, v)
  BY InitialFunctions
<1>1. log = <<>> /\ \A e \in Endpoints : wire[e] = <<>>
  BY DEF VemInit
<1>2. \A v \in Versions : ~Afoot(Removal(v))
  BY <1>1 DEF Afoot, Has
<1>3. ASSUME NEW v \in Versions  PROVE RemovedByLeader(v)
  <2>1. CASE v = 1 /\ past = "deleted"
    BY <1>0, <2>1 DEF ShownAs, ShownHeld, RemovedByLeader, Gone
  <2>2. CASE ~(v = 1 /\ past = "deleted")
    BY <1>0, <1>2, <2>2 DEF ShownAs, RemovedByLeader
  <2> QED  BY <2>1, <2>2
<1>4. ASSUME NEW v \in Versions  PROVE Registered(v)
  <2>1. ASSUME v \in stored[Leader]  PROVE v = 1 /\ past = "registered"
    BY <1>0, <2>1
  <2> QED  BY <1>0, <2>1 DEF Registered, ShownAs
<1> QED  BY <1>3, <1>4, FunctionInvIs

\* The other steps say nothing of removals, and leave the leader's registry alone.
SameFunctions == SaysNone(RemovalTypes) /\ view'.functions = view.functions /\ stored'[Leader] = stored[Leader]

LEMMA FunctionOthers ==
  ASSUME FleetTypes, EndpointStep \/ VemStep, ~Register, \A e \in Endpoints : ~Crash(e) /\ ~PurgeCascade(e),
         \A v \in Versions : ~Delete(v) /\ ~PurgeVersion(v)
  PROVE  SameFunctions
<1>0. PipeOK /\ JobsOK /\ FleetOK
  BY TypesAre
<1>1. ASSUME NEW e \in Endpoints, Boot(e) \/ Elect(e) \/ Metrics(e)  PROVE SameFunctions
  <2>1. SaysOnly(EndpointTypes \cup LeaderTypes) \/ SaysOnly(LeaderTypes) \/ SaysOnly(EndpointTypes)
    BY <1>1, BootTypes, ElectTypes, MetricsTypes
  <2>2. SaysNone(RemovalTypes)
    <3>1. (EndpointTypes \cup LeaderTypes) \cap RemovalTypes = {}
      BY DisjointTypes
    <3> QED  BY <2>1, <3>1, DisjointTypes DEF SaysNone
  <2>3. view' = view /\ stored' = stored
    BY <1>1 DEF Boot, Elect, Metrics, fleetVars
  <2> QED  BY <2>2, <2>3 DEF SameFunctions
<1>2. ASSUME NEW e \in Endpoints, Stop(e)  PROVE SameFunctions
  <2>1. SaysNone(RemovalTypes)
    BY <1>2, StopTypes, DisjointTypes DEF SaysNone
  <2>2. view' = view /\ stored'[Leader] = stored[Leader]
    BY <1>0, <1>2, FleetAssumption DEF Stop, GoneDown, FleetOK
  <2> QED  BY <2>1, <2>2 DEF SameFunctions
<1>3. ASSUME NEW e \in Endpoints, Replicate(e)  PROVE SameFunctions
  <2>1. SaysNone(RemovalTypes)
    BY <1>3, ReplicateTypes, DisjointTypes DEF SaysNone
  <2>2. view' = view /\ stored'[Leader] = stored[Leader]
    BY <1>0, <1>3, FleetAssumption DEF Replicate, FleetOK
  <2> QED  BY <2>1, <2>2 DEF SameFunctions
<1>4. ASSUME NEW e \in Endpoints, NEW v \in Versions, Retire(e, v)  PROVE SameFunctions
  <2>1. SaysNone(RemovalTypes)
    BY <1>4, RetireTypes, DisjointTypes DEF SaysNone
  <2> QED  BY <1>4, <2>1 DEF Retire, SameFunctions
<1>5. ASSUME NEW j \in Jobs, Refuse(j)  PROVE SameFunctions
  <2>1. SaysOnly({}) /\ {} \cap RemovalTypes = {}
    BY <1>5, RefuseTypes
  <2> QED  BY <1>5, <2>1 DEF Refuse, SameFunctions, SaysNone
<1>6. ASSUME NEW j \in Jobs, DeployFails(j) \/ Start(j) \/ \E ok \in BOOLEAN : Finish(j, ok)  PROVE SameFunctions
  <2>1. SaysOnly(FunctionTypes \cup JobTypes) /\ (FunctionTypes \cup JobTypes) \cap RemovalTypes = {}
    BY <1>6, DeployFailsTypes, StartTypes, FinishTypes, DisjointTypes
  <2>2. view' = view /\ stored' = stored
    BY <1>6 DEF DeployFails, Start, Finish
  <2> QED  BY <2>1, <2>2 DEF SameFunctions, SaysNone
<1>7. ASSUME NEW j \in Jobs, NEW e \in Endpoints, Forward(j, e)  PROVE SameFunctions
  <2>1. SaysNone(RemovalTypes)
    BY <1>7, ForwardTypes, DisjointTypes DEF SaysNone
  <2> QED  BY <1>7, <2>1 DEF Forward, SameFunctions
<1>8. ASSUME NEW e \in Endpoints, Ping(e)  PROVE SameFunctions
  <2>1. SaysOnly({}) /\ {} \cap RemovalTypes = {}
    BY <1>8, PingTypes
  <2>2. view' = view /\ stored' = stored
    BY <1>8 DEF Ping
  <2> QED  BY <2>1, <2>2 DEF SameFunctions, SaysNone
<1>9. ASSUME NEW e \in Endpoints, NEW v \in Envs \cup {NoEnv}, Assign(e, v)  PROVE SameFunctions
  <2>1. SaysNone(RemovalTypes)
    BY <1>9, AssignTypes, DisjointTypes DEF SaysNone
  <2>2. view' = view /\ stored' = stored
    BY <1>9 DEF Assign
  <2> QED  BY <2>1, <2>2 DEF SameFunctions
<1>10. CASE Verdict
  <2>1. SaysNone(RemovalTypes)
    BY <1>10, VerdictTypes, DisjointTypes DEF SaysNone
  <2> QED  BY <1>10, <2>1 DEF Verdict, SameFunctions
<1>11. CASE PurgeRemove
  <2>1. SaysOnly({}) /\ {} \cap RemovalTypes = {}
    BY <1>11, PurgeRemoveTypes
  <2>2. purge \in Endpoints /\ view \in Views
    BY <1>0, <1>11 DEF FleetOK, PipeOK, PurgeRemove
  <2>3. view'.functions = view.functions /\ stored' = stored
    BY <1>11, <2>2, NoEndpointPut DEF PurgeRemove
  <2> QED  BY <2>1, <2>3 DEF SameFunctions, SaysNone
<1>12. ASSUME NEW j \in Jobs, NEW e \in Endpoints, NEW v \in Versions, Submit(j, e, v)  PROVE SameFunctions
  <2>1. SaysNone(RemovalTypes)
    BY <1>12, SubmitTypes, DisjointTypes DEF SaysNone
  <2>2. view' = view /\ stored' = stored
    BY <1>12 DEF Submit
  <2> QED  BY <2>1, <2>2 DEF SameFunctions
<1>13. CASE EndpointStep
  BY <1>1, <1>2, <1>3, <1>4, <1>5, <1>6, <1>7, <1>13 DEF EndpointStep
<1>14. CASE VemStep
  BY <1>8, <1>9, <1>10, <1>11, <1>12, <1>14 DEF VemStep
<1> QED  BY <1>13, <1>14

LEMMA FunctionStep ==
  ASSUME FleetTypes, FunctionInv, [VemNext]_vemVars
  PROVE  FunctionInv'
<1>0. PipeOK /\ JobsOK /\ FleetOK
  BY TypesAre
<1>1. CASE EndpointStep \/ VemStep
  <2>1. FleetKeeps
    BY <1>1, FleetKept
  <2>2. ASSUME NEW e \in Endpoints, Crash(e) \/ PurgeCascade(e)  PROVE FunctionInv'
    BY <1>0, <2>1, <2>2, FunctionCrash, FunctionCascade
  <2>3. ASSUME NEW v \in Versions, Delete(v) \/ PurgeVersion(v)  PROVE FunctionInv'
    BY <1>0, <2>1, <2>3, FunctionDelete, FunctionPurge
  <2>4. CASE Register
    BY <1>0, <2>1, <2>4, FunctionRegister
  <2>5. ASSUME ~Register, \A e \in Endpoints : ~Crash(e) /\ ~PurgeCascade(e),
               \A v \in Versions : ~Delete(v) /\ ~PurgeVersion(v)
        PROVE  FunctionInv'
    <3>1. SameFunctions
      BY <1>1, <2>5, FunctionOthers
    <3> QED  BY <1>0, <2>1, <3>1, FunctionSays DEF SameFunctions
  <2> QED  BY <2>2, <2>3, <2>4, <2>5
<1>2. CASE PipeNext /\ UNCHANGED fleetVars
  BY <1>0, <1>2, FunctionPipe
<1>3. CASE UNCHANGED vemVars
  BY <1>3 DEF vemVars, FunctionInv, Removing, Afoot
<1> QED  BY <1>1, <1>2, <1>3 DEF VemNext

\* RegisteredIsShown: once everything under way has been applied, a version the leader
\* has (FunctionRegistry.register) is shown, not deleted and held by the leader, but for
\* the exceptions the property names.
THEOREM RegisteredAlwaysShown == VemSpec => []RegisteredIsShown
<1>1. VemInit => FunctionInv
  BY FunctionInitial
<1>2. FleetTypes /\ FunctionInv /\ [VemNext]_vemVars => FunctionInv'
  BY FunctionStep
<1>3. FleetTypes /\ FunctionInv => RegisteredIsShown
  <2> SUFFICES ASSUME FleetTypes, FunctionInv, Quiet, NEW v \in stored[Leader] \ reused,
                      <<"functions", v>> \notin lost \cup purged
               PROVE  /\ view.functions[v].known /\ ~view.functions[v].deleted
                      /\ Leader \in view.functions[v].holders
    BY DEF RegisteredIsShown
  <2>1. v \in Versions /\ FleetOK
    BY TypesAre, FleetAssumption DEF FleetOK
  <2>2. ~Excused(v) /\ ~Gone(v) /\ ~HeldDue(v)
    BY FleetAssumption DEF Excused, Gone, HeldDue, Due, Has, Quiet
  <2> QED  BY <2>1, <2>2, FunctionInvIs DEF RemovedByLeader, Registered, ShownHeld
<1> QED  BY <1>1, <1>2, <1>3, FleetInvariant, PTL DEF VemSpec

-----------------------------------------------------------------------------
(* JobInv *)

JobOK(j) == JobPlaced(j) /\ JobUnsent(j) /\ JobActive(j) /\ JobOver(j)

LEMMA JobInvIs ==
  (JobInv <=> \A j \in Jobs : JobOK(j)) /\ (JobInv' <=> \A j \in Jobs : JobOK(j)')
  BY DEF JobInv, JobOK

LEMMA AboutFacts ==
  ASSUME NEW j \in Jobs
  PROVE  /\ \A ev \in About(j) : ev \in Events /\ ev.type \in JobTypes /\ ev.job = j
         /\ \A v : Stale(j, v) \subseteq About(j)
         /\ \A st : Showing(j, st) \subseteq About(j) /\ NotShowing(j, st) \subseteq About(j)
         /\ \A st : NotShowing(j, st) \cap Showing(j, st) = {}
         /\ \A A : A \subseteq About(j) /\ <<"activity">> \notin lost' => NoneLost(A)
<1>1. \A ev \in About(j) : ev \in Events /\ ev.type \in JobTypes /\ ev.job = j
  BY DEF About
<1>2. \A ev \in About(j) : StreamOf(ev) = <<"activity">>
  BY <1>1, StreamOfEvent
<1>3. \A A : A \subseteq About(j) /\ <<"activity">> \notin lost' => NoneLost(A)
  BY <1>1, <1>2 DEF NoneLost
<1>4. \A v : Stale(j, v) \subseteq About(j)
  BY DEF Stale
<1>5. \A st : Showing(j, st) \subseteq About(j) /\ NotShowing(j, st) \subseteq About(j)
  BY DEF Showing, NotShowing
<1>6. \A st : NotShowing(j, st) \cap Showing(j, st) = {}
  BY DEF NotShowing
<1> QED  BY <1>1, <1>3, <1>4, <1>5, <1>6

LEMMA HasPart ==
  ASSUME NEW s, NEW A, NEW D, D \subseteq A, Has(s, D)
  PROVE  Has(s, A)
  BY DEF Has

LEMMA AfootPart ==
  ASSUME NEW A, NEW D, D \subseteq A, Afoot(D)
  PROVE  Afoot(A)
  BY HasPart DEF Afoot

\* The step says nothing new about j, and keeps what is due unless it is lost.
SilentOn(j) ==
  /\ \A e \in Endpoints : Has(wire'[e], About(j)) => Has(wire[e], About(j))
  /\ \A A \in SUBSET About(j) : Afoot(A)' => Afoot(A)
  /\ <<"activity">> \notin lost' =>
       /\ Afoot(About(j)) => Afoot(About(j))'
       /\ \A e \in Endpoints : \A st :
            /\ Settled(wire[e], log, NotShowing(j, st), Showing(j, st)) =>
                 Settled(wire'[e], log', NotShowing(j, st), Showing(j, st))
            /\ Due(wire[e], log, Showing(j, st)) => Due(wire'[e], log', Showing(j, st))

\* The job stays as it is, or is given up where it is.
SameJob(j) ==
  /\ job'[j].at = job[j].at /\ job'[j].moved = job[j].moved /\ job'[j].version = job[j].version
  /\ job'[j].state = job[j].state \/ job'[j].state \in {"dead", "refused"}

LEMMA JobFrame ==
  ASSUME JobsOK, FleetKeeps, NEW j \in Jobs, JobOK(j), SilentOn(j), SameJob(j)
  PROVE  JobOK(j)'
<1>1. view'.jobs[j] = view.jobs[j] /\ (j \in purged => j \in purged') /\ (<<"activity">> \in lost => <<"activity">> \in lost')
  BY DEF FleetKeeps
<1>2. job'[j].state \in Active \cup {"unsent", "done", "failed"} => job'[j].state = job[j].state
  BY DEF SameJob, Active
<1>3. JobPlaced(j)'
  BY DEF JobOK, JobPlaced, SameJob, SilentOn
<1>4. JobUnsent(j)'
  <2>1. Afoot(About(j))' => Afoot(About(j))
    BY DEF SilentOn
  <2> QED  BY <1>1, <1>2, <2>1 DEF JobOK, JobUnsent
<1>5. JobActive(j)'
  <2> SUFFICES ASSUME job'[j].state \in Active, j \notin purged', NEW v \in Versions, v = job'[j].version
               PROVE  ActiveAs(j, v)'
    BY DEF JobActive
  <2>1. job[j].state \in Active /\ j \notin purged /\ v = job[j].version
    BY <1>1, <1>2 DEF SameJob
  <2>2. ActiveAs(j, v)
    BY <2>1 DEF JobOK, JobActive
  <2>3. Stale(j, v) \in SUBSET About(j)
    BY AboutFacts
  <2>4. Afoot(Stale(j, v))' => Afoot(Stale(j, v))
    BY <2>3 DEF SilentOn
  <2>5. ShownActive(j, v) => ShownActive(j, v)'
    BY <1>1 DEF ShownActive
  <2>6. <<"activity">> \notin lost' => (Afoot(About(j)) => Afoot(About(j))')
    BY DEF SilentOn
  <2> QED  BY <1>1, <2>2, <2>4, <2>5, <2>6 DEF ActiveAs
<1>6. JobOver(j)'
  <2> SUFFICES ASSUME job'[j].state \in {"done", "failed"}, ~job'[j].moved, j \notin purged', <<"activity">> \notin lost'
               PROVE  LET w == wire'[job'[j].at]  st == Outcome(job'[j].state)
                      IN  /\ Settled(w, log', NotShowing(j, st), Showing(j, st))
                          /\ view'.jobs[j].status # st => Due(w, log', Showing(j, st))
    BY DEF JobOver
  <2>1. job[j].state \in {"done", "failed"} /\ ~job[j].moved /\ j \notin purged /\ <<"activity">> \notin lost
    BY <1>1, <1>2 DEF SameJob
  <2> PICK e : e = job[j].at
    OBVIOUS
  <2> PICK st : st = Outcome(job[j].state)
    OBVIOUS
  <2>2. /\ Settled(wire[e], log, NotShowing(j, st), Showing(j, st))
        /\ view.jobs[j].status # st => Due(wire[e], log, Showing(j, st))
    BY <2>1 DEF JobOK, JobOver
  <2>3. e \in Endpoints
    BY <2>1, PlacedJob
  <2>4. /\ Settled(wire'[e], log', NotShowing(j, st), Showing(j, st))
        /\ view'.jobs[j].status # st => Due(wire'[e], log', Showing(j, st))
    BY <1>1, <2>2, <2>3 DEF SilentOn
  <2>5. job'[j].at = e /\ Outcome(job'[j].state) = st
    BY <1>2 DEF SameJob
  <2> QED  BY <2>4, <2>5
<1> QED  BY <1>3, <1>4, <1>5, <1>6 DEF JobOK

LEMMA SilentOutside ==
  ASSUME PipeOK, NEW j \in Jobs, SaysOutside(About(j))
  PROVE  SilentOn(j)
<1>1. \A A \in SUBSET About(j) : SaysOutside(A)
  BY HasPart DEF SaysOutside
<1>2. \A e \in Endpoints : Has(wire'[e], About(j)) => Has(wire[e], About(j))
  BY SettledOutside
<1>3. ASSUME NEW A \in SUBSET About(j), Afoot(A)'  PROVE Afoot(A)
  <2>1. \A x \in Endpoints : ~Has(wire[x], A) => ~Has(wire'[x], A)
    BY <1>1, SettledOutside
  <2>2. ~Has(log, A) => ~Has(log', A)
    BY <1>1, FleetAssumption, SettledOutside
  <2> QED  BY <1>3, <2>1, <2>2 DEF Afoot
<1>4. Afoot(About(j)) => Afoot(About(j))'
  <2>1. \A x \in Endpoints : Has(wire[x], About(j)) => Has(wire'[x], About(j))
    BY SettledOutside
  <2>2. Has(log, About(j)) => Has(log', About(j))
    BY FleetAssumption, SettledOutside
  <2> QED  BY <2>1, <2>2 DEF Afoot
<1>5. ASSUME NEW e \in Endpoints, NEW st
      PROVE  /\ Settled(wire[e], log, NotShowing(j, st), Showing(j, st)) =>
                  Settled(wire'[e], log', NotShowing(j, st), Showing(j, st))
             /\ Due(wire[e], log, Showing(j, st)) => Due(wire'[e], log', Showing(j, st))
  <2>1. NotShowing(j, st) \in SUBSET About(j)
    BY AboutFacts
  <2>2. SaysOutside(NotShowing(j, st))
    BY <1>1, <2>1
  <2> QED  BY <2>2, SettledOutside
<1> QED  BY <1>2, <1>3, <1>4, <1>5 DEF SilentOn

LEMMA SilentCrash ==
  ASSUME PipeOK, NEW e \in Endpoints, Crash(e), NEW j \in Jobs
  PROVE  SilentOn(j)
<1>1. wire' = [wire EXCEPT ![e] = <<>>]
  BY DEF Crash
<1>2. \A x \in Endpoints : Has(wire'[x], About(j)) => Has(wire[x], About(j))
  BY <1>1 DEF PipeOK, Has
<1>3. \A A \in SUBSET About(j) : Afoot(A)' => Afoot(A)
  BY AfootCrash
<1>4. ASSUME <<"activity">> \notin lost', NEW x \in Endpoints, NEW st
      PROVE  /\ Settled(wire[x], log, NotShowing(j, st), Showing(j, st)) =>
                  Settled(wire'[x], log', NotShowing(j, st), Showing(j, st))
             /\ Due(wire[x], log, Showing(j, st)) => Due(wire'[x], log', Showing(j, st))
  <2>1. NoneLost(Showing(j, st))
    BY <1>4, AboutFacts
  <2> QED  BY <2>1, SettledCrash
<1>5. ASSUME <<"activity">> \notin lost', Afoot(About(j))  PROVE Afoot(About(j))'
  <2>1. NoneLost(About(j))
    BY <1>5, AboutFacts
  <2>2. \A x \in Endpoints : Due(wire[x], log, About(j)) => Due(wire'[x], log', About(j))
    BY <2>1, SettledCrash
  <2> QED  BY <1>5, <2>2, FleetAssumption DEF Afoot, Due
<1> QED  BY <1>2, <1>3, <1>4, <1>5 DEF SilentOn

\* Steps that are not about jobs.
LEMMA JobSays ==
  ASSUME PipeOK, JobsOK, FleetKeeps, JobInv, SaysNone(JobTypes), job' = job
  PROVE  JobInv'
<1>1. PICK T : SaysOnly(T) /\ T \cap JobTypes = {}
  BY DEF SaysNone
<1>2. ASSUME NEW j \in Jobs  PROVE JobOK(j)'
  <2>1. NoneOf(About(j), T)
    BY <1>1, AboutFacts DEF NoneOf
  <2>2. SilentOn(j)
    BY <1>1, <2>1, OnlyIsOutside, SilentOutside
  <2>3. SameJob(j)
    BY DEF SameJob
  <2> QED  BY <2>2, <2>3, JobInvIs, JobFrame
<1> QED  BY <1>2, JobInvIs

LEMMA JobRefuse ==
  ASSUME PipeOK, JobsOK, FleetKeeps, JobInv, NEW k \in Jobs, Refuse(k)
  PROVE  JobInv'
<1>1. wire' = wire /\ log' = log /\ job' = [job EXCEPT ![k].state = "refused"]
  BY DEF Refuse
<1>2. ASSUME NEW j \in Jobs  PROVE JobOK(j)'
  <2>1. SilentOn(j)
    BY <1>1 DEF SilentOn, Afoot
  <2>2. job[k] \in JobRecords /\ job \in [Jobs -> JobRecords]
    BY DEF JobsOK
  <2>3. SameJob(j)
    BY <1>1, <2>2 DEF SameJob, JobRecords
  <2> QED  BY <2>1, <2>3, JobInvIs, JobFrame
<1> QED  BY <1>2, JobInvIs

\* The jobs of an endpoint that goes down die without a word.
LEMMA JobDown ==
  ASSUME PipeOK, JobsOK, FleetKeeps, JobInv, NEW e \in Endpoints, GoneDown(e),
         \A j \in Jobs : SilentOn(j)
  PROVE  JobInv'
<1>1. ASSUME NEW j \in Jobs  PROVE JobOK(j)'
  <2> PICK st : st = IF job[j].at = e /\ job[j].state \in Active THEN "dead" ELSE job[j].state
    OBVIOUS
  <2>1. job'[j] = [job[j] EXCEPT !.held = job[j].held \ {e}, !.state = st]
    BY DEF GoneDown
  <2>2. job[j] \in JobRecords
    BY DEF JobsOK
  <2>3. SameJob(j)
    BY <2>1, <2>2 DEF SameJob, JobRecords
  <2> QED  BY <2>3, JobInvIs, JobFrame
<1> QED  BY <1>1, JobInvIs

\* Steps of a job k, that speak of it.
LEMMA JobSpeak ==
  ASSUME PipeOK, JobsOK, FleetKeeps, JobInv, NEW k \in Jobs, NEW e \in Endpoints, NEW us \in Seq(Events),
         Publish(e, us), log' = log, \A j \in Jobs : j # k => ~Has(us, About(j)) /\ job'[j] = job[j],
         JobOK(k)'
  PROVE  JobInv'
<1>1. ASSUME NEW j \in Jobs, j # k  PROVE JobOK(j)'
  <2>1. SilentOn(j)
    BY <1>1, PublishOutside, SilentOutside
  <2>2. SameJob(j)
    BY <1>1 DEF SameJob
  <2> QED  BY <2>1, <2>2, JobInvIs, JobFrame
<1> QED  BY <1>1, JobInvIs

\* What is on the wires after e has spoken.
LEMMA SpokenWire ==
  ASSUME PipeOK, NEW e \in Endpoints, NEW us \in Seq(Events), Publish(e, us), log' = log, NEW A
  PROVE  /\ \A x \in Endpoints : x # e => wire'[x] = wire[x]
         /\ wire'[e] = wire[e] \o us /\ wire[e] \in Seq(Events) /\ log \in Seq(Events)
         /\ Has(wire'[e], A) <=> Has(wire[e], A) \/ Has(us, A)
         /\ Afoot(A)' <=> Afoot(A) \/ Has(us, A)
<1>1. /\ \A x \in Endpoints : x # e => wire'[x] = wire[x]
      /\ wire'[e] = wire[e] \o us /\ wire[e] \in Seq(Events) /\ log \in Seq(Events)
  BY DEF Publish, PipeOK
<1>2. Has(wire'[e], A) <=> Has(wire[e], A) \/ Has(us, A)
  BY <1>1, HasConcat
<1> QED  BY <1>1, <1>2 DEF Afoot

LEMMA JobNowActive ==
  ASSUME PipeOK, NEW k \in Jobs, NEW e \in Endpoints, NEW us \in Seq(Events), Publish(e, us), log' = log,
         NEW v \in Versions, job'[k].state \in Active, job'[k].at = e, job'[k].version = v,
         Has(us, About(k)), ~Has(us, Stale(k, v)), k \in purged' \/ ~Afoot(Stale(k, v)),
         job'[k].moved \/ \A x \in Endpoints : Has(wire[x], About(k)) => x = e
  PROVE  JobOK(k)'
<1>1. JobPlaced(k)'
  BY SpokenWire DEF JobPlaced
<1>2. JobUnsent(k)' /\ JobOver(k)'
  BY DEF JobUnsent, JobOver, Active
<1>3. Afoot(About(k))'
  BY SpokenWire
<1>4. k \in purged' \/ ~Afoot(Stale(k, v))'
  BY SpokenWire
<1>5. ASSUME k \notin purged', NEW n \in Versions, n = job'[k].version  PROVE ActiveAs(k, n)'
  <2>1. n = v
    BY <1>5
  <2>2. ~Afoot(Stale(k, n))'
    BY <1>4, <1>5, <2>1
  <2> QED  BY <1>3, <2>2 DEF ActiveAs
<1>6. JobActive(k)'
  BY <1>5 DEF JobActive
<1> QED  BY <1>1, <1>2, <1>6 DEF JobOK

LEMMA JobNowOver ==
  ASSUME PipeOK, NEW k \in Jobs, NEW e \in Endpoints, NEW us \in Seq(Events), Publish(e, us), log' = log,
         job'[k].state \in {"done", "failed"}, job'[k].at = e, NEW st, st = Outcome(job'[k].state),
         Has(us, Showing(k, st)), ~Has(us, NotShowing(k, st)),
         job'[k].moved \/ \A x \in Endpoints : Has(wire[x], About(k)) => x = e
  PROVE  JobOK(k)'
<1>1. JobPlaced(k)'
  BY SpokenWire DEF JobPlaced
<1>2. JobUnsent(k)' /\ JobActive(k)'
  BY DEF JobUnsent, JobActive, Active
<1>3. wire'[e] = wire[e] \o us /\ wire[e] \in Seq(Events) /\ log \in Seq(Events)
  BY SpokenWire
<1>4. /\ Settled(wire'[e], log', NotShowing(k, st), Showing(k, st))
      /\ Due(wire'[e], log', Showing(k, st))
  BY <1>3, SettledPublish
<1>5. JobOver(k)'
  BY <1>4 DEF JobOver
<1> QED  BY <1>1, <1>2, <1>5 DEF JobOK

\* The events of a job's step: one about job k of type t, and others about functions.
Speaks(us, k, t, n) ==
  /\ us \in Seq(Events)
  /\ \A i \in 1 .. Len(us) : us[i].type \in JobTypes => us[i].type = t /\ us[i].job = k /\ us[i].version = n
  /\ \E i \in 1 .. Len(us) : us[i].type \in JobTypes

LEMMA SpeaksOf ==
  ASSUME NEW us, NEW k \in Jobs, NEW t, NEW n, Speaks(us, k, t, n)
  PROVE  /\ \A j \in Jobs : j # k => ~Has(us, About(j))
         /\ Has(us, About(k))
         /\ t \in {"JobQueued", "JobStarted"} => ~Has(us, Stale(k, n))
         /\ \A st : JobStatus[t] = st => Has(us, Showing(k, st)) /\ ~Has(us, NotShowing(k, st))
<1>1. \A j \in Jobs : j # k => ~Has(us, About(j))
  BY DEF Speaks, Has, About
<1>2. PICK m \in 1 .. Len(us) : us[m].type \in JobTypes /\ us[m].type = t /\ us[m].job = k /\ us[m] \in Events
  <2>1. PICK m \in 1 .. Len(us) : us[m].type \in JobTypes
    BY DEF Speaks
  <2>2. us[m] \in Events
    BY ElementOfSeq DEF Speaks
  <2> QED  BY <2>1, <2>2 DEF Speaks
<1>3. us[m] \in About(k)
  BY <1>2 DEF About
<1>4. t \in {"JobQueued", "JobStarted"} => ~Has(us, Stale(k, n))
  BY DEF Speaks, Has, Stale, About
<1>5. ASSUME NEW st, JobStatus[t] = st
      PROVE  Has(us, Showing(k, st)) /\ ~Has(us, NotShowing(k, st))
  <2>1. us[m] \in Showing(k, st)
    BY <1>2, <1>3, <1>5 DEF Showing
  <2>2. ASSUME NEW i \in 1 .. Len(us), us[i] \in About(k)  PROVE us[i] \in Showing(k, st)
    BY <1>5, <2>2 DEF Speaks, About, Showing
  <2> QED  BY <2>1, <2>2 DEF Has, NotShowing
<1> QED  BY <1>1, <1>3, <1>4, <1>5 DEF Has

LEMMA TuplesJoined ==
  ASSUME NEW a, NEW b, NEW c
  PROVE  <<b>> \o <<c>> = <<b, c>> /\ <<a>> \o (<<b>> \o <<c>>) = <<a, b, c>>
<1>1. <<b>> \o <<c>> = <<b, c>>
  <2>1. /\ <<b>> \in Seq({b, c}) /\ <<c>> \in Seq({b, c}) /\ <<b, c>> \in Seq({b, c})
        /\ Len(<<b>>) = 1 /\ Len(<<c>>) = 1 /\ Len(<<b, c>>) = 2
    OBVIOUS
  <2>2. /\ <<b>> \o <<c>> \in Seq({b, c}) /\ Len(<<b>> \o <<c>>) = 2
        /\ (<<b>> \o <<c>>)[1] = b /\ (<<b>> \o <<c>>)[2] = c
    BY <2>1, ConcatProperties
  <2>3. <<b, c>>[1] = b /\ <<b, c>>[2] = c
    OBVIOUS
  <2>4. \A i \in 1 .. 2 : <<b, c>>[i] = (<<b>> \o <<c>>)[i]
    BY <2>2, <2>3
  <2> QED  BY <2>1, <2>2, <2>4, SeqEqual
<1>2. <<a, b, c>> = <<a>> \o <<b, c>>
  OBVIOUS
<1> QED  BY <1>1, <1>2

LEMMA SpeaksOne ==
  ASSUME NEW b \in Events, NEW k, NEW t \in JobTypes, NEW n, b.type = t, b.job = k, b.version = n
  PROVE  Speaks(<<b>>, k, t, n)
<1>1. <<b>> \in Seq(Events) /\ Len(<<b>>) = 1 /\ <<b>>[1] = b
  OBVIOUS
<1> QED  BY <1>1 DEF Speaks

\* Events about functions around it change nothing.
LEMMA SpeaksMore ==
  ASSUME NEW us, NEW ws, NEW k, NEW t, NEW n, Speaks(us, k, t, n), OfTypes(ws, FunctionTypes)
  PROVE  Speaks(ws \o us, k, t, n) /\ Speaks(us \o ws, k, t, n)
<1>0. us \in Seq(Events) /\ ws \in Seq(Events) /\ \A i \in 1 .. Len(ws) : ws[i].type \notin JobTypes
  BY DisjointTypes DEF Speaks, OfTypes
<1>1. Speaks(ws \o us, k, t, n)
  <2>0. /\ ws \o us \in Seq(Events)
        /\ \A i \in 1 .. Len(ws) : (ws \o us)[i] = ws[i]
        /\ \A i \in 1 .. Len(us) : Len(ws) + i \in 1 .. Len(ws \o us) /\ (ws \o us)[Len(ws) + i] = us[i]
        /\ \A i \in 1 .. Len(ws \o us) : i \in 1 .. Len(ws) \/ \E m \in 1 .. Len(us) : i = Len(ws) + m
    BY <1>0, ConcatParts
  <2> PICK w : w = ws \o us
    OBVIOUS
  <2>1. /\ w \in Seq(Events)
        /\ \A i \in 1 .. Len(ws) : w[i] = ws[i]
        /\ \A i \in 1 .. Len(us) : Len(ws) + i \in 1 .. Len(w) /\ w[Len(ws) + i] = us[i]
        /\ \A i \in 1 .. Len(w) : i \in 1 .. Len(ws) \/ \E m \in 1 .. Len(us) : i = Len(ws) + m
    BY <2>0
  <2>2. ASSUME NEW i \in 1 .. Len(w), w[i].type \in JobTypes
        PROVE  w[i].type = t /\ w[i].job = k /\ w[i].version = n
    <3>1. i \notin 1 .. Len(ws)
      BY <1>0, <2>1, <2>2
    <3>2. PICK m \in 1 .. Len(us) : i = Len(ws) + m
      BY <2>1, <3>1
    <3>3. w[i] = us[m]
      BY <2>1, <3>2
    <3> QED  BY <2>2, <3>3 DEF Speaks
  <2>3. \E i \in 1 .. Len(w) : w[i].type \in JobTypes
    BY <2>1 DEF Speaks
  <2> QED  BY <2>1, <2>2, <2>3 DEF Speaks
<1>2. Speaks(us \o ws, k, t, n)
  <2>0. /\ us \o ws \in Seq(Events)
        /\ \A i \in 1 .. Len(us) : i \in 1 .. Len(us \o ws) /\ (us \o ws)[i] = us[i]
        /\ \A i \in 1 .. Len(ws) : (us \o ws)[Len(us) + i] = ws[i]
        /\ \A i \in 1 .. Len(us \o ws) : i \in 1 .. Len(us) \/ \E m \in 1 .. Len(ws) : i = Len(us) + m
    BY <1>0, ConcatParts
  <2> PICK w : w = us \o ws
    OBVIOUS
  <2>1. /\ w \in Seq(Events)
        /\ \A i \in 1 .. Len(us) : i \in 1 .. Len(w) /\ w[i] = us[i]
        /\ \A i \in 1 .. Len(ws) : w[Len(us) + i] = ws[i]
        /\ \A i \in 1 .. Len(w) : i \in 1 .. Len(us) \/ \E m \in 1 .. Len(ws) : i = Len(us) + m
    BY <2>0
  <2>2. ASSUME NEW i \in 1 .. Len(w), w[i].type \in JobTypes
        PROVE  w[i].type = t /\ w[i].job = k /\ w[i].version = n
    <3>1. i \in 1 .. Len(us)
      BY <1>0, <2>1, <2>2
    <3>2. w[i] = us[i]
      BY <2>1, <3>1
    <3> QED  BY <2>2, <3>1, <3>2 DEF Speaks
  <2>3. \E i \in 1 .. Len(w) : w[i].type \in JobTypes
    BY <2>1 DEF Speaks
  <2> QED  BY <2>1, <2>2, <2>3 DEF Speaks
<1> QED  BY <1>1, <1>2

\* A job that is under way, and its endpoint alone having spoken of it.
LEMMA JobBefore ==
  ASSUME JobsOK, JobInv, NEW k \in Jobs, job[k].state \in Active
  PROVE  /\ job[k] \in JobRecords /\ job[k].at \in Endpoints /\ job[k].version \in Versions
         /\ \A v : v = job[k].version => k \in purged \/ ~Afoot(Stale(k, v))
         /\ job[k].moved \/ \A x \in Endpoints : Has(wire[x], About(k)) => x = job[k].at
<1>1. job[k] \in JobRecords /\ job[k].at \in Endpoints /\ job[k].version \in Versions
  BY PlacedJob DEF Active
<1>2. JobOK(k)
  BY JobInvIs
<1>3. ASSUME NEW v, v = job[k].version  PROVE k \in purged \/ ~Afoot(Stale(k, v))
  BY <1>1, <1>2, <1>3 DEF JobOK, JobActive, ActiveAs
<1>4. job[k].moved \/ \A x \in Endpoints : Has(wire[x], About(k)) => x = job[k].at
  BY <1>2 DEF JobOK, JobPlaced
<1> QED  BY <1>1, <1>3, <1>4

LEMMA JobSubmit ==
  ASSUME PipeOK, JobsOK, FleetKeeps, JobInv, NEW k \in Jobs, NEW e \in Endpoints, NEW v \in Versions,
         Submit(k, e, v)
  PROVE  JobInv'
<1> PICK r : r = [state |-> "queued", at |-> e, held |-> {e}, moved |-> FALSE, version |-> v]
  OBVIOUS
<1> PICK b : b = JobEvent("JobQueued", e, k, v)
  OBVIOUS
<1>1. /\ Publish(e, <<b>>) /\ log' = log /\ purged' = purged /\ job' = [job EXCEPT ![k] = r]
      /\ job[k].state = "unsent"
  BY DEF Submit
<1>2. job'[k] = r /\ \A j \in Jobs : j # k => job'[j] = job[j]
  BY <1>1 DEF JobsOK
<1>3. b \in Events /\ b.type = "JobQueued" /\ b.job = k /\ b.version = v
  BY JobEventIs, TypeSets
<1>4. Speaks(<<b>>, k, "JobQueued", v) /\ <<b>> \in Seq(Events)
  <2>1. "JobQueued" \in JobTypes
    BY TypeSets
  <2> QED  BY <1>3, <2>1, SpeaksOne DEF Speaks
<1>5. /\ \A j \in Jobs : j # k => ~Has(<<b>>, About(j))
      /\ Has(<<b>>, About(k)) /\ ~Has(<<b>>, Stale(k, v))
  BY <1>4, SpeaksOf
<1>6. ~Afoot(About(k))
  BY <1>1, JobInvIs DEF JobOK, JobUnsent
<1>7. ~Afoot(Stale(k, v)) /\ \A x \in Endpoints : ~Has(wire[x], About(k))
  <2>1. Stale(k, v) \subseteq About(k)
    BY AboutFacts
  <2> QED  BY <1>6, <2>1, AfootPart DEF Afoot
<1>8. JobOK(k)'
  <2>1. job'[k].state \in Active /\ job'[k].at = e /\ job'[k].version = v
    BY <1>2 DEF Active
  <2> QED  BY <1>1, <1>4, <1>5, <1>7, <2>1, JobNowActive
<1> QED  BY <1>1, <1>2, <1>4, <1>5, <1>8, JobSpeak

LEMMA JobForward ==
  ASSUME PipeOK, JobsOK, FleetKeeps, JobInv, NEW k \in Jobs, NEW e \in Endpoints, Forward(k, e)
  PROVE  JobInv'
<1> PICK v : v = job[k].version
  OBVIOUS
<1>0. job[k].state \in Active
  BY DEF Forward, Active
<1>9. job[k] \in JobRecords /\ v \in Versions /\ (k \in purged \/ ~Afoot(Stale(k, v)))
  BY <1>0, JobBefore
<1> PICK r : r = [job[k] EXCEPT !.at = e, !.held = job[k].held \cup {e}, !.moved = TRUE]
  OBVIOUS
<1> PICK b : b = JobEvent("JobQueued", e, k, v)
  OBVIOUS
<1>1. /\ Publish(e, <<b>>) /\ log' = log /\ purged' = purged /\ job' = [job EXCEPT ![k] = r]
      /\ job[k].state = "queued"
  BY DEF Forward, JobsOK
<1>2. job'[k] = r /\ \A j \in Jobs : j # k => job'[j] = job[j]
  BY <1>1 DEF JobsOK
<1>3. b \in Events /\ b.type = "JobQueued" /\ b.job = k /\ b.version = v
  BY <1>9, JobEventIs, TypeSets
<1>4. Speaks(<<b>>, k, "JobQueued", v) /\ <<b>> \in Seq(Events)
  <2>1. "JobQueued" \in JobTypes
    BY TypeSets
  <2> QED  BY <1>3, <2>1, SpeaksOne DEF Speaks
<1>5. /\ \A j \in Jobs : j # k => ~Has(<<b>>, About(j))
      /\ Has(<<b>>, About(k)) /\ ~Has(<<b>>, Stale(k, v))
  BY <1>4, SpeaksOf
<1>8. JobOK(k)'
  <2>0. r.state = job[k].state /\ r.at = e /\ r.version = job[k].version /\ r.moved
    BY <1>9 DEF JobRecords
  <2>1. job'[k].state \in Active /\ job'[k].at = e /\ job'[k].version = v /\ job'[k].moved
    BY <1>0, <1>2, <2>0
  <2> QED  BY <1>1, <1>4, <1>5, <1>9, <2>1, JobNowActive
<1> QED  BY <1>1, <1>2, <1>4, <1>5, <1>8, JobSpeak

LEMMA JobStart ==
  ASSUME PipeOK, JobsOK, FleetOK, FleetKeeps, JobInv, NEW k \in Jobs, Start(k)
  PROVE  JobInv'
<1> PICK v : v = job[k].version
  OBVIOUS
<1> PICK e : e = job[k].at
  OBVIOUS
<1>0. job[k].state \in Active
  BY DEF Start, Active
<1>9. /\ job[k] \in JobRecords /\ e \in Endpoints /\ v \in Versions /\ (k \in purged \/ ~Afoot(Stale(k, v)))
      /\ job[k].moved \/ \A x \in Endpoints : Has(wire[x], About(k)) => x = e
  BY <1>0, JobBefore
<1> PICK a : a = FunctionEvent("FunctionDeployed", e, env[e], v)
  OBVIOUS
<1> PICK b : b = JobEvent("JobStarted", e, k, v)
  OBVIOUS
<1> PICK c : c = FunctionEvent("FunctionActivated", e, env[e], v)
  OBVIOUS
<1> PICK r : r = [job[k] EXCEPT !.state = "started"]
  OBVIOUS
<1>3. b \in Events /\ b.type = "JobStarted" /\ b.job = k /\ b.version = v
  BY <1>9, JobEventIs, TypeSets
<1>10. OfTypes(<<a>>, FunctionTypes) /\ OfTypes(<<c>>, FunctionTypes) /\ OfTypes(<<>>, FunctionTypes)
  <2>1. env[e] \in Envs \cup {NoEnv}
    BY <1>9 DEF FleetOK
  <2>2. "FunctionDeployed" \in FunctionTypes /\ "FunctionActivated" \in FunctionTypes
    BY TypeSets
  <2>3. a \in Events /\ a.type \in FunctionTypes /\ a.ep = e /\ c \in Events /\ c.type \in FunctionTypes /\ c.ep = e
    BY <1>9, <2>1, <2>2, FunctionEventIs
  <2>4. OfTypes(<<a>>, FunctionTypes) /\ OfTypes(<<c>>, FunctionTypes)
    BY <2>3, OneSaid
  <2>5. OfTypes(<<>>, FunctionTypes)
    BY NothingSaid DEF PipeOK
  <2> QED  BY <2>4, <2>5
<1>11. <<b, c>> = <<b>> \o <<c>>
  BY TuplesJoined
<1>12. Speaks(<<b, c>>, k, "JobStarted", v)
  <2>1. "JobStarted" \in JobTypes
    BY TypeSets
  <2>2. Speaks(<<b>>, k, "JobStarted", v)
    BY <1>3, <2>1, SpeaksOne
  <2>3. Speaks(<<b>> \o <<c>>, k, "JobStarted", v)
    BY <1>10, <2>2, SpeaksMore
  <2> QED  BY <1>11, <2>3
<1> PICK new : new = IF <<e, v>> \in warm THEN <<>> ELSE <<a>>
  OBVIOUS
<1> PICK us : us = new \o <<b, c>>
  OBVIOUS
<1>1. /\ Publish(e, us) /\ log' = log /\ purged' = purged /\ job' = [job EXCEPT ![k] = r]
      /\ job[k].state = "queued"
  BY DEF Start, JobsOK
<1>2. job'[k] = r /\ \A j \in Jobs : j # k => job'[j] = job[j]
  BY <1>1 DEF JobsOK
<1>4. Speaks(us, k, "JobStarted", v) /\ us \in Seq(Events)
  <2>1. OfTypes(new, FunctionTypes)
    BY <1>10
  <2>2. Speaks(us, k, "JobStarted", v)
    BY <1>12, <2>1, SpeaksMore
  <2> QED  BY <2>2 DEF Speaks
<1>5. /\ \A j \in Jobs : j # k => ~Has(us, About(j))
      /\ Has(us, About(k)) /\ ~Has(us, Stale(k, v))
  BY <1>4, SpeaksOf
<1>8. JobOK(k)'
  <2>1. job'[k].state \in Active /\ job'[k].at = e /\ job'[k].version = v /\ job'[k].moved = job[k].moved
    BY <1>1, <1>2, <1>9 DEF Active, JobRecords
  <2> QED  BY <1>1, <1>4, <1>5, <1>9, <2>1, JobNowActive
<1> QED  BY <1>1, <1>2, <1>4, <1>5, <1>8, <1>9, JobSpeak

\* A job ends where it is, with a word about it.
LEMMA JobEnds ==
  ASSUME PipeOK, JobsOK, FleetKeeps, JobInv, NEW k \in Jobs, job[k].state \in Active,
         NEW e \in Endpoints, e = job[k].at, NEW us, Publish(e, us), log' = log,
         NEW t, Speaks(us, k, t, Unversioned), JobStatus[t] = Outcome(job'[k].state),
         job'[k].state \in {"done", "failed"}, job'[k].at = e, job'[k].moved = job[k].moved,
         \A j \in Jobs : j # k => job'[j] = job[j]
  PROVE  JobInv'
<1>0. us \in Seq(Events)
  BY DEF Speaks
<1>9. \A j \in Jobs : j # k => ~Has(us, About(j))
  BY SpeaksOf
<1>1. us \in Seq(Events) /\ \A j \in Jobs : j # k => ~Has(us, About(j))
  BY <1>0, <1>9
<1> PICK st : st = JobStatus[t]
  OBVIOUS
<1>2. Has(us, Showing(k, st)) /\ ~Has(us, NotShowing(k, st))
  BY SpeaksOf
<1>3. job[k].moved \/ \A x \in Endpoints : Has(wire[x], About(k)) => x = e
  BY JobBefore
<1>4. JobOK(k)'
  BY <1>1, <1>2, <1>3, JobNowOver
<1> QED  BY <1>1, <1>4, JobSpeak

LEMMA JobDeployFails ==
  ASSUME PipeOK, JobsOK, FleetOK, FleetKeeps, JobInv, NEW k \in Jobs, DeployFails(k)
  PROVE  JobInv'
<1> PICK v : v = job[k].version
  OBVIOUS
<1> PICK e : e = job[k].at
  OBVIOUS
<1>0. job[k].state \in Active
  BY DEF DeployFails, Active
<1>9. job[k] \in JobRecords /\ e \in Endpoints /\ v \in Versions
  BY <1>0, JobBefore
<1> PICK a : a = FunctionEvent("FunctionDeployFailed", e, env[e], v)
  OBVIOUS
<1> PICK b : b = JobEvent("JobFailed", e, k, Unversioned)
  OBVIOUS
<1> PICK c : c = FunctionEvent("FunctionDeactivated", e, env[e], v)
  OBVIOUS
<1> PICK r : r = [job[k] EXCEPT !.state = "failed", !.held = job[k].held \ {e}]
  OBVIOUS
<1>1. /\ Publish(e, <<a, b, c>>) /\ log' = log /\ job' = [job EXCEPT ![k] = r]
  BY DEF DeployFails, JobsOK
<1>2. job'[k] = r /\ \A j \in Jobs : j # k => job'[j] = job[j]
  BY <1>1 DEF JobsOK
<1>3. b \in Events /\ b.type = "JobFailed" /\ b.job = k /\ b.version = Unversioned /\ "JobFailed" \in JobTypes
  BY <1>9, JobEventIs, TypeSets
<1>4. OfTypes(<<a>>, FunctionTypes) /\ OfTypes(<<c>>, FunctionTypes)
  <2>1. env[e] \in Envs \cup {NoEnv}
    BY <1>9 DEF FleetOK
  <2>2. "FunctionDeployFailed" \in FunctionTypes /\ "FunctionDeactivated" \in FunctionTypes
    BY TypeSets
  <2>3. a \in Events /\ a.type \in FunctionTypes /\ a.ep = e /\ c \in Events /\ c.type \in FunctionTypes /\ c.ep = e
    BY <1>9, <2>1, <2>2, FunctionEventIs
  <2> QED  BY <2>3, OneSaid
<1>5. Speaks(<<a, b, c>>, k, "JobFailed", Unversioned)
  <2>1. Speaks(<<b>>, k, "JobFailed", Unversioned)
    BY <1>3, SpeaksOne
  <2>2. Speaks(<<b>> \o <<c>>, k, "JobFailed", Unversioned)
    BY <1>4, <2>1, SpeaksMore
  <2>3. Speaks(<<a>> \o (<<b>> \o <<c>>), k, "JobFailed", Unversioned)
    BY <1>4, <2>2, SpeaksMore
  <2>4. <<a>> \o (<<b>> \o <<c>>) = <<a, b, c>>
    BY TuplesJoined
  <2> QED  BY <2>3, <2>4
<1>6. r.state = "failed" /\ r.at = e /\ r.moved = job[k].moved
  BY <1>9 DEF JobRecords
<1>7. JobStatus["JobFailed"] = Outcome("failed")
  BY DEF JobStatus, Outcome
<1>8. /\ job'[k].state = "failed" /\ job'[k].at = e /\ job'[k].moved = job[k].moved
      /\ JobStatus["JobFailed"] = Outcome(job'[k].state) /\ job'[k].state \in {"done", "failed"}
  BY <1>2, <1>6, <1>7
<1>10. Publish(e, <<a, b, c>>) /\ log' = log /\ \A j \in Jobs : j # k => job'[j] = job[j]
  BY <1>1, <1>2
<1> QED  BY <1>0, <1>5, <1>8, <1>9, <1>10, JobEnds

LEMMA JobFinish ==
  ASSUME PipeOK, JobsOK, FleetOK, FleetKeeps, JobInv, NEW k \in Jobs, NEW ok \in BOOLEAN, Finish(k, ok)
  PROVE  JobInv'
<1> PICK v : v = job[k].version
  OBVIOUS
<1> PICK e : e = job[k].at
  OBVIOUS
<1>0. job[k].state \in Active
  BY DEF Finish, Active
<1>9. job[k] \in JobRecords /\ e \in Endpoints /\ v \in Versions
  BY <1>0, JobBefore
<1> PICK t : t = IF ok THEN "JobCompleted" ELSE "JobFailed"
  OBVIOUS
<1> PICK s : s = IF ok THEN "done" ELSE "failed"
  OBVIOUS
<1> PICK b : b = JobEvent(t, e, k, Unversioned)
  OBVIOUS
<1> PICK c : c = FunctionEvent("FunctionDeactivated", e, env[e], v)
  OBVIOUS
<1> PICK r : r = [job[k] EXCEPT !.state = s, !.held = job[k].held \ {e}]
  OBVIOUS
<1>1. /\ Publish(e, <<b, c>>) /\ log' = log /\ job' = [job EXCEPT ![k] = r]
  BY DEF Finish, JobsOK
<1>2. job'[k] = r /\ \A j \in Jobs : j # k => job'[j] = job[j]
  BY <1>1 DEF JobsOK
<1>7. JobStatus[t] = Outcome(s) /\ t \in JobTypes /\ s \in {"done", "failed"}
  BY DEF JobStatus, JobTypes, Outcome
<1>3. b \in Events /\ b.type = t /\ b.job = k /\ b.version = Unversioned
  BY <1>7, <1>9, JobEventIs
<1>4. OfTypes(<<c>>, FunctionTypes)
  <2>1. env[e] \in Envs \cup {NoEnv}
    BY <1>9 DEF FleetOK
  <2>2. "FunctionDeactivated" \in FunctionTypes
    BY TypeSets
  <2>3. c \in Events /\ c.type \in FunctionTypes /\ c.ep = e
    BY <1>9, <2>1, <2>2, FunctionEventIs
  <2> QED  BY <2>3, OneSaid
<1>5. Speaks(<<b, c>>, k, t, Unversioned)
  <2>1. Speaks(<<b>>, k, t, Unversioned)
    BY <1>3, <1>7, SpeaksOne
  <2>2. Speaks(<<b>> \o <<c>>, k, t, Unversioned)
    BY <1>4, <2>1, SpeaksMore
  <2>3. <<b>> \o <<c>> = <<b, c>>
    BY TuplesJoined
  <2> QED  BY <2>2, <2>3
<1>6. r.state = s /\ r.at = e /\ r.moved = job[k].moved
  BY <1>9 DEF JobRecords
<1>8. /\ job'[k].at = e /\ job'[k].moved = job[k].moved
      /\ JobStatus[t] = Outcome(job'[k].state) /\ job'[k].state \in {"done", "failed"}
  BY <1>2, <1>6, <1>7
<1>10. Publish(e, <<b, c>>) /\ log' = log /\ \A j \in Jobs : j # k => job'[j] = job[j]
  BY <1>1, <1>2
<1> QED  BY <1>0, <1>5, <1>8, <1>9, <1>10, JobEnds

\* The jobs the cascade speaks of are written off, the others it says nothing about.
LEMMA JobCascade ==
  ASSUME FleetTypes, PipeOK, JobsOK, FleetKeeps, JobInv, NEW e \in Endpoints, PurgeCascade(e)
  PROVE  JobInv'
<1>0. log \in Seq(Events) /\ view' = view /\ job' = job /\ wire' = wire /\ WrittenOff(e) \subseteq purged'
  BY DEF PipeOK, PurgeCascade
<1>1. PICK js, vs : \E fj \in [WrittenOff(e) -> Events], fv \in [HeldBy(e) -> Events] :
           /\ AppendAll(js \o vs)
           /\ OfTypes(js, {"JobFailed"}) /\ OfTypes(vs, RemovalTypes)
           /\ Lists(js, fj) /\ \A j \in WrittenOff(e) : fj[j].job = j
           /\ Lists(vs, fv) /\ \A v \in HeldBy(e) : fv[v].version = v
  BY CascadeSays
<1>2. PICK fj \in [WrittenOff(e) -> Events] :
           /\ AppendAll(js \o vs)
           /\ OfTypes(js, {"JobFailed"}) /\ OfTypes(vs, RemovalTypes)
           /\ Lists(js, fj) /\ \A j \in WrittenOff(e) : fj[j].job = j
  BY <1>1
<1>3. js \in Seq(Events) /\ vs \in Seq(Events) /\ js \o vs \in Seq(Events)
  BY <1>2, ConcatParts DEF OfTypes
<1>4. ASSUME NEW j \in Jobs, j \notin WrittenOff(e)  PROVE JobOK(j)'
  <2>1. ~Has(js, About(j))
    BY <1>2, <1>4 DEF Has, Lists, About
  <2>2. ~Has(vs, About(j))
    <3>1. NoneOf(About(j), RemovalTypes)
      BY DisjointTypes, AboutFacts DEF NoneOf
    <3> QED  BY <1>2, <3>1, NotSaid
  <2>3. ~Has(js \o vs, About(j))
    BY <1>3, <2>1, <2>2, HasConcat
  <2>4. SilentOn(j)
    BY <1>0, <1>2, <1>3, <2>3, AppendOutside, SilentOutside
  <2>5. SameJob(j)
    BY <1>0 DEF SameJob
  <2> QED  BY <2>4, <2>5, JobInvIs, JobFrame
<1>5. ASSUME NEW j \in WrittenOff(e), j \in Jobs  PROVE JobOK(j)'
  <2>1. JobOK(j) /\ j \in purged'
    BY <1>0, <1>5, JobInvIs
  <2>2. JobPlaced(j)'
    BY <1>0, <2>1 DEF JobOK, JobPlaced
  <2>3. view.jobs[j].status \in {"QUEUED", "STARTED"}
    BY DEF WrittenOff, ShownActive
  <2>4. job[j].state # "unsent"
    BY <2>1, <2>3 DEF JobOK, JobUnsent, NoJob
  <2> QED  BY <1>0, <2>1, <2>2, <2>4 DEF JobOK, JobUnsent, JobActive, JobOver
<1> QED  BY <1>4, <1>5, JobInvIs

\* What the pipeline does to a job's events and document.
LEMMA WirePipe ==
  ASSUME PipeOK, PipeNext, NEW x \in Endpoints, NEW A, Has(wire'[x], A)
  PROVE  Has(wire[x], A)
<1>0. wire[x] \in Seq(Events)
  BY DEF PipeOK
<1>1. ASSUME NEW e \in Endpoints, Ingest(e) \/ IngestTwice(e) \/ IngestGivesUp(e)  PROVE Has(wire[x], A)
  <2>1. wire[e] # <<>> /\ (wire' = [wire EXCEPT ![e] = Tail(wire[e])] \/ wire' = wire)
    BY <1>1 DEF Ingest, IngestTwice, IngestGivesUp, Taken
  <2>2. wire'[x] = wire[x] \/ (x = e /\ wire'[x] = Tail(wire[x]))
    BY <2>1 DEF PipeOK
  <2>3. x = e => (Has(wire[x], A) <=> wire[x][1] \in A \/ Has(Tail(wire[x]), A))
    BY <1>0, <2>1, HasTail
  <2> QED  BY <2>2, <2>3
<1>2. CASE Project \/ ProjectUnmarked \/ ProjectFails \/ Resubscribe
  BY <1>2 DEF Project, ProjectUnmarked, ProjectFails, Resubscribe
<1> QED  BY <1>1, <1>2 DEF PipeNext

LEMMA AfootKept ==
  ASSUME PipeOK, PipeNext, NEW A, NoneLost(A), Afoot(A)
  PROVE  Afoot(A)' \/ (Project /\ Applied \in A)
<1>1. PICK x \in Endpoints : Due(wire[x], log, A)
  BY FleetAssumption DEF Afoot, Due
<1>2. {} \cap A = {} /\ OnlyFrom(x, {})
  BY DEF OnlyFrom, Has
<1>3. Due(wire'[x], log', A) \/ (Project /\ Applied \in A)
  BY <1>1, <1>2, SettledPipe
<1> QED  BY <1>3 DEF Afoot, Due

LEMMA JobApplied ==
  ASSUME PipeOK, Project \/ ProjectUnmarked, NEW j \in Jobs
  PROVE  /\ Applied \notin About(j) => view'.jobs[j] = view.jobs[j]
         /\ Applied \in About(j) => view'.jobs[j].status = JobStatus[Applied.type]
         /\ \A v \in Versions : Applied \in About(j) \ Stale(j, v) => ShownActive(j, v)'
<1>1. Applied \in Events /\ view' = Apply(view, Applied) /\ view \in Views
  BY AppliedIs DEF PipeOK
<1>2. CASE Applied \in OfEndpoint \cup OfFunction \cup OfLeader
  <2>1. view'.jobs = view.jobs
    BY <1>1, <1>2, ApplyAsEndpoint, ApplyAsFunction, ApplyAsLeader
  <2>2. Applied \notin About(j)
    <3>1. Applied.type \in EndpointTypes \cup FunctionTypes \cup RemovalTypes \cup LeaderTypes
      BY <1>2 DEF OfEndpoint, OfFunction, OfLeader
    <3> QED  BY <3>1, DisjointTypes, AboutFacts
  <2> QED  BY <2>1, <2>2
<1>3. CASE Applied \in OfJob
  <2> PICK k : k = Applied.job
    OBVIOUS
  <2>1. k \in Jobs /\ Applied.type \in JobTypes
    BY <1>3 DEF OfJob
  <2> PICK doc : doc = ApplyJob(view.jobs[k], Applied)
    OBVIOUS
  <2>2. view'.jobs = [view.jobs EXCEPT ![k] = doc]
    BY <1>1, <1>3, ApplyAsJob
  <2>3. view.jobs \in [Jobs -> JobDocs] /\ view.jobs[k] \in JobDocs
    BY <1>1, <2>1, ViewsAre
  <2>4. /\ doc.status = JobStatus[Applied.type]
        /\ Applied.type = "JobQueued" \/ Applied.version # Unversioned => doc.version = Applied.version
    BY <1>3, <2>3, ApplyJobIs
  <2>5. Applied \in About(j) <=> k = j
    BY <1>1, <2>1 DEF About
  <2>6. view'.jobs[j] = IF k = j THEN doc ELSE view.jobs[j]
    BY <2>2, <2>3
  <2>7. ASSUME NEW v \in Versions, Applied \in About(j) \ Stale(j, v)  PROVE ShownActive(j, v)'
    <3>1. Applied.type \in {"JobQueued", "JobStarted"} /\ Applied.version = v
      BY <2>7 DEF Stale
    <3>2. v # Unversioned
      BY ReadModelAssumption DEF Versions, Unversioned
    <3>3. doc.version = v /\ doc.status \in {"QUEUED", "STARTED"}
      BY <2>4, <3>1, <3>2 DEF JobStatus
    <3> QED  BY <2>5, <2>6, <2>7, <3>3 DEF ShownActive
  <2> QED  BY <2>4, <2>5, <2>6, <2>7
<1> QED  BY <1>1, <1>2, <1>3, EventKinds

LEMMA JobPipe ==
  ASSUME PipeOK, JobsOK, JobInv, PipeNext, UNCHANGED fleetVars
  PROVE  JobInv'
<1>0. job' = job /\ purged' = purged /\ lost \subseteq lost'
  BY LostGrows DEF fleetVars
<1>9. ASSUME NEW j \in Jobs  PROVE JobOK(j)'
  <2>0. JobPlaced(j) /\ JobUnsent(j) /\ JobActive(j) /\ JobOver(j)
    BY JobInvIs DEF JobOK
  <2>1. \A A : Afoot(A)' => Afoot(A)
    BY AfootPipe
  <2>2. Project \/ ProjectUnmarked => \A A : Applied \in A => Afoot(A)
    BY AppliedIs DEF Has, Afoot
  <2>3. Project \/ ProjectUnmarked \/ view' = view
    BY PipeCases
  <2>4. JobPlaced(j)'
    BY <1>0, <2>0, WirePipe DEF JobPlaced
  <2>5. JobUnsent(j)'
    <3> SUFFICES ASSUME job'[j].state = "unsent"  PROVE view'.jobs[j] = NoJob /\ ~Afoot(About(j))'
      BY DEF JobUnsent
    <3>1. view.jobs[j] = NoJob /\ ~Afoot(About(j))
      BY <1>0, <2>0 DEF JobUnsent
    <3>2. view'.jobs[j] = view.jobs[j]
      BY <2>2, <2>3, <3>1, JobApplied
    <3> QED  BY <2>1, <3>1, <3>2
  <2>6. JobActive(j)'
    <3> SUFFICES ASSUME job'[j].state \in Active, j \notin purged', NEW v \in Versions, v = job'[j].version
                 PROVE  ActiveAs(j, v)'
      BY DEF JobActive
    <3>1. ActiveAs(j, v)
      BY <1>0, <2>0 DEF JobActive
    <3>2. ~Afoot(Stale(j, v)) /\ ~Afoot(Stale(j, v))'
      BY <2>1, <3>1 DEF ActiveAs
    <3>3. CASE <<"activity">> \in lost'
      BY <3>2, <3>3 DEF ActiveAs
    <3>4. CASE <<"activity">> \notin lost'
      <4>1. ShownActive(j, v) \/ Afoot(About(j))
        BY <1>0, <3>1, <3>4 DEF ActiveAs
      <4>2. Afoot(About(j)) => Afoot(About(j))' \/ (Project /\ Applied \in About(j))
        <5>1. NoneLost(About(j))
          BY <3>4, AboutFacts
        <5> QED  BY <5>1, AfootKept
      <4>3. (Project \/ ProjectUnmarked) /\ Applied \in About(j) => ShownActive(j, v)'
        BY <2>2, <3>2, JobApplied
      <4>4. (Project \/ ProjectUnmarked) /\ Applied \notin About(j) => view'.jobs[j] = view.jobs[j]
        BY JobApplied
      <4>5. view'.jobs[j] = view.jobs[j] /\ ShownActive(j, v) => ShownActive(j, v)'
        BY DEF ShownActive
      <4>6. ShownActive(j, v) => ShownActive(j, v)'
        BY <2>3, <4>3, <4>4, <4>5
      <4> QED  BY <3>2, <4>1, <4>2, <4>3, <4>6 DEF ActiveAs
    <3> QED  BY <3>3, <3>4
  <2>7. JobOver(j)'
    <3> SUFFICES ASSUME job'[j].state \in {"done", "failed"}, ~job'[j].moved, j \notin purged',
                        <<"activity">> \notin lost'
                 PROVE  LET w == wire'[job'[j].at]  st == Outcome(job'[j].state)
                        IN  /\ Settled(w, log', NotShowing(j, st), Showing(j, st))
                            /\ view'.jobs[j].status # st => Due(w, log', Showing(j, st))
      BY DEF JobOver
    <3> PICK e : e = job[j].at
      OBVIOUS
    <3> PICK st : st = Outcome(job[j].state)
      OBVIOUS
    <3>1. /\ Settled(wire[e], log, NotShowing(j, st), Showing(j, st))
          /\ view.jobs[j].status # st => Due(wire[e], log, Showing(j, st))
      BY <1>0, <2>0 DEF JobOver
    <3>2. e \in Endpoints
      BY <1>0, PlacedJob
    <3>3. NoneLost(Showing(j, st)) /\ NotShowing(j, st) \cap Showing(j, st) = {}
      BY AboutFacts
    <3>4. OnlyFrom(e, NotShowing(j, st))
      <4>1. \A x \in Endpoints : Has(wire[x], About(j)) => x = e
        BY <1>0, <2>0 DEF JobPlaced
      <4>2. NotShowing(j, st) \subseteq About(j)
        BY AboutFacts
      <4>3. \A x \in Endpoints : Has(wire[x], NotShowing(j, st)) => Has(wire[x], About(j))
        BY <4>2, HasPart
      <4> QED  BY <4>1, <4>3 DEF OnlyFrom
    <3>5. /\ Settled(wire'[e], log', NotShowing(j, st), Showing(j, st))
          /\ Due(wire[e], log, Showing(j, st)) =>
               Due(wire'[e], log', Showing(j, st)) \/ (Project /\ Applied \in Showing(j, st))
          /\ (Project \/ ProjectUnmarked) /\ Applied \in NotShowing(j, st) => Due(wire'[e], log', Showing(j, st))
      BY <3>1, <3>2, <3>3, <3>4, SettledPipe
    <3>6. Project \/ ProjectUnmarked =>
            /\ Applied \in Showing(j, st) => view'.jobs[j].status = st
            /\ Applied \in Showing(j, st) \/ Applied \in NotShowing(j, st) \/ view'.jobs[j] = view.jobs[j]
      BY JobApplied DEF Showing, NotShowing
    <3>7. view'.jobs[j].status # st => Due(wire'[e], log', Showing(j, st))
      BY <2>3, <3>1, <3>5, <3>6
    <3> QED  BY <1>0, <3>5, <3>7
  <2> QED  BY <2>4, <2>5, <2>6, <2>7 DEF JobOK
<1> QED  BY <1>9, JobInvIs

LEMMA JobInitial == VemInit => JobInv
<1> SUFFICES ASSUME VemInit, NEW j \in Jobs  PROVE JobOK(j)
  BY JobInvIs
<1>1. log = <<>> /\ (\A e \in Endpoints : wire[e] = <<>>) /\ job[j].state = "unsent" /\ view.jobs[j] = NoJob
  BY DEF VemInit, Unsent
<1>2. \A A : ~Afoot(A)
  BY <1>1 DEF Afoot, Has
<1>3. JobPlaced(j)
  BY <1>1 DEF JobPlaced, Has
<1> QED  BY <1>1, <1>2, <1>3 DEF JobOK, JobUnsent, JobActive, JobOver, Active

\* The other steps are not about jobs.
SameJobs == SaysNone(JobTypes) /\ job' = job

LEMMA JobOthers ==
  ASSUME FleetTypes, EndpointStep \/ VemStep, \A e \in Endpoints : ~Stop(e) /\ ~Crash(e) /\ ~PurgeCascade(e),
         \A k \in Jobs : /\ ~Refuse(k) /\ ~DeployFails(k) /\ ~Start(k)
                         /\ \A ok \in BOOLEAN : ~Finish(k, ok)
                         /\ \A e \in Endpoints : ~Forward(k, e) /\ \A v \in Versions : ~Submit(k, e, v)
  PROVE  SameJobs
<1>1. ASSUME NEW e \in Endpoints, Boot(e) \/ Elect(e) \/ Metrics(e)  PROVE SameJobs
  <2>1. SaysOnly(EndpointTypes \cup LeaderTypes) \/ SaysOnly(LeaderTypes) \/ SaysOnly(EndpointTypes)
    BY <1>1, BootTypes, ElectTypes, MetricsTypes
  <2>2. (EndpointTypes \cup LeaderTypes) \cap JobTypes = {}
    BY DisjointTypes
  <2>3. SaysNone(JobTypes)
    BY <2>1, <2>2, DisjointTypes DEF SaysNone
  <2> QED  BY <1>1, <2>3 DEF Boot, Elect, Metrics, fleetVars, SameJobs
<1>2. ASSUME NEW e \in Endpoints, Replicate(e)  PROVE SameJobs
  <2>1. SaysNone(JobTypes)
    BY <1>2, ReplicateTypes, DisjointTypes DEF SaysNone
  <2> QED  BY <1>2, <2>1 DEF Replicate, SameJobs
<1>3. ASSUME NEW e \in Endpoints, NEW v \in Versions, Retire(e, v)  PROVE SameJobs
  <2>1. SaysNone(JobTypes)
    BY <1>3, RetireTypes, DisjointTypes DEF SaysNone
  <2> QED  BY <1>3, <2>1 DEF Retire, SameJobs
<1>4. ASSUME NEW e \in Endpoints, Ping(e)  PROVE SameJobs
  <2>1. SaysOnly({}) /\ {} \cap JobTypes = {}
    BY <1>4, PingTypes
  <2> QED  BY <1>4, <2>1 DEF Ping, SameJobs, SaysNone
<1>5. ASSUME NEW e \in Endpoints, NEW v \in Envs \cup {NoEnv}, Assign(e, v)  PROVE SameJobs
  <2>1. SaysNone(JobTypes)
    BY <1>5, AssignTypes, DisjointTypes DEF SaysNone
  <2>2. job' = job
    BY <1>5 DEF Assign
  <2> QED  BY <2>1, <2>2 DEF SameJobs
<1>6. CASE Verdict \/ Register
  <2>1. SaysNone(JobTypes)
    BY <1>6, VerdictTypes, RegisterTypes, DisjointTypes DEF SaysNone
  <2>2. job' = job
    BY <1>6 DEF Verdict, Register
  <2> QED  BY <2>1, <2>2 DEF SameJobs
<1>7. CASE PurgeRemove
  <2>1. SaysOnly({}) /\ {} \cap JobTypes = {}
    BY <1>7, PurgeRemoveTypes
  <2> QED  BY <1>7, <2>1 DEF PurgeRemove, SameJobs, SaysNone
<1>8. ASSUME NEW v \in Versions, Delete(v)  PROVE SameJobs
  <2>1. SaysNone(JobTypes)
    BY <1>8, DeleteTypes, DisjointTypes DEF SaysNone
  <2>2. job' = job
    BY <1>8 DEF Delete
  <2> QED  BY <2>1, <2>2 DEF SameJobs
<1>9. ASSUME NEW v \in Versions, PurgeVersion(v)  PROVE SameJobs
  <2>1. SaysOnly({}) /\ {} \cap JobTypes = {}
    BY <1>9, PurgeVersionTypes
  <2>2. job' = job
    BY <1>9 DEF PurgeVersion
  <2> QED  BY <2>1, <2>2 DEF SameJobs, SaysNone
<1>10. CASE EndpointStep
  BY <1>1, <1>2, <1>3, <1>10 DEF EndpointStep
<1>11. CASE VemStep
  BY <1>4, <1>5, <1>6, <1>7, <1>8, <1>9, <1>11 DEF VemStep
<1> QED  BY <1>10, <1>11

LEMMA JobStop ==
  ASSUME FleetTypes, PipeOK, JobsOK, FleetKeeps, JobInv, NEW e \in Endpoints, Stop(e)
  PROVE  JobInv'
<1>1. SaysOnly(EndpointTypes) /\ GoneDown(e)
  BY StopTypes DEF Stop
<1>2. ASSUME NEW j \in Jobs  PROVE SilentOn(j)
  <2>1. NoneOf(About(j), EndpointTypes)
    BY DisjointTypes, AboutFacts DEF NoneOf
  <2> QED  BY <1>1, <2>1, OnlyIsOutside, SilentOutside
<1> QED  BY <1>1, <1>2, JobDown

LEMMA JobCrash ==
  ASSUME PipeOK, JobsOK, FleetKeeps, JobInv, NEW e \in Endpoints, Crash(e)
  PROVE  JobInv'
<1>1. GoneDown(e)
  BY DEF Crash
<1>2. \A j \in Jobs : SilentOn(j)
  BY SilentCrash
<1> QED  BY <1>1, <1>2, JobDown

LEMMA JobStep ==
  ASSUME FleetTypes, JobInv, [VemNext]_vemVars
  PROVE  JobInv'
<1>0. PipeOK /\ JobsOK /\ FleetOK
  BY TypesAre
<1>1. CASE EndpointStep \/ VemStep
  <2>1. FleetKeeps
    BY <1>1, FleetKept
  <2>2. ASSUME NEW e \in Endpoints, Stop(e) \/ Crash(e) \/ PurgeCascade(e)  PROVE JobInv'
    BY <1>0, <2>1, <2>2, JobStop, JobCrash, JobCascade
  <2>3. ASSUME NEW k \in Jobs, Refuse(k) \/ DeployFails(k) \/ Start(k)  PROVE JobInv'
    BY <1>0, <2>1, <2>3, JobRefuse, JobDeployFails, JobStart
  <2>4. ASSUME NEW k \in Jobs, NEW ok \in BOOLEAN, Finish(k, ok)  PROVE JobInv'
    BY <1>0, <2>1, <2>4, JobFinish
  <2>5. ASSUME NEW k \in Jobs, NEW e \in Endpoints, Forward(k, e)  PROVE JobInv'
    BY <1>0, <2>1, <2>5, JobForward
  <2>6. ASSUME NEW k \in Jobs, NEW e \in Endpoints, NEW v \in Versions, Submit(k, e, v)  PROVE JobInv'
    BY <1>0, <2>1, <2>6, JobSubmit
  <2>7. ASSUME \A e \in Endpoints : ~Stop(e) /\ ~Crash(e) /\ ~PurgeCascade(e),
               \A k \in Jobs : /\ ~Refuse(k) /\ ~DeployFails(k) /\ ~Start(k)
                               /\ \A ok \in BOOLEAN : ~Finish(k, ok)
                               /\ \A e \in Endpoints : ~Forward(k, e) /\ \A v \in Versions : ~Submit(k, e, v)
        PROVE  JobInv'
    <3>1. SameJobs
      BY <1>1, <2>7, JobOthers
    <3> QED  BY <1>0, <2>1, <3>1, JobSays DEF SameJobs
  <2> QED  BY <2>2, <2>3, <2>4, <2>5, <2>6, <2>7
<1>2. CASE PipeNext /\ UNCHANGED fleetVars
  BY <1>0, <1>2, JobPipe
<1>3. CASE UNCHANGED vemVars
  BY <1>3 DEF vemVars, JobInv, JobPlaced, JobUnsent, JobActive, ActiveAs, ShownActive, Afoot, JobOver
<1> QED  BY <1>1, <1>2, <1>3 DEF VemNext

\* JobShownRight: once everything under way has been applied, the document of a job that
\* ended (on_job_finished) tells how, for any number of repeated frames and replayed
\* records, but for the exceptions the property names.
THEOREM JobAlwaysShownRight == VemSpec => []JobShownRight
<1>1. VemInit => JobInv
  BY JobInitial
<1>2. FleetTypes /\ JobInv /\ [VemNext]_vemVars => JobInv'
  BY JobStep
<1>3. FleetTypes /\ JobInv => JobShownRight
  <2> SUFFICES ASSUME FleetTypes, JobInv, Quiet, <<"activity">> \notin lost, NEW j \in Jobs \ purged,
                      job[j].state \in {"done", "failed"}, ~job[j].moved
               PROVE  view.jobs[j].status = Outcome(job[j].state)
    BY DEF JobShownRight, Outcome
  <2>1. JobsOK
    BY TypesAre
  <2>2. job[j].at \in Endpoints
    BY <2>1, PlacedJob
  <2>3. \A A : ~Due(wire[job[j].at], log, A)
    BY <2>2 DEF Due, Has, Quiet
  <2> QED  BY <2>3 DEF JobInv, JobOver
<1> QED  BY <1>1, <1>2, <1>3, FleetInvariant, PTL DEF VemSpec

\* The leader's registry loses a version only as its documents allow.
LEMMA OnlyDeleted ==
  ASSUME FleetTypes, [VemNext]_vemVars, NEW v \in stored[Leader], v \notin stored'[Leader]
  PROVE  v \in Versions /\ MayDelete(v)
<1>0. PipeOK /\ JobsOK /\ FleetOK
  BY TypesAre
<1>1. v \in Versions
  BY <1>0, FleetAssumption DEF FleetOK
<1>2. CASE EndpointStep \/ VemStep
  <2>1. ASSUME NEW e \in Endpoints, Crash(e) \/ PurgeCascade(e)  PROVE stored'[Leader] = stored[Leader]
    BY <1>0, <2>1, FleetAssumption DEF Crash, GoneDown, PurgeCascade, FleetOK
  <2>2. ASSUME NEW n \in Versions, PurgeVersion(n)  PROVE stored'[Leader] = stored[Leader]
    BY <2>2 DEF PurgeVersion
  <2>3. ASSUME Register  PROVE FALSE
    <3>1. stored' = [stored EXCEPT ![Leader] = stored[Leader] \cup {NextVersion}]
      BY <2>3 DEF Register
    <3> QED  BY <1>0, <3>1, FleetAssumption DEF FleetOK
  <2>4. ASSUME NEW n \in Versions, Delete(n)  PROVE MayDelete(v)
    <3>1. MayDelete(n) /\ stored' = [stored EXCEPT ![Leader] = stored[Leader] \ {n}]
      BY <2>4 DEF Delete
    <3>2. v = n
      BY <1>0, <3>1, FleetAssumption DEF FleetOK
    <3> QED  BY <3>1, <3>2
  <2>5. ASSUME ~Register, \A e \in Endpoints : ~Crash(e) /\ ~PurgeCascade(e),
               \A n \in Versions : ~Delete(n) /\ ~PurgeVersion(n)
        PROVE  stored'[Leader] = stored[Leader]
    <3>1. SameFunctions
      BY <1>2, <2>5, FunctionOthers
    <3> QED  BY <3>1 DEF SameFunctions
  <2> QED  BY <1>1, <2>1, <2>2, <2>3, <2>4, <2>5
<1>3. CASE PipeNext /\ UNCHANGED fleetVars
  BY <1>3 DEF fleetVars
<1>4. CASE UNCHANGED vemVars
  BY <1>4 DEF vemVars
<1> QED  BY <1>1, <1>2, <1>3, <1>4 DEF VemNext

\* A job that runs is shown active, once nothing is under way.
LEMMA ActiveIsShown ==
  ASSUME JobInv, Quiet, NEW v \in Versions, MayDelete(v), NEW j \in Jobs, job[j].version = v,
         job[j].state \in Active, j \notin purged
  PROVE  <<"activity">> \in lost
<1>1. ActiveAs(j, v)
  BY DEF JobInv, JobActive
<1>2. ~ShownActive(j, v)
  BY DEF MayDelete
<1>3. ~Afoot(About(j))
  BY DEF Afoot, Has, Quiet
<1> QED  BY <1>1, <1>2, <1>3 DEF ActiveAs

\* DeletedIdle: DeleteFunctionUseCase lets a function be deleted under a job that runs
\* only if its documents were behind, an event of the job was lost, or it was written off.
THEOREM NeverDeletedInUse == VemSpec => DeletedIdle
<1> DEFINE Step == \A v \in stored[Leader] \ stored'[Leader], j \in Jobs :
                     job[j].version = v /\ job[j].state \in Active =>
                       ~Quiet \/ <<"activity">> \in lost \/ j \in purged
<1>1. VemInit => JobInv
  BY JobInitial
<1>2. FleetTypes /\ JobInv /\ [VemNext]_vemVars => JobInv'
  BY JobStep
<1>3. FleetTypes /\ JobInv /\ [VemNext]_vemVars => [Step]_vemVars
  BY OnlyDeleted, ActiveIsShown
<1> QED  BY <1>1, <1>2, <1>3, FleetInvariant, PTL DEF VemSpec, DeletedIdle
=============================================================================
