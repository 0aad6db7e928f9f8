-------------------------- MODULE JobServiceProofs --------------------------
(***************************************************************************)
(* Theorems about JobService, for any mesh, any jobs and any bounds.  From  *)
(* its submission to its execution a job is in one place: with the router   *)
(* that is placing it, or in one JOB_FORWARD on its way.  A router learns   *)
(* that it has a slot only from the leader's answer to its own question,    *)
(* since a router has one call under way at a time, and a call that has     *)
(* timed out is answered to nobody.                                         *)
(***************************************************************************)
EXTENDS JobService, SequenceTheorems, TLAPS

\* The router of e is placing job j, or asks for a slot to run it.
Holds(e, j) ==
  /\ th[Router(e)].op = "submit" /\ th[Router(e)].stage \in {"place", "slot"}
  /\ th[Router(e)].job = j

\* Command i at x places job j with x.
Carries(m, j) == m.op = "forward" /\ m.job = j

Known(j) == \E x \in Endpoints : results[x][j] # None

\* A job that is anywhere has a result somewhere: no client submits it again.
KnownFirst ==
  /\ \A e \in Endpoints, j \in Jobs : Holds(e, j) => Known(j)
  /\ \A x \in Endpoints, j \in Jobs : \A i \in DOMAIN inbox[x] : Carries(inbox[x][i], j) => Known(j)
  /\ \A e \in Endpoints, j \in Jobs : runs[e][j] # 0 => Known(j)

\* A job is with one router, in one command, or has been run.
OneToken ==
  /\ \A e, x \in Endpoints, j \in Jobs : Holds(e, j) /\ Holds(x, j) => e = x
  /\ \A e, x \in Endpoints, j \in Jobs : Holds(e, j) =>
       runs[x][j] = 0 /\ \A i \in DOMAIN inbox[x] : ~Carries(inbox[x][i], j)
  /\ \A x, y \in Endpoints, j \in Jobs : \A i \in DOMAIN inbox[x], k \in DOMAIN inbox[y] :
       Carries(inbox[x][i], j) /\ Carries(inbox[y][k], j) => x = y /\ i = k
  /\ \A x, y \in Endpoints, j \in Jobs : \A i \in DOMAIN inbox[x] :
       Carries(inbox[x][i], j) => runs[y][j] = 0

\* Thread u is at work on a command of thread t.
Serves(u, t) == th[u].op \in {"submit", "sync"} /\ th[u].caller = t

\* A router has one call under way, and waits for it.
OneCall ==
  \A e \in Endpoints :
    /\ \A x \in Endpoints : \A i \in DOMAIN inbox[x] : inbox[x][i].from = Router(e) =>
         Waiting(Router(e)) /\ th[Router(e)].to = x
    /\ \A u \in Threads : Serves(u, Router(e)) => Waiting(Router(e)) /\ u # Router(e)
    /\ \A x, y \in Endpoints : \A i \in DOMAIN inbox[x], k \in DOMAIN inbox[y] :
         inbox[x][i].from = Router(e) /\ inbox[y][k].from = Router(e) => x = y /\ i = k
    /\ \A u, v \in Threads : Serves(u, Router(e)) /\ Serves(v, Router(e)) => u = v
    /\ \A x \in Endpoints, u \in Threads : \A i \in DOMAIN inbox[x] :
         ~(inbox[x][i].from = Router(e) /\ Serves(u, Router(e)))

\* A router calls other endpoints only, and only one that has asked for a slot is told
\* that it has one.
RouterFine(e) ==
  LET r == th[Router(e)]
  IN  /\ r.op # "idle" => r.to # e
      /\ r.op \in {"sync", "report", "verify"} => e \notin r.left
      /\ r.op = "report" => e # Leader
      /\ r.op # "idle" /\ r.answer \in {"granted", "place"} => r.op = "submit" /\ r.stage = "slot"
      /\ r.op = "submit" /\ r.stage \in {"place", "ok", "err"} => r.to = Nobody

AsksForSlot(e) == th[Router(e)].op = "submit" /\ th[Router(e)].stage = "slot"

SlotsAreAskedFor ==
  /\ \A e \in Endpoints : RouterFine(e)
  /\ \A x \in Endpoints : \A i \in DOMAIN inbox[x] :
       inbox[x][i].op = "slot" /\ inbox[x][i].from # Nobody =>
         \E e \in Endpoints : inbox[x][i].from = Router(e) /\ AsksForSlot(e)

\* App._active_job_ids: what is placed or runs here is in it, what has run is not.
ActiveInv ==
  \A e \in Endpoints :
    /\ running[e] \subseteq active[e]
    /\ \A j \in running[e] : runs[e][j] # 0
    /\ \A j \in Jobs : Holds(e, j) => j \in active[e]
    /\ \A j \in active[e] : j \in running[e] \/ runs[e][j] = 0

\* A thread at work on job j, or a command about it, takes it for executed.
Claims(r, j) ==
  /\ r.op \in {"report", "sync", "verify", "replicate"}
  /\ r.job = j /\ r.val \in {"done", "rival"}

Over(j) == (\E x \in Endpoints : runs[x][j] # 0) /\ \A x \in Endpoints : j \notin running[x]

\* Only a job that has been executed, and is not running any more, is said to be done:
\* by a result at any endpoint, and by what is under way between them.
Truthful ==
  /\ \A e \in Endpoints, j \in Jobs : results[e][j] \in {"done", "rival"} => Over(j)
  /\ \A u \in Threads, j \in Jobs : Claims(th[u], j) => Over(j)
  /\ \A x \in Endpoints, j \in Jobs : \A i \in DOMAIN inbox[x] : Claims(inbox[x][i], j) => Over(j)

Calls == OneCall /\ SlotsAreAskedFor
Tokens == KnownFirst /\ OneToken /\ ActiveInv /\ RunsOnce

JobInv == JobTypeOK /\ Calls /\ Tokens /\ Truthful

-----------------------------------------------------------------------------
(* Threads *)

\* What an operation is at tells its record apart.
LEMMA ThreadKinds ==
  ASSUME NEW r \in ThreadState
  PROVE  /\ r.op \in {"idle", "submit", "report", "sync", "verify"}
         /\ r.op = "idle" => r = Idle
         /\ r.op = "submit" => r \in SubmitCall
         /\ r.op \in {"report", "sync"} => r \in PushCall
         /\ r.op = "verify" => r \in VerifyCall
         /\ r.op # "idle" => r.job \in Jobs /\ r.to \in Endpoints \cup {Nobody} /\ r.answer \in Answers
  BY DEF ThreadState, Idle, SubmitCall, PushCall, VerifyCall

\* Everything but the answer is as it was.
SameCall(h, r) ==
  /\ h.op = r.op
  /\ r.op # "idle" => /\ h.job = r.job /\ h.caller = r.caller /\ h.stage = r.stage
                      /\ h.to = r.to
  /\ r.op \in {"report", "sync", "verify"} => h.left = r.left /\ h.val = r.val

\* The answer arrives; an idle thread does not notice.
LEMMA AnswerArrives ==
  ASSUME NEW r \in ThreadState, NEW a \in Answers
  PROVE  LET h == [r EXCEPT !.answer = a]
         IN  /\ h \in ThreadState /\ SameCall(h, r)
             /\ r.op # "idle" => h.answer = a
<1> DEFINE h == [r EXCEPT !.answer = a]
<1>1. CASE r = Idle
  <2>1. h = Idle
    BY <1>1 DEF Idle
  <2> QED  BY <1>1, <2>1 DEF ThreadState, Idle, SameCall
<1>2. CASE r \in SubmitCall
  BY <1>2 DEF ThreadState, SubmitCall, SameCall
<1>3. CASE r \in PushCall
  BY <1>3 DEF ThreadState, PushCall, SameCall
<1>4. CASE r \in VerifyCall
  BY <1>4 DEF ThreadState, VerifyCall, SameCall
<1> QED  BY <1>1, <1>2, <1>3, <1>4 DEF ThreadState

\* The caller has given up.
LEMMA CallerGone ==
  ASSUME NEW r \in ThreadState, r.op \in {"submit", "sync"}
  PROVE  LET h == [r EXCEPT !.caller = Nobody]
         IN  /\ h \in ThreadState /\ h.op = r.op /\ h.job = r.job /\ h.stage = r.stage
             /\ h.to = r.to /\ h.answer = r.answer /\ h.caller = Nobody
             /\ r.op = "sync" => h.left = r.left /\ h.val = r.val
<1>1. CASE r \in SubmitCall
  BY <1>1 DEF ThreadState, SubmitCall, Callers
<1>2. CASE r \in PushCall
  BY <1>2 DEF ThreadState, PushCall, Callers
<1> QED  BY <1>1, <1>2, ThreadKinds

\* A push goes to its next peer, or comes back from it.
Goes(h, r, x) == \E n \in Nat : h = [r EXCEPT !.to = x, !.answer = None, !.tries = n]

LEMMA PushGoes ==
  ASSUME NEW r \in ThreadState, r.op \in {"report", "sync", "verify"}, NEW x \in Endpoints,
         NEW h, Goes(h, r, x)
  PROVE  /\ h \in ThreadState /\ h.op = r.op /\ h.caller = r.caller /\ h.left = r.left
         /\ h.job = r.job /\ h.val = r.val /\ h.to = x /\ h.answer = None
<1>0. PICK n \in Nat : h = [r EXCEPT !.to = x, !.answer = None, !.tries = n]
  BY DEF Goes
<1>1. CASE r \in PushCall
  BY <1>0, <1>1 DEF ThreadState, PushCall, Answers
<1>2. CASE r \in VerifyCall
  BY <1>0, <1>2 DEF ThreadState, VerifyCall, Answers
<1> QED  BY <1>1, <1>2, ThreadKinds

LEMMA PushBack ==
  ASSUME NEW r \in ThreadState, r.op \in {"report", "sync", "verify"}
  PROVE  LET h == [r EXCEPT !.to = Nobody]
         IN  /\ h \in ThreadState /\ h.op = r.op /\ h.caller = r.caller /\ h.left = r.left
             /\ h.job = r.job /\ h.val = r.val /\ h.to = Nobody /\ h.answer = r.answer
<1>1. CASE r \in PushCall
  BY <1>1 DEF ThreadState, PushCall, Answers
<1>2. CASE r \in VerifyCall
  BY <1>2 DEF ThreadState, VerifyCall, Answers
<1> QED  BY <1>1, <1>2, ThreadKinds

LEMMA PushServed ==
  ASSUME NEW r \in ThreadState, r.op \in {"report", "sync", "verify"}, NEW l \in SUBSET Endpoints
  PROVE  LET h == [r EXCEPT !.to = Nobody, !.left = l, !.tries = 0]
         IN  /\ h \in ThreadState /\ h.op = r.op /\ h.caller = r.caller /\ h.left = l
             /\ h.job = r.job /\ h.val = r.val /\ h.to = Nobody /\ h.answer = r.answer
<1>1. CASE r \in PushCall
  BY <1>1 DEF ThreadState, PushCall, Answers
<1>2. CASE r \in VerifyCall
  BY <1>2 DEF ThreadState, VerifyCall, Answers
<1> QED  BY <1>1, <1>2, ThreadKinds

LEMMA SyncMoves ==
  ASSUME NEW r \in ThreadState, r.op = "sync", NEW s \in {"mark", "fanout"}
  PROVE  LET h == [r EXCEPT !.stage = s]
         IN  /\ h \in ThreadState /\ h.op = "sync" /\ h.caller = r.caller /\ h.left = r.left
             /\ h.job = r.job /\ h.val = r.val /\ h.to = r.to /\ h.answer = r.answer
<1>1. r \in PushCall
  BY ThreadKinds
<1> QED  BY <1>1 DEF ThreadState, PushCall

OthersStay(t) == \A u \in Threads : u # t => th'[u] = th[u]

LEMMA ThreadSet ==
  ASSUME JobTypeOK, NEW t \in Threads, NEW h \in ThreadState, th' = [th EXCEPT ![t] = h]
  PROVE  th' \in [Threads -> ThreadState] /\ th'[t] = h /\ OthersStay(t)
<1>1. th \in [Threads -> ThreadState]
  BY DEF JobTypeOK
<1> QED  BY <1>1 DEF OthersStay

LEMMA Routers ==
  /\ \A e \in Endpoints : Router(e) \in Threads
  /\ \A e, x \in Endpoints : Router(e) = Router(x) => e = x
  /\ \A e, x \in Endpoints, j \in Jobs : Reporter(e, j) \in Threads /\ Reporter(e, j) # Router(x)
  /\ Sweep \in Threads /\ \A x \in Endpoints : Sweep # Router(x)
  /\ \A e \in Endpoints : Router(e) # Nobody
<1>1. /\ \A e \in Endpoints : Router(e) \in Threads
      /\ \A e \in Endpoints, j \in Jobs : Reporter(e, j) \in Threads
      /\ Sweep \in Threads
  BY DEF Threads
<1>2. \A e, x \in Endpoints : Router(e) = Router(x) => e = x
  BY DEF Router
<1>3. \A e, x \in Endpoints, j \in Jobs : Reporter(e, j) # Router(x)
  BY NamesAssumption DEF Router, Reporter
<1>4. \A x \in Endpoints : Sweep # Router(x)
  BY DEF Router, Sweep
<1>5. \A e \in Endpoints : Router(e) # Nobody
  BY <1>1, NamesAssumption
<1> QED  BY <1>1, <1>2, <1>3, <1>4, <1>5

LEMMA ThreadIs ==
  ASSUME JobTypeOK
  PROVE  /\ \A u \in Threads : th[u] \in ThreadState
         /\ \A e \in Endpoints : th[Router(e)] \in ThreadState
  BY Routers DEF JobTypeOK

\* A submission goes on.
LEMMA MovesShape ==
  ASSUME JobTypeOK, NEW e \in Endpoints, th[Router(e)].op = "submit", NEW x \in Endpoints \cup {Nobody},
         NEW s \in {"place", "slot", "forward", "ok", "err"}, Moves(Router(e), s, x)
  PROVE  /\ th' \in [Threads -> ThreadState] /\ OthersStay(Router(e))
         /\ LET r == th'[Router(e)]
            IN  /\ r.op = "submit" /\ r.job = th[Router(e)].job /\ r.caller = th[Router(e)].caller
                /\ r.stage = s /\ r.to = x /\ r.answer = None
<1> DEFINE t == Router(e)
           h == [th[t] EXCEPT !.stage = s, !.to = x, !.answer = None]
<1>1. t \in Threads /\ th[t] \in ThreadState /\ th \in [Threads -> ThreadState]
  BY Routers DEF JobTypeOK
<1>2. th' = [th EXCEPT ![t] = h]
  BY <1>1 DEF Moves
<1>3. /\ h \in ThreadState /\ h.op = "submit" /\ h.job = th[t].job /\ h.caller = th[t].caller
      /\ h.stage = s /\ h.to = x /\ h.answer = None
  <2>1. th[t] \in SubmitCall
    BY <1>1, ThreadKinds
  <2> QED  BY <2>1 DEF ThreadState, SubmitCall, Answers
<1> HIDE DEF h
<1> QED  BY <1>1, <1>2, <1>3, ThreadSet

\* An answer reaches its thread, if there is one.
LEMMA AnswerShape ==
  ASSUME JobTypeOK, NEW ths \in [Threads -> ThreadState], NEW c, NEW a \in Answers,
         th' = WithAnswer(ths, c, a)
  PROVE  /\ th' \in [Threads -> ThreadState]
         /\ \A u \in Threads : /\ SameCall(th'[u], ths[u])
                               /\ u # c \/ c = Nobody => th'[u] = ths[u]
                               /\ u = c /\ c # Nobody /\ ths[u].op # "idle" => th'[u].answer = a
<1>1. CASE c = Nobody \/ c \notin Threads
  <2>1. th' = ths
    BY <1>1 DEF WithAnswer
  <2> QED  BY <1>1, <2>1 DEF SameCall
<1>2. CASE c # Nobody /\ c \in Threads
  <2> DEFINE h == [ths[c] EXCEPT !.answer = a]
  <2>1. th' = [ths EXCEPT ![c] = h]
    BY <1>2 DEF WithAnswer
  <2>2. h \in ThreadState /\ SameCall(h, ths[c]) /\ (ths[c].op # "idle" => h.answer = a)
    BY <1>2, AnswerArrives
  <2> HIDE DEF h
  <2>3. th' \in [Threads -> ThreadState] /\ th'[c] = h /\ \A u \in Threads : u # c => th'[u] = ths[u]
    BY <1>2, <2>1, <2>2
  <2> QED  BY <1>2, <2>2, <2>3 DEF SameCall
<1> QED  BY <1>1, <1>2

-----------------------------------------------------------------------------
(* Commands on their way *)

\* Every command that waits after the step waited before it, perhaps with a caller
\* that has given up since; at says where it was in its queue.
Origin(at) ==
  \A x \in Endpoints : \A i \in DOMAIN inbox'[x] :
    /\ at[x][i] \in DOMAIN inbox[x]
    /\ \A k \in DOMAIN inbox'[x] : at[x][i] = at[x][k] => i = k
    /\ inbox'[x][i].op = inbox[x][at[x][i]].op /\ inbox'[x][i].job = inbox[x][at[x][i]].job
    /\ inbox'[x][i].val = inbox[x][at[x][i]].val
    /\ inbox'[x][i].from \in {inbox[x][at[x][i]].from, Nobody}

LEMMA InboxSame ==
  ASSUME UNCHANGED inbox
  PROVE  \E at : Origin(at)
<1> DEFINE at == [x \in Endpoints |-> [i \in DOMAIN inbox[x] |-> i]]
<1>1. Origin(at)
  BY DEF Origin
<1> QED  BY <1>1

LEMMA InboxIs ==
  ASSUME JobTypeOK, NEW x \in Endpoints
  PROVE  /\ inbox[x] \in Seq(Message) /\ Len(inbox[x]) \in Nat /\ DOMAIN inbox[x] = 1 .. Len(inbox[x])
         /\ \A i \in DOMAIN inbox[x] : inbox[x][i] \in Message
<1>1. inbox[x] \in Seq(Message)
  BY DEF JobTypeOK
<1> QED  BY <1>1, LenProperties, ElementOfSeq

LEMMA MessageIs ==
  ASSUME NEW m \in Message
  PROVE  /\ m.op \in {"slot", "forward", "sync", "replicate"} /\ m.job \in Jobs /\ m.from \in Callers
         /\ m.op \in {"sync", "replicate"} => m.val \in Results \ {None}
  BY DEF Message

\* The first command is taken.
LEMMA Dropped ==
  ASSUME JobTypeOK, NEW e \in Endpoints, inbox[e] # <<>>, Drop(e)
  PROVE  /\ inbox' \in [Endpoints -> Seq(Message)]
         /\ 1 \in DOMAIN inbox[e] /\ Head(inbox[e]) = inbox[e][1] /\ inbox[e][1] \in Message
         /\ \E at : Origin(at) /\ \A i \in DOMAIN inbox'[e] : at[e][i] # 1
<1> DEFINE q == inbox[e]
           r == Tail(q)
<1>1. /\ q \in Seq(Message) /\ r \in Seq(Message) /\ Len(r) = Len(q) - 1
      /\ \A i \in 1 .. Len(r) : r[i] = q[i + 1]
  BY InboxIs, HeadTailProperties
<1>2. Len(q) \in Nat \ {0} /\ DOMAIN q = 1 .. Len(q) /\ DOMAIN r = 1 .. Len(q) - 1
  BY <1>1, LenProperties, EmptySeq
<1>3. Head(q) = q[1] /\ 1 \in DOMAIN q /\ q[1] \in Message
  BY <1>2, InboxIs
<1>4. /\ inbox' \in [Endpoints -> Seq(Message)] /\ inbox'[e] = r
      /\ \A x \in Endpoints : x # e => inbox'[x] = inbox[x]
  BY <1>1 DEF Drop, JobTypeOK
<1> DEFINE at == [x \in Endpoints |-> [i \in DOMAIN inbox'[x] |-> IF x = e THEN i + 1 ELSE i]]
<1>5. \A i \in DOMAIN r : i + 1 \in DOMAIN q /\ r[i] = q[i + 1] /\ i + 1 # 1
  BY <1>1, <1>2
<1>6. \A i, k \in DOMAIN r : i + 1 = k + 1 => i = k
  BY <1>2
<1>7. /\ \A i \in DOMAIN r : at[e][i] = i + 1
      /\ \A x \in Endpoints : x # e => \A i \in DOMAIN inbox'[x] : at[x][i] = i
  BY <1>4
<1> HIDE DEF at, r
<1>8. Origin(at)
  <2> SUFFICES ASSUME NEW x \in Endpoints, NEW i \in DOMAIN inbox'[x]
               PROVE  /\ at[x][i] \in DOMAIN inbox[x]
                      /\ \A k \in DOMAIN inbox'[x] : at[x][i] = at[x][k] => i = k
                      /\ inbox'[x][i] = inbox[x][at[x][i]]
    BY DEF Origin
  <2>1. CASE x = e
    BY <1>4, <1>5, <1>6, <1>7, <2>1
  <2>2. CASE x # e
    BY <1>4, <1>7, <2>2
  <2> QED  BY <2>1, <2>2
<1>9. \A i \in DOMAIN inbox'[e] : at[e][i] # 1
  BY <1>4, <1>5, <1>7
<1> QED  BY <1>3, <1>4, <1>8, <1>9

\* A command is sent.
LEMMA Sent ==
  ASSUME JobTypeOK, NEW x \in Endpoints, NEW m \in Message, Send(x, m)
  PROVE  /\ inbox' \in [Endpoints -> Seq(Message)]
         /\ \A y \in Endpoints : y # x => inbox'[y] = inbox[y]
         /\ \E n \in DOMAIN inbox'[x] :
              /\ n \notin DOMAIN inbox[x] /\ inbox'[x][n] = m
              /\ \A i \in DOMAIN inbox'[x] : i # n => i \in DOMAIN inbox[x] /\ inbox'[x][i] = inbox[x][i]
<1> DEFINE q == inbox[x]
           a == Append(q, m)
<1>1. /\ a \in Seq(Message) /\ Len(a) = Len(q) + 1 /\ a[Len(q) + 1] = m
      /\ \A i \in 1 .. Len(q) : a[i] = q[i]
  BY InboxIs, AppendProperties
<1>2. Len(q) \in Nat /\ DOMAIN q = 1 .. Len(q) /\ DOMAIN a = 1 .. Len(q) + 1
  BY <1>1, InboxIs, LenProperties
<1>3. /\ inbox' \in [Endpoints -> Seq(Message)] /\ inbox'[x] = a
      /\ \A y \in Endpoints : y # x => inbox'[y] = inbox[y]
  BY <1>1 DEF Send, JobTypeOK
<1> HIDE DEF a
<1>4. /\ Len(q) + 1 \in DOMAIN a /\ Len(q) + 1 \notin DOMAIN q
      /\ \A i \in DOMAIN a : i # Len(q) + 1 => i \in DOMAIN q /\ a[i] = q[i]
  BY <1>1, <1>2
<1> QED  BY <1>1, <1>3, <1>4

-----------------------------------------------------------------------------
(* A router has one call under way *)

\* No command of router e waits or is being carried out after the step.
NoCall(e) ==
  /\ \A x \in Endpoints : \A i \in DOMAIN inbox'[x] : inbox'[x][i].from # Router(e)
  /\ \A u \in Threads : ~Serves(u, Router(e))'

\* Calls end and none begins.
LEMMA CallsEnd ==
  ASSUME JobTypeOK, Calls, NEW at, Origin(at),
         \A u \in Threads, e \in Endpoints : Serves(u, Router(e))' => Serves(u, Router(e)),
         \A e \in Endpoints : Waiting(Router(e)) =>
           \/ NoCall(e)
           \/ Waiting(Router(e))' /\ th'[Router(e)].to = th[Router(e)].to,
         \A e \in Endpoints : Waiting(Router(e)) /\ AsksForSlot(e) => AsksForSlot(e)',
         \A e \in Endpoints : RouterFine(e)'
  PROVE  Calls'
<1>1. \A e, x \in Endpoints : \A i \in DOMAIN inbox'[x] : inbox'[x][i].from = Router(e) =>
         at[x][i] \in DOMAIN inbox[x] /\ inbox[x][at[x][i]].from = Router(e)
  BY Routers DEF Origin
<1>2. OneCall'
  <2> SUFFICES ASSUME NEW e \in Endpoints
               PROVE
    /\ \A x \in Endpoints : \A i \in DOMAIN inbox'[x] : inbox'[x][i].from = Router(e) =>
         Waiting(Router(e))' /\ th'[Router(e)].to = x
    /\ \A u \in Threads : Serves(u, Router(e))' => Waiting(Router(e))' /\ u # Router(e)
    /\ \A x, y \in Endpoints : \A i \in DOMAIN inbox'[x], k \in DOMAIN inbox'[y] :
         inbox'[x][i].from = Router(e) /\ inbox'[y][k].from = Router(e) => x = y /\ i = k
    /\ \A u, v \in Threads : Serves(u, Router(e))' /\ Serves(v, Router(e))' => u = v
    /\ \A x \in Endpoints, u \in Threads : \A i \in DOMAIN inbox'[x] :
         ~(inbox'[x][i].from = Router(e) /\ Serves(u, Router(e))')
    BY DEF OneCall
  <2>1. \A x \in Endpoints : \A i \in DOMAIN inbox'[x] : inbox'[x][i].from = Router(e) =>
         Waiting(Router(e))' /\ th'[Router(e)].to = x
    BY <1>1 DEF Calls, OneCall, NoCall
  <2>2. \A u \in Threads : Serves(u, Router(e))' => Waiting(Router(e))' /\ u # Router(e)
    BY DEF Calls, OneCall, NoCall
  <2>3. \A x, y \in Endpoints : \A i \in DOMAIN inbox'[x], k \in DOMAIN inbox'[y] :
         inbox'[x][i].from = Router(e) /\ inbox'[y][k].from = Router(e) => x = y /\ i = k
    <3> SUFFICES ASSUME NEW x \in Endpoints, NEW y \in Endpoints, NEW i \in DOMAIN inbox'[x],
                        NEW k \in DOMAIN inbox'[y], inbox'[x][i].from = Router(e),
                        inbox'[y][k].from = Router(e)
                 PROVE  x = y /\ i = k
      OBVIOUS
    <3>1. x = y /\ at[x][i] = at[y][k]
      BY <1>1 DEF Calls, OneCall
    <3> QED  BY <3>1 DEF Origin
  <2>4. \A u, v \in Threads : Serves(u, Router(e))' /\ Serves(v, Router(e))' => u = v
    BY DEF Calls, OneCall
  <2>5. \A x \in Endpoints, u \in Threads : \A i \in DOMAIN inbox'[x] :
         ~(inbox'[x][i].from = Router(e) /\ Serves(u, Router(e))')
    BY <1>1 DEF Calls, OneCall
  <2> QED  BY <2>1, <2>2, <2>3, <2>4, <2>5
<1>3. SlotsAreAskedFor'
  <2> SUFFICES ASSUME NEW x \in Endpoints, NEW i \in DOMAIN inbox'[x], inbox'[x][i].op = "slot",
                      inbox'[x][i].from # Nobody
               PROVE  \E e \in Endpoints : inbox'[x][i].from = Router(e) /\ AsksForSlot(e)'
    BY DEF SlotsAreAskedFor
  <2> DEFINE k == at[x][i]
  <2>1. k \in DOMAIN inbox[x] /\ inbox[x][k].op = "slot" /\ inbox[x][k].from = inbox'[x][i].from
    BY DEF Origin
  <2>2. PICK e \in Endpoints : inbox[x][k].from = Router(e) /\ AsksForSlot(e)
    BY <2>1 DEF Calls, SlotsAreAskedFor
  <2>3. Waiting(Router(e))
    BY <2>1, <2>2 DEF Calls, OneCall
  <2> QED  BY <2>1, <2>2, <2>3
<1> QED  BY <1>2, <1>3 DEF Calls

\* A thread goes on by itself; a router does not leave a call that it waits for.
LEMMA OwnStep ==
  ASSUME JobTypeOK, Calls, NEW t \in Threads, OthersStay(t), UNCHANGED inbox,
         \A e \in Endpoints : t = Router(e) /\ Waiting(t) =>
           /\ Waiting(t)' /\ th'[t].to = th[t].to
           /\ AsksForSlot(e) => AsksForSlot(e)',
         \A e \in Endpoints : Serves(t, Router(e))' => Serves(t, Router(e)),
         \A e \in Endpoints : t = Router(e) => RouterFine(e)'
  PROVE  Calls'
<1>1. PICK at : Origin(at)
  BY InboxSame
<1>2. \A u \in Threads, e \in Endpoints : Serves(u, Router(e))' => Serves(u, Router(e))
  BY DEF OthersStay, Serves
<1>3. \A e \in Endpoints : Router(e) # t => th'[Router(e)] = th[Router(e)]
  BY Routers DEF OthersStay
<1>4. \A e \in Endpoints : RouterFine(e)'
  <2> SUFFICES ASSUME NEW e \in Endpoints, Router(e) # t  PROVE RouterFine(e)'
    OBVIOUS
  <2>1. th'[Router(e)] = th[Router(e)] /\ RouterFine(e)
    BY Routers DEF OthersStay, Calls, SlotsAreAskedFor
  <2> QED  BY <2>1 DEF RouterFine
<1>5. \A e \in Endpoints : Waiting(Router(e)) =>
        /\ Waiting(Router(e))' /\ th'[Router(e)].to = th[Router(e)].to
        /\ AsksForSlot(e) => AsksForSlot(e)'
  BY <1>3 DEF Waiting, AsksForSlot
<1> QED  BY <1>1, <1>2, <1>4, <1>5, CallsEnd

\* A thread that waits for nobody makes a call.
LEMMA CallMade ==
  ASSUME JobTypeOK, Calls, NEW t \in Threads, ~Waiting(t), OthersStay(t),
         NEW x \in Endpoints, NEW m \in Message, Send(x, m), m.from = t,
         Waiting(t)', th'[t].to = x,
         \A e \in Endpoints : Serves(t, Router(e))' => Serves(t, Router(e)),
         \A e \in Endpoints : t = Router(e) => RouterFine(e)',
         m.op = "slot" => \E e \in Endpoints : t = Router(e) /\ AsksForSlot(e)'
  PROVE  Calls'
<1>1. PICK n \in DOMAIN inbox'[x] :
        /\ n \notin DOMAIN inbox[x] /\ inbox'[x][n] = m
        /\ \A i \in DOMAIN inbox'[x] : i # n => i \in DOMAIN inbox[x] /\ inbox'[x][i] = inbox[x][i]
  BY Sent
<1>2. \A y \in Endpoints : y # x => inbox'[y] = inbox[y]
  BY Sent
<1>3. \A y \in Endpoints : \A i \in DOMAIN inbox'[y] :
        \/ y = x /\ i = n /\ inbox'[y][i] = m
        \/ i \in DOMAIN inbox[y] /\ inbox'[y][i] = inbox[y][i]
  BY <1>1, <1>2
<1>4. \A u \in Threads, e \in Endpoints : Serves(u, Router(e))' => Serves(u, Router(e))
  BY DEF OthersStay, Serves
<1>5. \A e \in Endpoints : Router(e) # t => th'[Router(e)] = th[Router(e)]
  BY Routers DEF OthersStay
<1>6. \A e \in Endpoints : Router(e) = t =>
        /\ \A y \in Endpoints : \A i \in DOMAIN inbox[y] : inbox[y][i].from # t
        /\ \A u \in Threads : ~Serves(u, t)
  BY DEF Calls, OneCall
<1>7. OneCall'
  <2> SUFFICES ASSUME NEW e \in Endpoints
               PROVE
    /\ \A y \in Endpoints : \A i \in DOMAIN inbox'[y] : inbox'[y][i].from = Router(e) =>
         Waiting(Router(e))' /\ th'[Router(e)].to = y
    /\ \A u \in Threads : Serves(u, Router(e))' => Waiting(Router(e))' /\ u # Router(e)
    /\ \A y, z \in Endpoints : \A i \in DOMAIN inbox'[y], k \in DOMAIN inbox'[z] :
         inbox'[y][i].from = Router(e) /\ inbox'[z][k].from = Router(e) => y = z /\ i = k
    /\ \A u, v \in Threads : Serves(u, Router(e))' /\ Serves(v, Router(e))' => u = v
    /\ \A y \in Endpoints, u \in Threads : \A i \in DOMAIN inbox'[y] :
         ~(inbox'[y][i].from = Router(e) /\ Serves(u, Router(e))')
    BY DEF OneCall
  <2>1. CASE Router(e) = t
    BY <1>3, <1>4, <1>6, <2>1
  <2>2. CASE Router(e) # t
    <3>1. \A y \in Endpoints : \A i \in DOMAIN inbox'[y] : inbox'[y][i].from = Router(e) =>
            i \in DOMAIN inbox[y] /\ inbox[y][i].from = Router(e)
      BY <1>3, <2>2
    <3>2. Waiting(Router(e)) => Waiting(Router(e))' /\ th'[Router(e)].to = th[Router(e)].to
      BY <1>5, <2>2 DEF Waiting
    <3> QED  BY <1>4, <3>1, <3>2 DEF Calls, OneCall
  <2> QED  BY <2>1, <2>2
<1>8. SlotsAreAskedFor'
  <2>1. \A e \in Endpoints : RouterFine(e)'
    <3> SUFFICES ASSUME NEW e \in Endpoints, Router(e) # t  PROVE RouterFine(e)'
      OBVIOUS
    <3>1. th'[Router(e)] = th[Router(e)] /\ RouterFine(e)
      BY <1>5 DEF Calls, SlotsAreAskedFor
    <3> QED  BY <3>1 DEF RouterFine
  <2>2. ASSUME NEW y \in Endpoints, NEW i \in DOMAIN inbox'[y], inbox'[y][i].op = "slot",
               inbox'[y][i].from # Nobody
        PROVE  \E e \in Endpoints : inbox'[y][i].from = Router(e) /\ AsksForSlot(e)'
    <3>1. CASE inbox'[y][i] = m
      BY <2>2, <3>1
    <3>2. CASE i \in DOMAIN inbox[y] /\ inbox'[y][i] = inbox[y][i]
      <4>1. PICK e \in Endpoints : inbox[y][i].from = Router(e) /\ AsksForSlot(e)
        BY <2>2, <3>2 DEF Calls, SlotsAreAskedFor
      <4>2. Router(e) # t
        BY <1>6, <3>2, <4>1
      <4> QED  BY <1>5, <3>2, <4>1, <4>2 DEF AsksForSlot
    <3> QED  BY <1>3, <3>1, <3>2
  <2> QED  BY <2>1, <2>2 DEF SlotsAreAskedFor
<1> QED  BY <1>7, <1>8 DEF Calls

\* A fine router stays fine when an answer arrives, if it is one it may get.
LEMMA FineWithAnswer ==
  ASSUME JobTypeOK, NEW e \in Endpoints, RouterFine(e), SameCall(th'[Router(e)], th[Router(e)]),
         \/ th'[Router(e)] = th[Router(e)]
         \/ th[Router(e)].op = "idle"
         \/ th'[Router(e)].answer \in {"ok", "err"}
         \/ AsksForSlot(e)
  PROVE  RouterFine(e)'
<1>1. CASE th'[Router(e)] = th[Router(e)]
  BY <1>1 DEF RouterFine
<1>2. CASE th[Router(e)].op = "idle"
  BY <1>2 DEF RouterFine, SameCall
<1>3. CASE th[Router(e)].op # "idle" /\ (th'[Router(e)].answer \in {"ok", "err"} \/ AsksForSlot(e))
  BY <1>3 DEF RouterFine, SameCall, AsksForSlot
<1> QED  BY <1>1, <1>2, <1>3

\* A thread has carried out a command and answers.
LEMMA CallServed ==
  ASSUME JobTypeOK, Calls, NEW t \in Threads, ~Waiting(t), UNCHANGED inbox, NEW c,
         NEW a \in {"ok", "err"},
         th'[t].op = "idle",
         \A u \in Threads : u # t => /\ SameCall(th'[u], th[u])
                                     /\ u # c \/ c = Nobody => th'[u] = th[u]
                                     /\ u = c /\ c # Nobody /\ th[u].op # "idle" => th'[u].answer = a,
         \A e \in Endpoints : c = Router(e) => Serves(t, c)
  PROVE  Calls'
<1>1. PICK at : Origin(at)
  BY InboxSame
<1>2. \A u \in Threads, e \in Endpoints : Serves(u, Router(e))' => Serves(u, Router(e)) /\ u # t
  BY ThreadIs, ThreadKinds DEF Serves, SameCall
<1>3. \A e \in Endpoints : Waiting(Router(e)) =>
        NoCall(e) \/ (Waiting(Router(e))' /\ th'[Router(e)].to = th[Router(e)].to)
  <2> SUFFICES ASSUME NEW e \in Endpoints, Waiting(Router(e))
               PROVE  NoCall(e) \/ (Waiting(Router(e))' /\ th'[Router(e)].to = th[Router(e)].to)
    OBVIOUS
  <2>1. CASE c = Router(e)
    <3>1. \A x \in Endpoints : \A i \in DOMAIN inbox[x] : inbox[x][i].from # Router(e)
      BY <2>1 DEF Calls, OneCall
    <3>2. \A u \in Threads : ~Serves(u, Router(e))'
      BY <1>2, <2>1 DEF Calls, OneCall
    <3> QED  BY <3>1, <3>2 DEF NoCall
  <2>2. CASE c # Router(e)
    BY <2>2, Routers DEF Waiting
  <2> QED  BY <2>1, <2>2
<1>4. \A e \in Endpoints : Waiting(Router(e)) /\ AsksForSlot(e) => AsksForSlot(e)'
  BY Routers DEF AsksForSlot, SameCall
<1>5. \A e \in Endpoints : RouterFine(e)'
  <2> SUFFICES ASSUME NEW e \in Endpoints  PROVE RouterFine(e)'
    OBVIOUS
  <2>1. CASE Router(e) = t
    BY <2>1 DEF RouterFine
  <2>2. CASE Router(e) # t
    BY <2>2, Routers, FineWithAnswer DEF Calls, SlotsAreAskedFor
  <2> QED  BY <2>1, <2>2
<1> QED  BY <1>1, <1>2, <1>3, <1>4, <1>5, CallsEnd

\* A router answers a command at once.
LEMMA CommandAnswered ==
  ASSUME JobTypeOK, Calls, NEW y \in Endpoints, inbox[y] # <<>>, Drop(y), NEW a \in Answers,
         a \notin {"ok", "err"} => inbox[y][1].op = "slot",
         \A u \in Threads : LET c == inbox[y][1].from
                            IN  /\ SameCall(th'[u], th[u])
                                /\ u # c \/ c = Nobody => th'[u] = th[u]
                                /\ u = c /\ c # Nobody /\ th[u].op # "idle" => th'[u].answer = a
  PROVE  Calls'
<1> DEFINE c == inbox[y][1].from
<1>1. PICK at : Origin(at) /\ \A i \in DOMAIN inbox'[y] : at[y][i] # 1
  BY Dropped
<1>2. 1 \in DOMAIN inbox[y]
  BY Dropped
<1>3. \A u \in Threads, e \in Endpoints : Serves(u, Router(e))' => Serves(u, Router(e))
  BY ThreadIs, ThreadKinds DEF Serves, SameCall
<1>4. \A e \in Endpoints : Waiting(Router(e)) =>
        NoCall(e) \/ (Waiting(Router(e))' /\ th'[Router(e)].to = th[Router(e)].to)
  <2> SUFFICES ASSUME NEW e \in Endpoints, Waiting(Router(e))
               PROVE  NoCall(e) \/ (Waiting(Router(e))' /\ th'[Router(e)].to = th[Router(e)].to)
    OBVIOUS
  <2>1. CASE c = Router(e)
    <3>1. \A x \in Endpoints : \A i \in DOMAIN inbox[x] : inbox[x][i].from = Router(e) => x = y /\ i = 1
      BY <1>2, <2>1 DEF Calls, OneCall
    <3>2. \A x \in Endpoints : \A i \in DOMAIN inbox'[x] : inbox'[x][i].from # Router(e)
      BY <1>1, <3>1, Routers DEF Origin
    <3>3. \A u \in Threads : ~Serves(u, Router(e))'
      BY <1>2, <1>3, <2>1 DEF Calls, OneCall
    <3> QED  BY <3>2, <3>3 DEF NoCall
  <2>2. CASE c # Router(e)
    BY <2>2, Routers DEF Waiting
  <2> QED  BY <2>1, <2>2
<1>5. \A e \in Endpoints : Waiting(Router(e)) /\ AsksForSlot(e) => AsksForSlot(e)'
  BY Routers DEF AsksForSlot, SameCall
<1>6. \A e \in Endpoints : RouterFine(e)'
  <2> SUFFICES ASSUME NEW e \in Endpoints  PROVE RouterFine(e)'
    OBVIOUS
  <2>1. RouterFine(e) /\ SameCall(th'[Router(e)], th[Router(e)])
    BY Routers DEF Calls, SlotsAreAskedFor
  <2>2. \/ th'[Router(e)] = th[Router(e)]
        \/ th[Router(e)].op = "idle"
        \/ th'[Router(e)].answer \in {"ok", "err"}
        \/ AsksForSlot(e)
    <3>1. CASE c # Router(e)
      BY <3>1, Routers
    <3>2. CASE c = Router(e) /\ a \in {"ok", "err"}
      BY <3>2, Routers
    <3>3. CASE c = Router(e) /\ a \notin {"ok", "err"}
      BY <1>2, <3>3, Routers DEF Calls, SlotsAreAskedFor
    <3> QED  BY <3>1, <3>2, <3>3
  <2> QED  BY <2>1, <2>2, FineWithAnswer
<1> QED  BY <1>1, <1>3, <1>4, <1>5, <1>6, CallsEnd

\* An idle router takes a command that it will answer later.
LEMMA CommandTaken ==
  ASSUME JobTypeOK, Calls, NEW y \in Endpoints, inbox[y] # <<>>, Drop(y),
         th[Router(y)] = Idle, OthersStay(Router(y)),
         th'[Router(y)].caller = inbox[y][1].from, RouterFine(y)'
  PROVE  Calls'
<1> DEFINE t == Router(y)
           c == inbox[y][1].from
<1>1. PICK at : Origin(at) /\ \A i \in DOMAIN inbox'[y] : at[y][i] # 1
  BY Dropped
<1>2. 1 \in DOMAIN inbox[y] /\ t \in Threads /\ ~Waiting(t) /\ \A u \in Threads : ~Serves(t, u)
  BY Dropped, Routers DEF Waiting, Idle, Serves
<1>3. \A u \in Threads, e \in Endpoints : u # t => (Serves(u, Router(e))' <=> Serves(u, Router(e)))
  BY DEF OthersStay, Serves
<1>4. \A e \in Endpoints : Router(e) # t => th'[Router(e)] = th[Router(e)]
  BY Routers DEF OthersStay
<1>5. \A e, x \in Endpoints : \A i \in DOMAIN inbox'[x] : inbox'[x][i].from = Router(e) =>
         /\ at[x][i] \in DOMAIN inbox[x] /\ inbox[x][at[x][i]].from = Router(e)
         /\ x = y => at[x][i] # 1
  BY <1>1, Routers DEF Origin
<1>6. OneCall'
  <2> SUFFICES ASSUME NEW e \in Endpoints
               PROVE
    /\ \A x \in Endpoints : \A i \in DOMAIN inbox'[x] : inbox'[x][i].from = Router(e) =>
         Waiting(Router(e))' /\ th'[Router(e)].to = x
    /\ \A u \in Threads : Serves(u, Router(e))' => Waiting(Router(e))' /\ u # Router(e)
    /\ \A x, z \in Endpoints : \A i \in DOMAIN inbox'[x], k \in DOMAIN inbox'[z] :
         inbox'[x][i].from = Router(e) /\ inbox'[z][k].from = Router(e) => x = z /\ i = k
    /\ \A u, v \in Threads : Serves(u, Router(e))' /\ Serves(v, Router(e))' => u = v
    /\ \A x \in Endpoints, u \in Threads : \A i \in DOMAIN inbox'[x] :
         ~(inbox'[x][i].from = Router(e) /\ Serves(u, Router(e))')
    BY DEF OneCall
  <2>1. Waiting(Router(e)) => Waiting(Router(e))' /\ th'[Router(e)].to = th[Router(e)].to
    BY <1>2, <1>4 DEF Waiting
  <2>2. \A x, z \in Endpoints : \A i \in DOMAIN inbox'[x], k \in DOMAIN inbox'[z] :
         inbox'[x][i].from = Router(e) /\ inbox'[z][k].from = Router(e) => x = z /\ i = k
    <3> SUFFICES ASSUME NEW x \in Endpoints, NEW z \in Endpoints, NEW i \in DOMAIN inbox'[x],
                        NEW k \in DOMAIN inbox'[z], inbox'[x][i].from = Router(e),
                        inbox'[z][k].from = Router(e)
                 PROVE  x = z /\ i = k
      OBVIOUS
    <3>1. x = z /\ at[x][i] = at[z][k]
      BY <1>5 DEF Calls, OneCall
    <3> QED  BY <1>1, <3>1 DEF Origin
  <2>3. CASE c = Router(e)
    <3>1. /\ Waiting(Router(e)) /\ th[Router(e)].to = y
          /\ \A x \in Endpoints : \A i \in DOMAIN inbox[x] : inbox[x][i].from = Router(e) => x = y /\ i = 1
          /\ \A u \in Threads : ~Serves(u, Router(e))
      BY <1>2, <2>3 DEF Calls, OneCall
    <3>2. Router(e) # t
      BY <1>2, <3>1
    <3>3. \A u \in Threads : Serves(u, Router(e))' => u = t
      BY <1>3, <3>1
    <3>4. \A x \in Endpoints : \A i \in DOMAIN inbox'[x] : inbox'[x][i].from # Router(e)
      BY <1>5, <3>1
    <3> QED  BY <2>1, <3>1, <3>2, <3>3, <3>4
  <2>4. CASE c # Router(e)
    <3>1. \A u \in Threads : Serves(u, Router(e))' => Serves(u, Router(e))
      BY <1>3, <2>4 DEF Serves
    <3> QED  BY <1>5, <2>1, <2>2, <3>1 DEF Calls, OneCall
  <2> QED  BY <2>3, <2>4
<1>7. SlotsAreAskedFor'
  <2>1. \A e \in Endpoints : RouterFine(e)'
    <3> SUFFICES ASSUME NEW e \in Endpoints, Router(e) # t  PROVE RouterFine(e)'
      BY Routers
    <3>1. th'[Router(e)] = th[Router(e)] /\ RouterFine(e)
      BY <1>4 DEF Calls, SlotsAreAskedFor
    <3> QED  BY <3>1 DEF RouterFine
  <2>2. ASSUME NEW x \in Endpoints, NEW i \in DOMAIN inbox'[x], inbox'[x][i].op = "slot",
               inbox'[x][i].from # Nobody
        PROVE  \E e \in Endpoints : inbox'[x][i].from = Router(e) /\ AsksForSlot(e)'
    <3> DEFINE k == at[x][i]
    <3>1. k \in DOMAIN inbox[x] /\ inbox[x][k].op = "slot" /\ inbox[x][k].from = inbox'[x][i].from
      BY <1>1, <2>2 DEF Origin
    <3>2. PICK e \in Endpoints : inbox[x][k].from = Router(e) /\ AsksForSlot(e)
      BY <2>2, <3>1 DEF Calls, SlotsAreAskedFor
    <3>3. Router(e) # t
      BY <3>2 DEF AsksForSlot, Idle
    <3> QED  BY <1>4, <3>1, <3>2, <3>3 DEF AsksForSlot
  <2> QED  BY <2>1, <2>2 DEF SlotsAreAskedFor
<1> QED  BY <1>6, <1>7 DEF Calls

\* A caller gives up: its command is still carried out, for nobody.
LEMMA TimesOutShape ==
  ASSUME JobTypeOK, NEW t \in Threads, TimesOut(t)
  PROVE  /\ th' \in [Threads -> ThreadState] /\ inbox' \in [Endpoints -> Seq(Message)]
         /\ SameCall(th'[t], th[t]) /\ th'[t].answer = "err"
         /\ \A u \in Threads : u # t =>
              \/ th'[u] = th[u] /\ ~Serves(u, t)
              \/ /\ Serves(u, t) /\ th'[u].caller = Nobody /\ th'[u].op = th[u].op
                 /\ th'[u].job = th[u].job /\ th'[u].stage = th[u].stage /\ th'[u].to = th[u].to
                 /\ th'[u].answer = th[u].answer
                 /\ th[u].op = "sync" => th'[u].left = th[u].left /\ th'[u].val = th[u].val
         /\ \A x \in Endpoints : DOMAIN inbox'[x] = DOMAIN inbox[x]
         /\ \A x \in Endpoints : \A i \in DOMAIN inbox[x] :
              /\ inbox'[x][i].op = inbox[x][i].op /\ inbox'[x][i].job = inbox[x][i].job
              /\ inbox'[x][i].val = inbox[x][i].val
              /\ inbox'[x][i].from \in {inbox[x][i].from, Nobody}
              /\ x = th[t].to => inbox'[x][i].from # t
<1> DEFINE y == th[t].to
           q == inbox[y]
           r == Orphaned(q, t)
<1>0. th[t] \in ThreadState /\ th[t].op # "idle" /\ y # Nobody /\ y \in Endpoints
  BY ThreadIs, ThreadKinds DEF TimesOut, Waiting
<1>1. q \in Seq(Message) /\ DOMAIN q = 1 .. Len(q) /\ Len(q) \in Nat /\ \A i \in DOMAIN q : q[i] \in Message
  BY <1>0, InboxIs
<1>2. \A i \in DOMAIN q : [q[i] EXCEPT !.from = Nobody] \in Message
  BY <1>1 DEF Message, Callers
<1>3. \A i \in DOMAIN q : /\ [q[i] EXCEPT !.from = Nobody].op = q[i].op
                          /\ [q[i] EXCEPT !.from = Nobody].job = q[i].job
                          /\ [q[i] EXCEPT !.from = Nobody].val = q[i].val
                          /\ [q[i] EXCEPT !.from = Nobody].from = Nobody
  BY <1>1 DEF Message
<1>4. /\ DOMAIN r = DOMAIN q /\ r \in Seq(Message)
      /\ \A i \in DOMAIN q : /\ r[i].op = q[i].op /\ r[i].job = q[i].job /\ r[i].val = q[i].val
                             /\ r[i].from \in {q[i].from, Nobody} /\ r[i].from # t
  <2>1. DOMAIN r = DOMAIN q /\ r \in [1 .. Len(q) -> Message]
    BY <1>1, <1>2 DEF Orphaned
  <2>2. r \in Seq(Message)
    BY <1>1, <2>1, SeqDef
  <2>3. t # Nobody
    BY NamesAssumption
  <2>4. \A i \in DOMAIN q : r[i] = IF q[i].from = t THEN [q[i] EXCEPT !.from = Nobody] ELSE q[i]
    BY DEF Orphaned
  <2> HIDE DEF r
  <2> QED  BY <1>3, <2>1, <2>2, <2>3, <2>4
<1> HIDE DEF r
<1>5. /\ inbox' \in [Endpoints -> Seq(Message)] /\ inbox'[y] = r
      /\ \A x \in Endpoints : x # y => inbox'[x] = inbox[x]
  BY <1>0, <1>4 DEF TimesOut, JobTypeOK, r
<1>6. /\ \A x \in Endpoints : DOMAIN inbox'[x] = DOMAIN inbox[x]
      /\ \A x \in Endpoints : \A i \in DOMAIN inbox[x] :
           /\ inbox'[x][i].op = inbox[x][i].op /\ inbox'[x][i].job = inbox[x][i].job
           /\ inbox'[x][i].val = inbox[x][i].val
           /\ inbox'[x][i].from \in {inbox[x][i].from, Nobody}
           /\ x = y => inbox'[x][i].from # t
  BY <1>4, <1>5
<1> DEFINE h == [th[t] EXCEPT !.answer = "err"]
<1>7. h \in ThreadState /\ SameCall(h, th[t]) /\ h.answer = "err"
  <2>1. "err" \in Answers
    BY DEF Answers
  <2> QED  BY <1>0, <2>1, AnswerArrives
<1>8. \A u \in Threads : Serves(u, t) =>
        LET g == [th[u] EXCEPT !.caller = Nobody]
        IN  /\ g \in ThreadState /\ g.op = th[u].op /\ g.job = th[u].job /\ g.stage = th[u].stage
            /\ g.to = th[u].to /\ g.answer = th[u].answer /\ g.caller = Nobody
            /\ th[u].op = "sync" => g.left = th[u].left /\ g.val = th[u].val
  BY ThreadIs, CallerGone DEF Serves
<1>9. /\ th' = [u \in Threads |-> th'[u]] /\ th'[t] = h
      /\ \A u \in Threads : u # t =>
           th'[u] = IF Serves(u, t) THEN [th[u] EXCEPT !.caller = Nobody] ELSE th[u]
  BY DEF TimesOut, Serves
<1> HIDE DEF h
<1>10. \A u \in Threads : th'[u] \in ThreadState
  BY <1>7, <1>8, <1>9, ThreadIs
<1>11. th' \in [Threads -> ThreadState]
  BY <1>9, <1>10
<1>12. \A u \in Threads : u # t =>
         \/ th'[u] = th[u] /\ ~Serves(u, t)
         \/ /\ Serves(u, t) /\ th'[u].caller = Nobody /\ th'[u].op = th[u].op
            /\ th'[u].job = th[u].job /\ th'[u].stage = th[u].stage /\ th'[u].to = th[u].to
            /\ th'[u].answer = th[u].answer
            /\ th[u].op = "sync" => th'[u].left = th[u].left /\ th'[u].val = th[u].val
  <2> SUFFICES ASSUME NEW u \in Threads, u # t, Serves(u, t)
               PROVE  /\ th'[u].caller = Nobody /\ th'[u].op = th[u].op
                      /\ th'[u].job = th[u].job /\ th'[u].stage = th[u].stage /\ th'[u].to = th[u].to
                      /\ th'[u].answer = th[u].answer
                      /\ th[u].op = "sync" => th'[u].left = th[u].left /\ th'[u].val = th[u].val
    BY <1>9
  <2>1. th'[u] = [th[u] EXCEPT !.caller = Nobody]
    BY <1>9
  <2> QED  BY <1>8, <2>1
<1> QED  BY <1>5, <1>6, <1>7, <1>9, <1>11, <1>12

LEMMA GivesUp ==
  ASSUME JobTypeOK, Calls, NEW t \in Threads, TimesOut(t)
  PROVE  Calls'
<1> DEFINE at == [x \in Endpoints |-> [i \in DOMAIN inbox[x] |-> i]]
<1>1. /\ SameCall(th'[t], th[t]) /\ th'[t].answer = "err"
      /\ \A u \in Threads : u # t =>
           \/ th'[u] = th[u] /\ ~Serves(u, t)
           \/ /\ Serves(u, t) /\ th'[u].caller = Nobody /\ th'[u].op = th[u].op
              /\ th'[u].job = th[u].job /\ th'[u].stage = th[u].stage /\ th'[u].to = th[u].to
              /\ th'[u].answer = th[u].answer
              /\ th[u].op = "sync" => th'[u].left = th[u].left /\ th'[u].val = th[u].val
  BY TimesOutShape
<1>2. /\ \A x \in Endpoints : DOMAIN inbox'[x] = DOMAIN inbox[x]
      /\ \A x \in Endpoints : \A i \in DOMAIN inbox[x] :
           /\ inbox'[x][i].op = inbox[x][i].op /\ inbox'[x][i].job = inbox[x][i].job
           /\ inbox'[x][i].val = inbox[x][i].val
           /\ inbox'[x][i].from \in {inbox[x][i].from, Nobody}
           /\ x = th[t].to => inbox'[x][i].from # t
  BY TimesOutShape
<1>3. Origin(at)
  BY <1>2 DEF Origin
<1>4. th[t].op # "idle" /\ th[t] \in ThreadState
  BY ThreadIs DEF TimesOut, Waiting
<1>5. \A u \in Threads, e \in Endpoints : Serves(u, Router(e))' => Serves(u, Router(e))
  <2> SUFFICES ASSUME NEW u \in Threads, NEW e \in Endpoints, Serves(u, Router(e))'
               PROVE  Serves(u, Router(e))
    OBVIOUS
  <2>1. CASE u = t
    BY <1>1, <1>4, <2>1 DEF Serves, SameCall
  <2>2. CASE u # t
    BY <1>1, <2>2, Routers DEF Serves
  <2> QED  BY <2>1, <2>2
<1>6. \A e \in Endpoints : Waiting(Router(e)) =>
        NoCall(e) \/ (Waiting(Router(e))' /\ th'[Router(e)].to = th[Router(e)].to)
  <2> SUFFICES ASSUME NEW e \in Endpoints, Waiting(Router(e))
               PROVE  NoCall(e) \/ (Waiting(Router(e))' /\ th'[Router(e)].to = th[Router(e)].to)
    OBVIOUS
  <2>1. CASE t = Router(e)
    <3>1. \A x \in Endpoints : \A i \in DOMAIN inbox'[x] : inbox'[x][i].from # t
      <4> SUFFICES ASSUME NEW x \in Endpoints, NEW i \in DOMAIN inbox[x], inbox'[x][i].from = t
                   PROVE  FALSE
        BY <1>2
      <4>1. inbox[x][i].from = t
        BY <1>2, <2>1, Routers
      <4>2. th[t].to = x
        BY <2>1, <4>1 DEF Calls, OneCall
      <4> QED  BY <1>2, <4>2
    <3>2. \A u \in Threads : ~Serves(u, t)'
      <4> SUFFICES ASSUME NEW u \in Threads, Serves(u, t)'  PROVE FALSE
        OBVIOUS
      <4>1. Serves(u, t) /\ u # t
        BY <1>5, <2>1 DEF Calls, OneCall
      <4>2. th'[u].caller = Nobody
        BY <1>1, <4>1
      <4> QED  BY <2>1, <4>2, Routers DEF Serves
    <3> QED  BY <2>1, <3>1, <3>2 DEF NoCall
  <2>2. CASE t # Router(e)
    BY <1>1, <2>2, Routers DEF Waiting
  <2> QED  BY <2>1, <2>2
<1>7. \A e \in Endpoints : Waiting(Router(e)) /\ AsksForSlot(e) => AsksForSlot(e)'
  BY <1>1, Routers DEF AsksForSlot, SameCall
<1>8. \A e \in Endpoints : RouterFine(e)'
  <2> SUFFICES ASSUME NEW e \in Endpoints  PROVE RouterFine(e)'
    OBVIOUS
  <2>0. RouterFine(e) /\ Router(e) \in Threads
    BY Routers DEF Calls, SlotsAreAskedFor
  <2>1. CASE t = Router(e)
    BY <1>1, <2>0, <2>1, FineWithAnswer
  <2>2. CASE t # Router(e) /\ th'[Router(e)] = th[Router(e)]
    BY <2>0, <2>2 DEF RouterFine
  <2>3. CASE t # Router(e) /\ Serves(Router(e), t)
    <3> DEFINE r == th[Router(e)]
               s == th'[Router(e)]
    <3>1. /\ s.op = r.op /\ s.stage = r.stage /\ s.to = r.to /\ s.answer = r.answer
          /\ r.op \in {"submit", "sync"} /\ (r.op = "sync" => s.left = r.left)
      BY <1>1, <2>0, <2>3 DEF Serves
    <3> QED  BY <2>0, <3>1 DEF RouterFine
  <2> QED  BY <1>1, <2>0, <2>1, <2>2, <2>3
<1> HIDE DEF at
<1> QED  BY <1>3, <1>5, <1>6, <1>7, <1>8, CallsEnd

-----------------------------------------------------------------------------
(* A job is in one place *)

\* Results are overwritten, never removed.
LEMMA Stays ==
  ASSUME JobTypeOK, NEW e \in Endpoints, NEW j \in Jobs, NEW v \in Results, v # None,
         results' = [results EXCEPT ![e][j] = v]
  PROVE  /\ results' \in [Endpoints -> [Jobs -> Results]]
         /\ Known(j)' /\ \A k \in Jobs : Known(k) => Known(k)'
<1>1. results \in [Endpoints -> [Jobs -> Results]]
  BY DEF JobTypeOK
<1>2. /\ results' \in [Endpoints -> [Jobs -> Results]] /\ results'[e][j] = v
      /\ \A x \in Endpoints, k \in Jobs : results'[x][k] = IF x = e /\ k = j THEN v ELSE results[x][k]
  BY <1>1
<1> QED  BY <1>2 DEF Known

\* Jobs leave their places and none comes to a new one.
LEMMA TokensEnd ==
  ASSUME JobTypeOK, Tokens, NEW at, Origin(at), UNCHANGED runs,
         \A e \in Endpoints, j \in Jobs : Holds(e, j)' => Holds(e, j),
         \A j \in Jobs : Known(j) => Known(j)',
         ActiveInv'
  PROVE  Tokens'
<1>1. \A x \in Endpoints, j \in Jobs : \A i \in DOMAIN inbox'[x] : Carries(inbox'[x][i], j) =>
         at[x][i] \in DOMAIN inbox[x] /\ Carries(inbox[x][at[x][i]], j)
  BY DEF Origin, Carries
<1>2. KnownFirst'
  <2>1. \A x \in Endpoints, j \in Jobs : \A i \in DOMAIN inbox'[x] :
          Carries(inbox'[x][i], j) => Known(j)'
    BY <1>1 DEF Tokens, KnownFirst
  <2>2. /\ \A e \in Endpoints, j \in Jobs : Holds(e, j)' => Known(j)'
        /\ \A e \in Endpoints, j \in Jobs : runs'[e][j] # 0 => Known(j)'
    BY DEF Tokens, KnownFirst
  <2> QED  BY <2>1, <2>2 DEF KnownFirst, Carries
<1>3. OneToken'
  <2>1. \A x, y \in Endpoints, j \in Jobs : \A i \in DOMAIN inbox'[x], k \in DOMAIN inbox'[y] :
          Carries(inbox'[x][i], j) /\ Carries(inbox'[y][k], j) => x = y /\ i = k
    <3> SUFFICES ASSUME NEW x \in Endpoints, NEW y \in Endpoints, NEW j \in Jobs,
                        NEW i \in DOMAIN inbox'[x], NEW k \in DOMAIN inbox'[y],
                        Carries(inbox'[x][i], j), Carries(inbox'[y][k], j)
                 PROVE  x = y /\ i = k
      OBVIOUS
    <3>1. x = y /\ at[x][i] = at[y][k]
      BY <1>1 DEF Tokens, OneToken
    <3> QED  BY <3>1 DEF Origin
  <2>2. \A e, x \in Endpoints, j \in Jobs : Holds(e, j)' =>
          runs'[x][j] = 0 /\ \A i \in DOMAIN inbox'[x] : ~Carries(inbox'[x][i], j)
    BY <1>1 DEF Tokens, OneToken
  <2>3. \A x, y \in Endpoints, j \in Jobs : \A i \in DOMAIN inbox'[x] :
          Carries(inbox'[x][i], j) => runs'[y][j] = 0
    BY <1>1 DEF Tokens, OneToken
  <2>4. \A e, x \in Endpoints, j \in Jobs : Holds(e, j)' /\ Holds(x, j)' => e = x
    BY DEF Tokens, OneToken
  <2> QED  BY <2>1, <2>2, <2>3, <2>4 DEF OneToken, Carries
<1>4. RunsOnce'
  BY DEF Tokens, RunsOnce
<1> QED  BY <1>2, <1>3, <1>4 DEF Tokens

\* The bookkeeping of a step that neither places nor ends a job.
LEMMA ActiveStays ==
  ASSUME Tokens, UNCHANGED <<active, running, runs>>,
         \A e \in Endpoints, j \in Jobs : Holds(e, j)' => Holds(e, j)
  PROVE  ActiveInv'
  BY DEF Tokens, ActiveInv

\* A router accepts a job that is in no other place any more.
LEMMA TokenTaken ==
  ASSUME JobTypeOK, Tokens, NEW at, Origin(at), UNCHANGED <<runs, running>>,
         NEW e \in Endpoints, NEW j \in Jobs,
         \A x \in Endpoints, k \in Jobs : Holds(x, k)' => Holds(x, k) \/ (x = e /\ k = j),
         \A x \in Endpoints : ~Holds(x, j) /\ runs[x][j] = 0,
         \A x \in Endpoints : \A i \in DOMAIN inbox'[x] : ~Carries(inbox'[x][i], j),
         Known(j)', \A k \in Jobs : Known(k) => Known(k)',
         active' = [active EXCEPT ![e] = @ \cup {j}]
  PROVE  Tokens'
<1>1. \A x \in Endpoints, k \in Jobs : \A i \in DOMAIN inbox'[x] : Carries(inbox'[x][i], k) =>
         at[x][i] \in DOMAIN inbox[x] /\ Carries(inbox[x][at[x][i]], k) /\ k # j
  BY DEF Origin, Carries
<1>2. KnownFirst'
  <2>1. \A x \in Endpoints, k \in Jobs : \A i \in DOMAIN inbox'[x] :
          Carries(inbox'[x][i], k) => Known(k)'
    BY <1>1 DEF Tokens, KnownFirst
  <2>2. /\ \A x \in Endpoints, k \in Jobs : Holds(x, k)' => Known(k)'
        /\ \A x \in Endpoints, k \in Jobs : runs'[x][k] # 0 => Known(k)'
    BY DEF Tokens, KnownFirst
  <2> QED  BY <2>1, <2>2 DEF KnownFirst, Carries
<1>3. OneToken'
  <2>1. \A x, y \in Endpoints, l \in Jobs : \A i \in DOMAIN inbox'[x], k \in DOMAIN inbox'[y] :
          Carries(inbox'[x][i], l) /\ Carries(inbox'[y][k], l) => x = y /\ i = k
    <3> SUFFICES ASSUME NEW x \in Endpoints, NEW y \in Endpoints, NEW l \in Jobs,
                        NEW i \in DOMAIN inbox'[x], NEW k \in DOMAIN inbox'[y],
                        Carries(inbox'[x][i], l), Carries(inbox'[y][k], l)
                 PROVE  x = y /\ i = k
      OBVIOUS
    <3>1. x = y /\ at[x][i] = at[y][k]
      BY <1>1 DEF Tokens, OneToken
    <3> QED  BY <3>1 DEF Origin
  <2>2. \A x, y \in Endpoints, k \in Jobs : Holds(x, k)' =>
          runs'[y][k] = 0 /\ \A i \in DOMAIN inbox'[y] : ~Carries(inbox'[y][i], k)
    BY <1>1 DEF Tokens, OneToken
  <2>3. \A x, y \in Endpoints, k \in Jobs : \A i \in DOMAIN inbox'[x] :
          Carries(inbox'[x][i], k) => runs'[y][k] = 0
    BY <1>1 DEF Tokens, OneToken
  <2>4. \A x, y \in Endpoints, k \in Jobs : Holds(x, k)' /\ Holds(y, k)' => x = y
    BY DEF Tokens, OneToken
  <2> QED  BY <2>1, <2>2, <2>3, <2>4 DEF OneToken, Carries
<1>4. ActiveInv'
  <2>1. \A x \in Endpoints : active'[x] = IF x = e THEN active[x] \cup {j} ELSE active[x]
    BY DEF JobTypeOK
  <2> QED  BY <2>1 DEF Tokens, ActiveInv
<1>5. RunsOnce'
  BY DEF Tokens, RunsOnce
<1> QED  BY <1>2, <1>3, <1>4, <1>5 DEF Tokens

\* The runtime accepts a job: it leaves the router and runs.
LEMMA TokenRuns ==
  ASSUME JobTypeOK, Tokens, NEW e \in Endpoints, NEW j \in Jobs, Holds(e, j), ~Holds(e, j)',
         \A x \in Endpoints, k \in Jobs : Holds(x, k)' => Holds(x, k),
         UNCHANGED <<results, active, inbox>>,
         running' = [running EXCEPT ![e] = @ \cup {j}],
         runs' = [runs EXCEPT ![e][j] = @ + 1]
  PROVE  Tokens'
<1>1. \A x \in Endpoints : running'[x] = IF x = e THEN running[x] \cup {j} ELSE running[x]
  BY DEF JobTypeOK
<1>2. \A x \in Endpoints : runs[x][j] = 0
  BY DEF Tokens, OneToken
<1>3. \A x \in Endpoints, k \in Jobs : runs'[x][k] = IF x = e /\ k = j THEN 1 ELSE runs[x][k]
  BY <1>2 DEF JobTypeOK
<1>4. \A x \in Endpoints, k \in Jobs : Holds(x, k)' => k # j
  BY DEF Tokens, OneToken
<1>5. \A x \in Endpoints, k \in Jobs : \A i \in DOMAIN inbox[x] : Carries(inbox[x][i], k) => k # j
  BY DEF Tokens, OneToken
<1>6. KnownFirst'
  <2>1. \A k \in Jobs : Known(k)' <=> Known(k)
    BY DEF Known
  <2>2. Known(j)
    BY DEF Tokens, KnownFirst
  <2> QED  BY <1>3, <2>1, <2>2 DEF Tokens, KnownFirst, Carries
<1>7. OneToken'
  <2>1. \A x, y \in Endpoints, k \in Jobs : Holds(x, k)' /\ Holds(y, k)' => x = y
    BY DEF Tokens, OneToken
  <2>2. \A x, y \in Endpoints, k \in Jobs : Holds(x, k)' =>
          runs'[y][k] = 0 /\ \A i \in DOMAIN inbox[y] : ~Carries(inbox[y][i], k)
    BY <1>3, <1>4 DEF Tokens, OneToken
  <2>3. \A x, y \in Endpoints, k \in Jobs : \A i \in DOMAIN inbox[x] :
          Carries(inbox[x][i], k) => runs'[y][k] = 0
    BY <1>3, <1>5 DEF Tokens, OneToken
  <2>4. \A x, y \in Endpoints, l \in Jobs : \A i \in DOMAIN inbox[x], k \in DOMAIN inbox[y] :
          Carries(inbox[x][i], l) /\ Carries(inbox[y][k], l) => x = y /\ i = k
    BY DEF Tokens, OneToken
  <2> QED  BY <2>1, <2>2, <2>3, <2>4 DEF OneToken, Carries
<1>8. ActiveInv'
  BY <1>1, <1>3 DEF Tokens, ActiveInv
<1>9. RunsOnce'
  BY <1>2, <1>3 DEF Tokens, RunsOnce
<1> QED  BY <1>6, <1>7, <1>8, <1>9 DEF Tokens

\* A command is sent; a JOB_FORWARD takes the job from the router that placed it.
LEMMA TokenSent ==
  ASSUME JobTypeOK, Tokens, NEW x \in Endpoints, NEW m \in Message, Send(x, m),
         \A e \in Endpoints, k \in Jobs : Holds(e, k)' => Holds(e, k),
         \A k \in Jobs : Carries(m, k) => \E e \in Endpoints : Holds(e, k) /\ ~Holds(e, k)',
         UNCHANGED <<results, active, running, runs>>
  PROVE  Tokens'
<1>1. PICK n \in DOMAIN inbox'[x] :
        /\ n \notin DOMAIN inbox[x] /\ inbox'[x][n] = m
        /\ \A i \in DOMAIN inbox'[x] : i # n => i \in DOMAIN inbox[x] /\ inbox'[x][i] = inbox[x][i]
  BY Sent
<1>2. \A y \in Endpoints : y # x => inbox'[y] = inbox[y]
  BY Sent
<1>3. \A y \in Endpoints : \A i \in DOMAIN inbox'[y] :
        \/ y = x /\ i = n /\ inbox'[y][i] = m
        \/ i \in DOMAIN inbox[y] /\ inbox'[y][i] = inbox[y][i]
  BY <1>1, <1>2
<1>4. \A y \in Endpoints, k \in Jobs : Carries(m, k) =>
        /\ Known(k) /\ runs[y][k] = 0 /\ ~Holds(y, k)'
        /\ \A i \in DOMAIN inbox[y] : ~Carries(inbox[y][i], k)
  BY DEF Tokens, OneToken, KnownFirst
<1>5. \A k \in Jobs : Known(k)' <=> Known(k)
  BY DEF Known
<1>6. KnownFirst'
  <2>1. \A y \in Endpoints, k \in Jobs : \A i \in DOMAIN inbox'[y] : Carries(inbox'[y][i], k) => Known(k)'
    BY <1>3, <1>4, <1>5 DEF Tokens, KnownFirst
  <2>2. /\ \A e \in Endpoints, k \in Jobs : Holds(e, k)' => Known(k)'
        /\ \A e \in Endpoints, k \in Jobs : runs'[e][k] # 0 => Known(k)'
    BY <1>5 DEF Tokens, KnownFirst
  <2> QED  BY <2>1, <2>2 DEF KnownFirst, Carries
<1>7. OneToken'
  <2>1. \A e, y \in Endpoints, k \in Jobs : Holds(e, k)' /\ Holds(y, k)' => e = y
    BY DEF Tokens, OneToken
  <2>2. \A e, y \in Endpoints, k \in Jobs : Holds(e, k)' =>
          runs'[y][k] = 0 /\ \A i \in DOMAIN inbox'[y] : ~Carries(inbox'[y][i], k)
    BY <1>3, <1>4 DEF Tokens, OneToken
  <2>3. \A z, y \in Endpoints, k \in Jobs : \A i \in DOMAIN inbox'[z] :
          Carries(inbox'[z][i], k) => runs'[y][k] = 0
    BY <1>3, <1>4 DEF Tokens, OneToken
  <2>4. \A z, y \in Endpoints, l \in Jobs : \A i \in DOMAIN inbox'[z], k \in DOMAIN inbox'[y] :
          Carries(inbox'[z][i], l) /\ Carries(inbox'[y][k], l) => z = y /\ i = k
    BY <1>3, <1>4 DEF Tokens, OneToken
  <2> QED  BY <2>1, <2>2, <2>3, <2>4 DEF OneToken, Carries
<1>8. ActiveInv' /\ RunsOnce'
  BY ActiveStays DEF Tokens, RunsOnce
<1> QED  BY <1>6, <1>7, <1>8 DEF Tokens

\* A job that has been run is reported: it is not active any more.
LEMMA TokenReported ==
  ASSUME JobTypeOK, Tokens, NEW e \in Endpoints, NEW j \in Jobs, runs[e][j] # 0, UNCHANGED <<inbox, runs>>,
         \A x \in Endpoints, k \in Jobs : Holds(x, k)' => Holds(x, k),
         \A k \in Jobs : Known(k) => Known(k)',
         active' = [active EXCEPT ![e] = @ \ {j}],
         j \notin running'[e] /\ \A x \in Endpoints, k \in Jobs :
           x # e \/ k # j => (k \in running'[x] <=> k \in running[x]),
         running' \in [Endpoints -> SUBSET Jobs]
  PROVE  Tokens'
<1>1. \A x \in Endpoints : active'[x] = IF x = e THEN active[x] \ {j} ELSE active[x]
  BY DEF JobTypeOK
<1>2. \A x \in Endpoints : active[x] \subseteq Jobs /\ running[x] \subseteq Jobs /\ running'[x] \subseteq Jobs
  BY DEF JobTypeOK
<1>3. ~Holds(e, j)'
  BY DEF Tokens, OneToken
<1>4. ActiveInv'
  BY <1>1, <1>2, <1>3 DEF Tokens, ActiveInv
<1>5. PICK at : Origin(at)
  BY InboxSame
<1> QED  BY <1>4, <1>5, TokensEnd

\* Nothing is placed, run or reported.
LEMMA TokensQuiet ==
  ASSUME JobTypeOK, Tokens, NEW at, Origin(at), UNCHANGED <<active, running, runs>>,
         \A e \in Endpoints, j \in Jobs : Holds(e, j)' => Holds(e, j),
         \A j \in Jobs : Known(j) => Known(j)'
  PROVE  Tokens'
  BY ActiveStays, TokensEnd

-----------------------------------------------------------------------------
(* What is said of a job is true *)

\* What was over is over, and nothing new is said of a job that is not.
LEMMA TruthStays ==
  ASSUME Truthful, \A j \in Jobs : Over(j) => Over(j)',
         \A u \in Threads, j \in Jobs : Claims(th'[u], j) => Claims(th[u], j) \/ Over(j)',
         \A x \in Endpoints, j \in Jobs : \A i \in DOMAIN inbox'[x] : Claims(inbox'[x][i], j) => Over(j)',
         \A e \in Endpoints, j \in Jobs : results'[e][j] \in {"done", "rival"} =>
           results[e][j] \in {"done", "rival"} \/ Over(j)'
  PROVE  Truthful'
  BY DEF Truthful, Claims

LEMMA CommandsTruthful ==
  ASSUME Truthful, NEW at, Origin(at)
  PROVE  \A x \in Endpoints, j \in Jobs : \A i \in DOMAIN inbox'[x] : Claims(inbox'[x][i], j) => Over(j)
<1>1. \A x \in Endpoints, j \in Jobs : \A i \in DOMAIN inbox'[x] : Claims(inbox'[x][i], j) =>
         at[x][i] \in DOMAIN inbox[x] /\ Claims(inbox[x][at[x][i]], j)
  BY DEF Origin, Claims
<1> QED  BY <1>1 DEF Truthful

LEMMA SentTruthful ==
  ASSUME JobTypeOK, Truthful, NEW x \in Endpoints, NEW m \in Message, Send(x, m),
         \A j \in Jobs : Claims(m, j) => Over(j)
  PROVE  \A y \in Endpoints, j \in Jobs : \A i \in DOMAIN inbox'[y] : Claims(inbox'[y][i], j) => Over(j)
<1>1. PICK n \in DOMAIN inbox'[x] :
        /\ n \notin DOMAIN inbox[x] /\ inbox'[x][n] = m
        /\ \A i \in DOMAIN inbox'[x] : i # n => i \in DOMAIN inbox[x] /\ inbox'[x][i] = inbox[x][i]
  BY Sent
<1>2. \A y \in Endpoints : y # x => inbox'[y] = inbox[y]
  BY Sent
<1>3. \A y \in Endpoints : \A i \in DOMAIN inbox'[y] :
        \/ inbox'[y][i] = m
        \/ i \in DOMAIN inbox[y] /\ inbox'[y][i] = inbox[y][i]
  BY <1>1, <1>2
<1> QED  BY <1>3 DEF Truthful

LEMMA OverSame ==
  ASSUME UNCHANGED <<runs, running>>
  PROVE  \A j \in Jobs : Over(j)' <=> Over(j)
  BY DEF Over

LEMMA ResultSet ==
  ASSUME JobTypeOK, NEW e \in Endpoints, NEW j \in Jobs, NEW v,
         results' = [results EXCEPT ![e][j] = v]
  PROVE  \A x \in Endpoints, k \in Jobs : results'[x][k] = IF x = e /\ k = j THEN v ELSE results[x][k]
  BY DEF JobTypeOK

-----------------------------------------------------------------------------
(* The steps *)

\* One thread moves.
LEMMA HoldsOwn ==
  ASSUME NEW t \in Threads, OthersStay(t),
         \A e \in Endpoints, j \in Jobs : t = Router(e) /\ Holds(e, j)' => Holds(e, j)
  PROVE  \A e \in Endpoints, j \in Jobs : Holds(e, j)' => Holds(e, j)
  BY Routers DEF OthersStay, Holds

LEMMA ClaimsOwn ==
  ASSUME NEW t \in Threads, OthersStay(t),
         \A j \in Jobs : Claims(th'[t], j) => Claims(th[t], j) \/ Over(j)'
  PROVE  \A u \in Threads, j \in Jobs : Claims(th'[u], j) => Claims(th[u], j) \/ Over(j)'
  BY DEF OthersStay

LEMMA NamesApart ==
  /\ Nobody \notin Endpoints /\ \A t \in Threads : t # Nobody
  /\ \A e, x \in Endpoints : Router(x) # e
  BY NamesAssumption, Routers

\* A job is accepted.
LEMMA AcceptShape ==
  ASSUME JobTypeOK, NEW e \in Endpoints, NEW j \in Jobs, NEW c \in Callers \cup Endpoints, Accept(e, j, c)
  PROVE  /\ th' \in [Threads -> ThreadState] /\ OthersStay(Router(e)) /\ RouterFine(e)'
         /\ th'[Router(e)].op = "submit" /\ th'[Router(e)].caller = c /\ th'[Router(e)].job = j
         /\ results' \in [Endpoints -> [Jobs -> Results]] /\ active' \in [Endpoints -> SUBSET Jobs]
         /\ active' = [active EXCEPT ![e] = @ \cup {j}]
         /\ Known(j)' /\ \A k \in Jobs : Known(k) => Known(k)'
         /\ \A x \in Endpoints, k \in Jobs : results'[x][k] \in {"done", "rival"} => results[x][k] \in {"done", "rival"}
         /\ \A x \in Endpoints, k \in Jobs : Holds(x, k)' => Holds(x, k) \/ (x = e /\ k = j)
<1> DEFINE h == [op |-> "submit", job |-> j, caller |-> c, stage |-> "place", to |-> Nobody, answer |-> None]
<1>1. /\ h \in ThreadState /\ h.op = "submit" /\ h.caller = c /\ h.job = j /\ h.stage = "place"
      /\ h.to = Nobody /\ h.answer = None
  BY DEF ThreadState, SubmitCall, Answers
<1>2. th' = [th EXCEPT ![Router(e)] = h]
  BY DEF Accept
<1> HIDE DEF h
<1>3. th' \in [Threads -> ThreadState] /\ th'[Router(e)] = h /\ OthersStay(Router(e))
  BY <1>1, <1>2, ThreadSet, Routers
<1>4. RouterFine(e)'
  BY <1>1, <1>3, NamesApart DEF RouterFine, None
<1>5. "PENDING" \in Results /\ "PENDING" # None /\ results' = [results EXCEPT ![e][j] = "PENDING"]
  BY DEF Results, None, Accept
<1>6. /\ results' \in [Endpoints -> [Jobs -> Results]]
      /\ Known(j)' /\ \A k \in Jobs : Known(k) => Known(k)'
  BY <1>5, Stays
<1>7. \A x \in Endpoints, k \in Jobs : results'[x][k] \in {"done", "rival"} => results[x][k] \in {"done", "rival"}
  BY <1>5, ResultSet
<1>8. active' \in [Endpoints -> SUBSET Jobs] /\ active' = [active EXCEPT ![e] = @ \cup {j}]
  BY DEF Accept, JobTypeOK
<1>9. \A x \in Endpoints, k \in Jobs : Holds(x, k)' => Holds(x, k) \/ (x = e /\ k = j)
  BY <1>1, <1>3, Routers DEF OthersStay, Holds
<1> QED  BY <1>1, <1>3, <1>4, <1>6, <1>7, <1>8, <1>9

LEMMA SubmitStep ==
  ASSUME JobInv, NEW e \in Endpoints, NEW j \in Jobs, Submit(e, j)
  PROVE  JobInv'
<1> DEFINE t == Router(e)
<1>0. JobTypeOK /\ Calls /\ Tokens /\ Truthful /\ t \in Threads /\ th[t] = Idle /\ ~Waiting(t) /\ Accept(e, j, e)
  BY Routers DEF JobInv, Submit, Waiting, Idle
<1>1. /\ th' \in [Threads -> ThreadState] /\ OthersStay(t) /\ RouterFine(e)'
      /\ th'[t].op = "submit" /\ th'[t].caller = e /\ th'[t].job = j
      /\ results' \in [Endpoints -> [Jobs -> Results]] /\ active' \in [Endpoints -> SUBSET Jobs]
      /\ active' = [active EXCEPT ![e] = @ \cup {j}]
      /\ Known(j)' /\ \A k \in Jobs : Known(k) => Known(k)'
      /\ \A x \in Endpoints, k \in Jobs : results'[x][k] \in {"done", "rival"} => results[x][k] \in {"done", "rival"}
      /\ \A x \in Endpoints, k \in Jobs : Holds(x, k)' => Holds(x, k) \/ (x = e /\ k = j)
  BY <1>0, AcceptShape
<1>2. PICK at : Origin(at)
  BY InboxSame DEF Submit
<1>3. JobTypeOK'
  BY <1>0, <1>1 DEF JobTypeOK, Submit
<1>4. Calls'
  <2>1. \A x \in Endpoints : ~Serves(t, Router(x))'
    BY <1>1, NamesApart DEF Serves
  <2> QED  BY <1>0, <1>1, <2>1, OwnStep, Routers DEF Submit
<1>5. Tokens'
  <2>1. ~Known(j)
    BY DEF Submit, Known
  <2>2. \A x \in Endpoints : ~Holds(x, j) /\ runs[x][j] = 0
    BY <1>0, <2>1 DEF Tokens, KnownFirst
  <2>3. \A x \in Endpoints : \A i \in DOMAIN inbox[x] : ~Carries(inbox[x][i], j)
    BY <1>0, <2>1 DEF Tokens, KnownFirst
  <2> QED  BY <1>0, <1>1, <1>2, <2>2, <2>3, TokenTaken DEF Submit
<1>6. Truthful'
  <2>1. \A k \in Jobs : Over(k)' <=> Over(k)
    BY OverSame DEF Submit
  <2>2. \A u \in Threads, k \in Jobs : Claims(th'[u], k) => Claims(th[u], k) \/ Over(k)'
    BY <1>0, <1>1, ClaimsOwn DEF Claims
  <2> QED  BY <1>0, <1>1, <1>2, <2>1, <2>2, CommandsTruthful, TruthStays
<1> QED  BY <1>3, <1>4, <1>5, <1>6 DEF JobInv

LEMMA ReceiveForwardStep ==
  ASSUME JobInv, NEW e \in Endpoints, ReceiveForward(e)
  PROVE  JobInv'
<1> DEFINE t == Router(e)
           m == inbox[e][1]
           j == m.job
           c == m.from
<1>0. /\ JobTypeOK /\ Calls /\ Tokens /\ Truthful /\ t \in Threads
      /\ inbox[e] # <<>> /\ Drop(e) /\ th[t] = Idle
  BY Routers DEF JobInv, ReceiveForward, Take
<1>1. /\ inbox' \in [Endpoints -> Seq(Message)] /\ 1 \in DOMAIN inbox[e] /\ Head(inbox[e]) = m /\ m \in Message
      /\ \E at : Origin(at) /\ \A i \in DOMAIN inbox'[e] : at[e][i] # 1
  BY <1>0, Dropped
<1>2. j \in Jobs /\ c \in Callers \cup Endpoints /\ m.op = "forward" /\ Accept(e, j, c)
  BY <1>1, MessageIs DEF ReceiveForward, Take
<1>3. /\ th' \in [Threads -> ThreadState] /\ OthersStay(t) /\ RouterFine(e)'
      /\ th'[t].op = "submit" /\ th'[t].caller = c /\ th'[t].job = j
      /\ results' \in [Endpoints -> [Jobs -> Results]] /\ active' \in [Endpoints -> SUBSET Jobs]
      /\ active' = [active EXCEPT ![e] = @ \cup {j}]
      /\ \E x \in Endpoints : results'[x][j] # None
      /\ \A k \in Jobs : Known(k) => Known(k)'
      /\ \A x \in Endpoints, k \in Jobs : results'[x][k] \in {"done", "rival"} => results[x][k] \in {"done", "rival"}
      /\ \A x \in Endpoints, k \in Jobs : Holds(x, k)' => Holds(x, k) \/ (x = e /\ k = j)
  <2> SUFFICES ASSUME NEW jj \in Jobs, jj = j
               PROVE  /\ th' \in [Threads -> ThreadState] /\ OthersStay(t) /\ RouterFine(e)'
                      /\ th'[t].op = "submit" /\ th'[t].caller = c /\ th'[t].job = jj
                      /\ results' \in [Endpoints -> [Jobs -> Results]] /\ active' \in [Endpoints -> SUBSET Jobs]
                      /\ active' = [active EXCEPT ![e] = @ \cup {jj}]
                      /\ \E x \in Endpoints : results'[x][jj] # None
                      /\ \A k \in Jobs : Known(k) => Known(k)'
                      /\ \A x \in Endpoints, k \in Jobs :
                           results'[x][k] \in {"done", "rival"} => results[x][k] \in {"done", "rival"}
                      /\ \A x \in Endpoints, k \in Jobs : Holds(x, k)' => Holds(x, k) \/ (x = e /\ k = jj)
    BY <1>2
  <2>1. Accept(e, jj, c)
    BY <1>2
  <2>2. Known(jj)'
    BY <1>0, <1>2, <2>1, AcceptShape
  <2> HIDE DEF c
  <2> QED  BY <1>0, <1>2, <2>1, <2>2, AcceptShape DEF Known
<1>4. PICK at : Origin(at) /\ \A i \in DOMAIN inbox'[e] : at[e][i] # 1
  BY <1>1
<1>5. JobTypeOK'
  BY <1>0, <1>1, <1>3 DEF JobTypeOK, ReceiveForward
<1>6. Calls'
  BY <1>0, <1>3, CommandTaken
<1>7. Tokens'
  <2> SUFFICES ASSUME NEW jj \in Jobs, jj = j  PROVE Tokens'
    BY <1>2
  <2>0. Carries(m, jj)
    BY <1>2 DEF Carries
  <2>1. \A x \in Endpoints : ~Holds(x, jj) /\ runs[x][jj] = 0
    BY <1>0, <1>1, <2>0 DEF Tokens, OneToken
  <2>2. \A x \in Endpoints : \A i \in DOMAIN inbox[x] : Carries(inbox[x][i], jj) => x = e /\ i = 1
    BY <1>0, <1>1, <2>0 DEF Tokens, OneToken
  <2>3. \A x \in Endpoints : \A i \in DOMAIN inbox'[x] : ~Carries(inbox'[x][i], jj)
    BY <1>4, <2>2 DEF Origin, Carries
  <2>4. Known(jj)'
    BY <1>3 DEF Known
  <2>5. /\ \A x \in Endpoints, k \in Jobs : Holds(x, k)' => Holds(x, k) \/ (x = e /\ k = jj)
        /\ active' = [active EXCEPT ![e] = @ \cup {jj}]
    BY <1>3
  <2>6. UNCHANGED <<runs, running>>
    BY DEF ReceiveForward
  <2> QED  BY <1>0, <1>3, <1>4, <2>1, <2>3, <2>4, <2>5, <2>6, TokenTaken
<1>8. Truthful'
  <2>1. \A k \in Jobs : Over(k)' <=> Over(k)
    BY OverSame DEF ReceiveForward
  <2>2. \A u \in Threads, k \in Jobs : Claims(th'[u], k) => Claims(th[u], k) \/ Over(k)'
    BY <1>0, <1>3, ClaimsOwn DEF Claims
  <2> QED  BY <1>0, <1>3, <1>4, <2>1, <2>2, CommandsTruthful, TruthStays
<1> QED  BY <1>5, <1>6, <1>7, <1>8 DEF JobInv

\* The router goes on with its submission: what that means for its calls.
LEMMA RouterGoesOn ==
  ASSUME JobTypeOK, Calls, NEW e \in Endpoints, th[Router(e)].op = "submit", ~Waiting(Router(e)),
         NEW s \in {"ok", "err"}, Moves(Router(e), s, Nobody), UNCHANGED inbox
  PROVE  /\ Calls' /\ th' \in [Threads -> ThreadState]
         /\ \A x \in Endpoints, k \in Jobs : Holds(x, k)' => Holds(x, k)
         /\ \A k \in Jobs : ~Holds(e, k)'
         /\ \A u \in Threads, k \in Jobs : Claims(th'[u], k) => Claims(th[u], k)
<1> DEFINE t == Router(e)
<1>1. t \in Threads /\ Nobody \in Endpoints \cup {Nobody} /\ s \in {"place", "slot", "forward", "ok", "err"}
  BY Routers
<1>2. /\ th' \in [Threads -> ThreadState] /\ OthersStay(t)
      /\ th'[t].op = "submit" /\ th'[t].job = th[t].job /\ th'[t].caller = th[t].caller
      /\ th'[t].stage = s /\ th'[t].to = Nobody /\ th'[t].answer = None
  BY <1>1, MovesShape
<1>3. RouterFine(e)'
  BY <1>2, NamesApart DEF RouterFine, None
<1>4. \A x \in Endpoints : Serves(t, Router(x))' => Serves(t, Router(x))
  BY <1>2 DEF Serves
<1>5. Calls'
  BY <1>1, <1>2, <1>3, <1>4, OwnStep, Routers
<1>6. \A k \in Jobs : ~Holds(e, k)'
  BY <1>2 DEF Holds
<1>7. \A x \in Endpoints, k \in Jobs : Holds(x, k)' => Holds(x, k)
  BY <1>1, <1>2, <1>6, HoldsOwn, Routers
<1>8. \A u \in Threads, k \in Jobs : Claims(th'[u], k) => Claims(th[u], k)
  BY <1>2 DEF OthersStay, Claims
<1> QED  BY <1>2, <1>5, <1>6, <1>7, <1>8

\* An answer is there, so the router does not wait; what it is placing it holds.
LEMMA Placed ==
  ASSUME JobInv, NEW e \in Endpoints
  PROVE  /\ Placing(e) => ~Waiting(Router(e)) /\ Holds(e, th[Router(e)].job) /\ th[Router(e)].op = "submit"
         /\ Answered(Router(e)) => ~Waiting(Router(e)) /\ th[Router(e)].op # "idle"
         /\ Answered(Router(e)) /\ th[Router(e)].answer \in {"granted", "place"} =>
              Holds(e, th[Router(e)].job) /\ th[Router(e)].op = "submit"
         /\ th[Router(e)].op # "idle" => th[Router(e)].job \in Jobs
<1>1. RouterFine(e) /\ th[Router(e)] \in ThreadState
  BY ThreadIs DEF JobInv, Calls, SlotsAreAskedFor
<1> QED  BY <1>1, ThreadKinds DEF Placing, Answered, Waiting, Holds, RouterFine

LEMMA RunHereStep ==
  ASSUME JobInv, NEW e \in Endpoints, RunHere(e)
  PROVE  JobInv'
<1> DEFINE t == Router(e)
<1>0. /\ JobTypeOK /\ Calls /\ Tokens /\ Truthful /\ th[t].op = "submit" /\ ~Waiting(t)
      /\ th[t].job \in Jobs /\ Holds(e, th[t].job)
  BY Placed DEF JobInv, RunHere
<1>1. PICK j \in Jobs : j = th[t].job
  BY <1>0
<1>2. Holds(e, j)
  BY <1>0, <1>1
<1>3. /\ running' = [running EXCEPT ![e] = @ \cup {j}] /\ runs' = [runs EXCEPT ![e][j] = @ + 1]
      /\ Moves(t, "ok", Nobody) /\ UNCHANGED <<results, active, identity, inbox, hash, late, lost>>
  BY <1>1 DEF RunHere
<1>4. /\ Calls' /\ th' \in [Threads -> ThreadState]
      /\ \A x \in Endpoints, k \in Jobs : Holds(x, k)' => Holds(x, k)
      /\ \A k \in Jobs : ~Holds(e, k)'
      /\ \A u \in Threads, k \in Jobs : Claims(th'[u], k) => Claims(th[u], k)
  BY <1>0, <1>3, RouterGoesOn
<1>5. JobTypeOK'
  <2>1. running' \in [Endpoints -> SUBSET Jobs] /\ runs' \in [Endpoints -> [Jobs -> Nat]]
    BY <1>0, <1>3 DEF JobTypeOK
  <2> QED  BY <1>0, <1>3, <1>4, <2>1 DEF JobTypeOK
<1>6. Tokens'
  BY <1>0, <1>2, <1>3, <1>4, TokenRuns
<1>7. Truthful'
  <2>1. \A x \in Endpoints : runs[x][j] = 0
    BY <1>0, <1>2 DEF Tokens, OneToken
  <2>2. ~Over(j)
    BY <2>1 DEF Over
  <2>3. /\ \A x \in Endpoints, k \in Jobs : k # j => runs'[x][k] = runs[x][k]
        /\ \A x \in Endpoints, k \in Jobs : k # j => (k \in running'[x] <=> k \in running[x])
    BY <1>0, <1>3 DEF JobTypeOK
  <2>4. \A k \in Jobs : Over(k) => Over(k)'
    BY <2>2, <2>3 DEF Over
  <2>5. \A x \in Endpoints, k \in Jobs : \A i \in DOMAIN inbox'[x] : Claims(inbox'[x][i], k) => Over(k)'
    BY <1>0, <1>3, <2>4 DEF Truthful
  <2> QED  BY <1>0, <1>3, <1>4, <2>4, <2>5, TruthStays
<1> QED  BY <1>4, <1>5, <1>6, <1>7 DEF JobInv

LEMMA ForwardedStep ==
  ASSUME JobInv, NEW e \in Endpoints, Forwarded(e)
  PROVE  JobInv'
<1> DEFINE t == Router(e)
<1>0. JobTypeOK /\ Calls /\ Tokens /\ Truthful /\ ~Waiting(t)
  BY Placed DEF JobInv, Forwarded
<1>1. th[t].op = "submit"
  <2>1. th[t] \in ThreadState /\ th[t].op # "idle" /\ th[t].stage = "forward"
    BY <1>0, ThreadIs DEF Forwarded, Answered
  <2> QED  BY <2>1 DEF ThreadState, SubmitCall, PushCall, VerifyCall, Idle
<1>2. Moves(t, "ok", Nobody)
  BY DEF Forwarded
<1>3. UNCHANGED <<results, active, identity, running, runs, inbox, hash, late, lost>>
  BY DEF Forwarded
<1>4. /\ Calls' /\ th' \in [Threads -> ThreadState]
      /\ \A x \in Endpoints, k \in Jobs : Holds(x, k)' => Holds(x, k)
      /\ \A u \in Threads, k \in Jobs : Claims(th'[u], k) => Claims(th[u], k)
  BY <1>0, <1>1, <1>2, <1>3, RouterGoesOn
<1>5. PICK at : Origin(at)
  BY <1>3, InboxSame
<1>6. JobTypeOK'
  BY <1>0, <1>3, <1>4 DEF JobTypeOK
<1>7. Tokens'
  BY <1>0, <1>3, <1>4, <1>5, TokensQuiet DEF Known
<1>8. Truthful'
  BY <1>0, <1>3, <1>4, <1>5, OverSame, CommandsTruthful, TruthStays
<1> QED  BY <1>4, <1>6, <1>7, <1>8 DEF JobInv

LEMMA InvokeFailsStep ==
  ASSUME JobInv, NEW e \in Endpoints, InvokeFails(e)
  PROVE  JobInv'
<1> DEFINE t == Router(e)
<1>0. /\ JobTypeOK /\ Calls /\ Tokens /\ Truthful /\ th[t].op = "submit" /\ ~Waiting(t)
      /\ th[t].job \in Jobs
  BY Placed DEF JobInv, InvokeFails
<1>1. PICK j \in Jobs : j = th[t].job
  BY <1>0
<1>2. /\ results' = [results EXCEPT ![e][j] = "failed"] /\ Moves(t, "err", Nobody)
      /\ UNCHANGED <<active, identity, running, runs, inbox, hash, late, lost>>
  BY <1>1 DEF InvokeFails
<1>3. /\ Calls' /\ th' \in [Threads -> ThreadState]
      /\ \A x \in Endpoints, k \in Jobs : Holds(x, k)' => Holds(x, k)
      /\ \A u \in Threads, k \in Jobs : Claims(th'[u], k) => Claims(th[u], k)
  BY <1>0, <1>2, RouterGoesOn
<1>4. PICK at : Origin(at)
  BY <1>2, InboxSame
<1>5. results' \in [Endpoints -> [Jobs -> Results]] /\ \A k \in Jobs : Known(k) => Known(k)'
  <2>1. "failed" \in Results /\ "failed" # None
    BY DEF Results, Final, None
  <2> QED  BY <1>0, <1>2, <2>1, Stays
<1>6. JobTypeOK'
  BY <1>0, <1>2, <1>3, <1>5 DEF JobTypeOK
<1>7. Tokens'
  BY <1>0, <1>2, <1>3, <1>4, <1>5, TokensQuiet
<1>8. Truthful'
  <2>1. \A x \in Endpoints, k \in Jobs : results'[x][k] \in {"done", "rival"} => results[x][k] \in {"done", "rival"}
    BY <1>0, <1>2, ResultSet
  <2> QED  BY <1>0, <1>2, <1>3, <1>4, <2>1, OverSame, CommandsTruthful, TruthStays
<1> QED  BY <1>3, <1>6, <1>7, <1>8 DEF JobInv

\* The router calls another endpoint about its submission.
LEMMA RouterCalls ==
  ASSUME JobInv, NEW e \in Endpoints, th[Router(e)].op = "submit", ~Waiting(Router(e)),
         Holds(e, th[Router(e)].job),
         NEW s \in {"slot", "forward"}, NEW x \in Endpoints, x # e, Moves(Router(e), s, x),
         Send(x, [op |-> s, job |-> th[Router(e)].job, from |-> Router(e), val |-> None]),
         UNCHANGED <<results, active, identity, running, runs, hash, late, lost>>
  PROVE  JobInv'
<1> DEFINE t == Router(e)
           m == [op |-> s, job |-> th[t].job, from |-> t, val |-> None]
<1>0. /\ JobTypeOK /\ Calls /\ Tokens /\ Truthful /\ t \in Threads /\ th[t].job \in Jobs
      /\ s \in {"place", "slot", "forward", "ok", "err"} /\ x \in Endpoints \cup {Nobody} /\ x # Nobody
  BY Routers, Placed, NamesApart DEF JobInv
<1>1. m \in Message /\ m.op = s /\ m.from = t /\ m.job = th[t].job
  BY <1>0 DEF Message, Callers
<1>2. Send(x, m)
  OBVIOUS
<1> HIDE DEF m
<1>3. /\ th' \in [Threads -> ThreadState] /\ OthersStay(t)
      /\ th'[t].op = "submit" /\ th'[t].job = th[t].job /\ th'[t].caller = th[t].caller
      /\ th'[t].stage = s /\ th'[t].to = x /\ th'[t].answer = None
  BY <1>0, MovesShape
<1>4. Calls'
  <2>1. RouterFine(e)' /\ Waiting(t)'
    BY <1>0, <1>3 DEF RouterFine, Waiting, None
  <2>2. \A y \in Endpoints : Serves(t, Router(y))' => Serves(t, Router(y))
    BY <1>3 DEF Serves
  <2>3. m.op = "slot" => AsksForSlot(e)'
    BY <1>1, <1>3 DEF AsksForSlot
  <2> QED  BY <1>0, <1>1, <1>2, <1>3, <2>1, <2>2, <2>3, CallMade, Routers
<1>5. \A y \in Endpoints, k \in Jobs : Holds(y, k)' => Holds(y, k)
  <2>1. \A k \in Jobs : Holds(e, k)' => Holds(e, k)
    BY <1>3 DEF Holds
  <2> QED  BY <1>0, <1>3, <2>1, HoldsOwn, Routers
<1>6. Tokens'
  <2>1. \A k \in Jobs : Carries(m, k) => Holds(e, k) /\ ~Holds(e, k)'
    BY <1>1, <1>3 DEF Carries, Holds
  <2> QED  BY <1>0, <1>1, <1>2, <1>5, <2>1, TokenSent
<1>7. JobTypeOK'
  <2>1. inbox' \in [Endpoints -> Seq(Message)]
    BY <1>0, <1>1, <1>2, Sent
  <2> QED  BY <1>0, <1>3, <2>1 DEF JobTypeOK
<1>8. Truthful'
  <2>1. \A k \in Jobs : ~Claims(m, k)
    BY <1>1 DEF Claims
  <2>2. \A u \in Threads, k \in Jobs : Claims(th'[u], k) => Claims(th[u], k) \/ Over(k)'
    BY <1>0, <1>3, ClaimsOwn DEF Claims
  <2> QED  BY <1>0, <1>1, <1>2, <2>1, <2>2, OverSame, SentTruthful, TruthStays
<1> QED  BY <1>4, <1>6, <1>7, <1>8 DEF JobInv

LEMMA AskLeaderStep ==
  ASSUME JobInv, NEW e \in Endpoints, AskLeader(e)
  PROVE  JobInv'
<1>1. /\ th[Router(e)].op = "submit" /\ ~Waiting(Router(e)) /\ Holds(e, th[Router(e)].job)
      /\ Leader \in Endpoints /\ Leader # e
  BY Placed, JobServiceAssumption DEF AskLeader
<1>2. /\ Moves(Router(e), "slot", Leader)
      /\ Send(Leader, [op |-> "slot", job |-> th[Router(e)].job, from |-> Router(e), val |-> None])
      /\ UNCHANGED <<results, active, identity, running, runs, hash, late, lost>>
  BY DEF AskLeader
<1> QED  BY <1>1, <1>2, RouterCalls

LEMMA ForwardToStep ==
  ASSUME JobInv, NEW e \in Endpoints, NEW x \in Endpoints, ForwardTo(e, x)
  PROVE  JobInv'
<1>1. th[Router(e)].op = "submit" /\ ~Waiting(Router(e)) /\ Holds(e, th[Router(e)].job) /\ x # e
  BY Placed DEF ForwardTo
<1>2. /\ Moves(Router(e), "forward", x)
      /\ Send(x, [op |-> "forward", job |-> th[Router(e)].job, from |-> Router(e), val |-> None])
      /\ UNCHANGED <<results, active, identity, running, runs, hash, late, lost>>
  BY DEF ForwardTo
<1> QED  BY <1>1, <1>2, RouterCalls

\* No job is placed, run or reported, and nothing is said that is not true.
LEMMA QuietStep ==
  ASSUME JobInv, Calls', NEW at, Origin(at), UNCHANGED <<active, running, runs>>,
         th' \in [Threads -> ThreadState], inbox' \in [Endpoints -> Seq(Message)],
         results' \in [Endpoints -> [Jobs -> Results]], hash' \in [Endpoints -> [Jobs -> Results]],
         identity' \in [Endpoints -> SUBSET Jobs], late' \subseteq Jobs, lost' \subseteq Jobs,
         \A j \in Jobs : Known(j) => Known(j)',
         \A e \in Endpoints, j \in Jobs : results'[e][j] \in {"done", "rival"} =>
           results[e][j] \in {"done", "rival"} \/ Over(j),
         \A e \in Endpoints, j \in Jobs : Holds(e, j)' => Holds(e, j),
         \A u \in Threads, j \in Jobs : Claims(th'[u], j) => Claims(th[u], j) \/ Over(j)
  PROVE  JobInv'
<1>0. JobTypeOK /\ Tokens /\ Truthful
  BY DEF JobInv
<1>1. JobTypeOK'
  BY <1>0 DEF JobTypeOK
<1>2. Tokens'
  BY <1>0, TokensQuiet
<1>3. Truthful'
  BY <1>0, OverSame, CommandsTruthful, TruthStays
<1> QED  BY <1>1, <1>2, <1>3 DEF JobInv

\* An answer changes neither what routers hold nor what threads say.
LEMMA AnswerQuiet ==
  ASSUME JobTypeOK, NEW u \in Threads, SameCall(th'[u], th[u])
  PROVE  /\ \A j \in Jobs : Claims(th'[u], j) => Claims(th[u], j)
         /\ \A e \in Endpoints, j \in Jobs : u = Router(e) /\ Holds(e, j)' => Holds(e, j)
<1>1. th[u].op # "replicate"
  BY ThreadIs, ThreadKinds
<1> QED  BY <1>1 DEF SameCall, Holds, Claims

\* Threads as they are when t has become idle.
Frees(freed, t) == freed = [th EXCEPT ![t] = Idle]

\* A thread has done with its command, and answers.
LEMMA ServedStep ==
  ASSUME JobInv, NEW t \in Threads, ~Waiting(t), NEW c, NEW a \in {"ok", "err"},
         NEW freed, Frees(freed, t), th' = WithAnswer(freed, c, a),
         \A e \in Endpoints : c = Router(e) => Serves(t, c),
         UNCHANGED <<results, active, running, runs, inbox, hash, late, lost>>,
         identity' \in [Endpoints -> SUBSET Jobs]
  PROVE  JobInv'
<1>0. JobTypeOK /\ Calls /\ Tokens /\ Truthful /\ a \in Answers
  BY DEF JobInv, Answers
<1>1. /\ freed \in [Threads -> ThreadState] /\ freed[t] = Idle
      /\ \A u \in Threads : u # t => freed[u] = th[u]
  BY <1>0 DEF JobTypeOK, ThreadState, Frees
<1>3. /\ th' \in [Threads -> ThreadState]
      /\ \A u \in Threads : /\ SameCall(th'[u], freed[u])
                            /\ u # c \/ c = Nobody => th'[u] = freed[u]
                            /\ u = c /\ c # Nobody /\ freed[u].op # "idle" => th'[u].answer = a
  BY <1>0, <1>1, AnswerShape
<1>4. th'[t].op = "idle"
  BY <1>1, <1>3 DEF SameCall, Idle
<1>5. \A u \in Threads : u # t => /\ SameCall(th'[u], th[u])
                                  /\ u # c \/ c = Nobody => th'[u] = th[u]
                                  /\ u = c /\ c # Nobody /\ th[u].op # "idle" => th'[u].answer = a
  BY <1>1, <1>3
<1>6. Calls'
  BY <1>0, <1>4, <1>5, CallServed
<1>7. \A u \in Threads, j \in Jobs : Claims(th'[u], j) => Claims(th[u], j)
  BY <1>0, <1>4, <1>5, AnswerQuiet DEF Claims
<1>8. \A e \in Endpoints, j \in Jobs : Holds(e, j)' => Holds(e, j)
  BY <1>0, <1>4, <1>5, AnswerQuiet, Routers DEF Holds
<1>9. PICK at : Origin(at)
  BY InboxSame
<1>10. JobTypeOK'
  BY <1>0, <1>3 DEF JobTypeOK
<1>11. Tokens'
  BY <1>0, <1>8, <1>9, TokensQuiet DEF Known
<1>12. Truthful'
  BY <1>0, <1>7, <1>9, OverSame, CommandsTruthful, TruthStays
<1> QED  BY <1>6, <1>10, <1>11, <1>12 DEF JobInv

LEMMA ReplyStep ==
  ASSUME JobInv, NEW e \in Endpoints, Reply(e)
  PROVE  JobInv'
<1> DEFINE t == Router(e)
           r == th[t]
<1>0. JobTypeOK /\ t \in Threads /\ RouterFine(e) /\ r.op = "submit" /\ r.stage \in {"ok", "err"}
  BY Routers DEF JobInv, Reply, Calls, SlotsAreAskedFor
<1>1. ~Waiting(t) /\ r.job \in Jobs
  BY <1>0, ThreadIs, ThreadKinds DEF RouterFine, Waiting
<1>2. UNCHANGED <<results, active, running, runs, inbox, hash, late, lost>>
  BY DEF Reply
<1>3. CASE r.caller = e
  <2>1. PICK freed : Frees(freed, t) /\ th' = WithAnswer(freed, Nobody, "ok")
    BY <1>3 DEF Reply, WithAnswer, Frees
  <2>2. identity' \in [Endpoints -> SUBSET Jobs]
    <3>1. identity' = [identity EXCEPT ![e] = IF r.stage = "ok" THEN identity[e] \cup {r.job} ELSE identity[e]]
      BY <1>3 DEF Reply
    <3>2. identity \in [Endpoints -> SUBSET Jobs]
      BY <1>0 DEF JobTypeOK
    <3> QED  BY <1>1, <3>1, <3>2
  <2> QED  BY <1>0, <1>1, <1>2, <2>1, <2>2, ServedStep, Routers
<1>4. CASE r.caller # e
  <2>1. /\ \E freed : Frees(freed, t) /\ th' = WithAnswer(freed, r.caller, r.stage)
        /\ UNCHANGED identity
    BY <1>4 DEF Reply, Frees
  <2>2. Serves(t, r.caller) /\ identity' \in [Endpoints -> SUBSET Jobs]
    BY <1>0, <2>1 DEF Serves, JobTypeOK
  <2> QED  BY <1>0, <1>1, <1>2, <2>1, <2>2, ServedStep
<1> QED  BY <1>3, <1>4

LEMMA SyncEndsStep ==
  ASSUME JobInv, NEW t \in Threads, SyncEnds(t)
  PROVE  JobInv'
<1>1. JobTypeOK /\ th[t] \in ThreadState /\ th[t].op \in {"sync", "verify"} /\ ~Waiting(t)
  BY ThreadIs DEF JobInv, SyncEnds, Fanning, Waiting
<1>2. PICK freed : Frees(freed, t) /\ th' = WithAnswer(freed, th[t].caller, "ok")
  BY DEF SyncEnds, Frees
<1>3. \A e \in Endpoints : th[t].caller = Router(e) => Serves(t, th[t].caller)
  <2>1. th[t].op = "verify" => th[t].caller = Nobody
    BY <1>1, ThreadKinds DEF VerifyCall
  <2> QED  BY <1>1, <2>1, Routers DEF Serves
<1>4. /\ UNCHANGED <<results, active, running, runs, inbox, hash, late, lost>>
      /\ identity' \in [Endpoints -> SUBSET Jobs]
  BY <1>1 DEF SyncEnds, JobTypeOK
<1> QED  BY <1>1, <1>2, <1>3, <1>4, ServedStep

\* A push goes on, or ends.
LEMMA PushMoves ==
  ASSUME JobInv, NEW t \in Threads, th[t].op \in {"report", "sync", "verify"},
         NEW h \in ThreadState, th' = [th EXCEPT ![t] = h],
         \/ h = Idle /\ ~Waiting(t)
         \/ /\ h.op = th[t].op /\ h.caller = th[t].caller /\ h.job = th[t].job /\ h.val = th[t].val
            /\ h.left \subseteq th[t].left /\ h.answer = th[t].answer
            /\ h.to = th[t].to \/ (h.to = Nobody /\ ~Waiting(t)),
         UNCHANGED <<active, running, runs, inbox, identity>>,
         results' \in [Endpoints -> [Jobs -> Results]], hash' \in [Endpoints -> [Jobs -> Results]],
         late' \subseteq Jobs, lost' \subseteq Jobs,
         \A j \in Jobs : Known(j) => Known(j)',
         \A e \in Endpoints, j \in Jobs : results'[e][j] \in {"done", "rival"} =>
           results[e][j] \in {"done", "rival"} \/ Over(j)
  PROVE  JobInv'
<1>0. JobTypeOK /\ Calls /\ Idle.op = "idle"
  BY DEF JobInv, Idle
<1>1. th' \in [Threads -> ThreadState] /\ th'[t] = h /\ OthersStay(t)
  BY <1>0, ThreadSet
<1>2. \A e \in Endpoints : t = Router(e) /\ Waiting(t) =>
        /\ Waiting(t)' /\ th'[t].to = th[t].to
        /\ AsksForSlot(e) => AsksForSlot(e)'
  BY <1>0, <1>1 DEF Waiting, AsksForSlot
<1>3. \A e \in Endpoints : Serves(t, Router(e))' => Serves(t, Router(e))
  BY <1>0, <1>1 DEF Serves
<1>4. \A e \in Endpoints : t = Router(e) => RouterFine(e)'
  <2> SUFFICES ASSUME NEW e \in Endpoints, t = Router(e)  PROVE RouterFine(e)'
    OBVIOUS
  <2>1. RouterFine(e)
    BY <1>0 DEF Calls, SlotsAreAskedFor
  <2> QED  BY <1>0, <1>1, <2>1, NamesApart DEF RouterFine
<1>5. Calls'
  BY <1>0, <1>1, <1>2, <1>3, <1>4, OwnStep
<1>6. \A e \in Endpoints, j \in Jobs : Holds(e, j)' => Holds(e, j)
  <2>1. \A e \in Endpoints, j \in Jobs : t = Router(e) => ~Holds(e, j)'
    BY <1>0, <1>1 DEF Holds
  <2> QED  BY <1>1, <2>1, HoldsOwn
<1>7. \A u \in Threads, j \in Jobs : Claims(th'[u], j) => Claims(th[u], j)
  BY <1>0, <1>1 DEF OthersStay, Claims
<1>8. PICK at : Origin(at)
  BY InboxSame
<1>9. inbox' \in [Endpoints -> Seq(Message)] /\ identity' \in [Endpoints -> SUBSET Jobs]
  BY <1>0 DEF JobTypeOK
<1> QED  BY <1>1, <1>5, <1>6, <1>7, <1>8, <1>9, QuietStep

\* A push calls the endpoint it is for.
LEMMA PushCalls ==
  ASSUME JobInv, NEW t \in Threads, th[t].op \in {"report", "sync", "verify"}, th[t].to = Nobody,
         NEW h \in ThreadState, th' = [th EXCEPT ![t] = h],
         NEW x \in Endpoints, \A e \in Endpoints : t = Router(e) => x # e,
         h.op = th[t].op, h.caller = th[t].caller, h.job = th[t].job, h.val = th[t].val,
         h.left = th[t].left, h.to = x, h.answer = None,
         NEW m \in Message, m.op \in {"sync", "replicate"}, m.job = th[t].job, m.val = th[t].val,
         m.from = t, Send(x, m),
         UNCHANGED <<results, active, identity, running, runs, hash, late, lost>>
  PROVE  JobInv'
<1>0. JobTypeOK /\ Calls /\ Tokens /\ Truthful /\ ~Waiting(t)
  BY DEF JobInv, Waiting
<1>1. th' \in [Threads -> ThreadState] /\ th'[t] = h /\ OthersStay(t)
  BY <1>0, ThreadSet
<1>2. Waiting(t)' /\ th'[t].to = x
  BY <1>1, NamesApart DEF Waiting
<1>3. \A e \in Endpoints : Serves(t, Router(e))' => Serves(t, Router(e))
  BY <1>1 DEF Serves
<1>4. \A e \in Endpoints : t = Router(e) => RouterFine(e)'
  <2> SUFFICES ASSUME NEW e \in Endpoints, t = Router(e)  PROVE RouterFine(e)'
    OBVIOUS
  <2>1. RouterFine(e)
    BY <1>0 DEF Calls, SlotsAreAskedFor
  <2> QED  BY <1>1, <2>1 DEF RouterFine, None
<1>5. Calls'
  BY <1>0, <1>1, <1>2, <1>3, <1>4, CallMade
<1>6. \A e \in Endpoints, j \in Jobs : Holds(e, j)' => Holds(e, j)
  <2>1. \A e \in Endpoints, j \in Jobs : t = Router(e) => ~Holds(e, j)'
    BY <1>1 DEF Holds
  <2> QED  BY <1>1, <2>1, HoldsOwn
<1>7. Tokens'
  <2>1. \A k \in Jobs : ~Carries(m, k)
    BY DEF Carries
  <2> QED  BY <1>0, <1>6, <2>1, TokenSent
<1>8. Truthful'
  <2>1. \A k \in Jobs : Claims(m, k) => Over(k)
    BY <1>0 DEF Claims, Truthful
  <2>2. \A u \in Threads, k \in Jobs : Claims(th'[u], k) => Claims(th[u], k)
    BY <1>1 DEF OthersStay, Claims
  <2> QED  BY <1>0, <2>1, <2>2, OverSame, SentTruthful, TruthStays
<1>9. JobTypeOK'
  <2>1. inbox' \in [Endpoints -> Seq(Message)]
    BY <1>0, Sent
  <2> QED  BY <1>0, <1>1, <2>1 DEF JobTypeOK
<1> QED  BY <1>5, <1>7, <1>8, <1>9 DEF JobInv

LEMMA SendReportStep ==
  ASSUME JobInv, NEW t \in Threads, SendReport(t)
  PROVE  JobInv'
<1> DEFINE n == th[t].tries + 1
           h == [th[t] EXCEPT !.to = Leader, !.answer = None, !.tries = n]
           m == [op |-> "sync", job |-> th[t].job, from |-> t, val |-> th[t].val]
<1>0. /\ JobTypeOK /\ Calls /\ th[t] \in ThreadState /\ th[t] \in PushCall /\ th[t].op = "report"
      /\ th[t].to = Nobody /\ Leader \in Endpoints
  BY ThreadIs, ThreadKinds, JobServiceAssumption DEF JobInv, SendReport
<1>1. n \in Nat /\ th[t].job \in Jobs /\ th[t].val \in Results \ {None}
  BY <1>0 DEF PushCall
<1>2. th' = [th EXCEPT ![t] = h]
  BY <1>0 DEF SendReport, JobTypeOK
<1>3. m \in Message /\ m.op = "sync" /\ m.job = th[t].job /\ m.val = th[t].val /\ m.from = t /\ Send(Leader, m)
  BY <1>1 DEF Message, Callers, SendReport
<1> HIDE DEF n, m
<1>4. /\ h \in ThreadState /\ h.op = th[t].op /\ h.caller = th[t].caller /\ h.left = th[t].left
      /\ h.job = th[t].job /\ h.val = th[t].val /\ h.to = Leader /\ h.answer = None
  <2>1. Goes(h, th[t], Leader)
    BY <1>1 DEF Goes
  <2> HIDE DEF h
  <2> QED  BY <1>0, <2>1, PushGoes
<1> HIDE DEF h
<1>5. \A e \in Endpoints : t = Router(e) => Leader # e
  BY <1>0 DEF Calls, SlotsAreAskedFor, RouterFine
<1>6. UNCHANGED <<results, active, identity, running, runs, hash, late, lost>>
  BY DEF SendReport
<1> QED  BY <1>0, <1>2, <1>3, <1>4, <1>5, <1>6, PushCalls

LEMMA FanOutStep ==
  ASSUME JobInv, NEW t \in Threads, NEW p \in Endpoints, FanOut(t, p)
  PROVE  JobInv'
<1> DEFINE n == th[t].tries + 1
           h == [th[t] EXCEPT !.to = p, !.answer = None, !.tries = n]
           g == IF th[t].op = "verify" THEN th[t].hash ELSE th[t].val
           m == [op |-> "replicate", job |-> th[t].job, from |-> t, val |-> th[t].val, hash |-> g]
<1>0. /\ JobTypeOK /\ Calls /\ th[t] \in ThreadState /\ th[t].op \in {"sync", "verify"}
      /\ th[t].to = Nobody /\ p \in th[t].left
  BY ThreadIs DEF JobInv, FanOut, Fanning
<1>1. n \in Nat /\ th[t].job \in Jobs /\ th[t].val \in Results \ {None} /\ g \in Results
  <2>1. CASE th[t].op = "sync"
    BY <1>0, <2>1, ThreadKinds DEF PushCall
  <2>2. CASE th[t].op = "verify"
    BY <1>0, <2>2, ThreadKinds DEF VerifyCall
  <2> QED  BY <1>0, <2>1, <2>2
<1>2. th' = [th EXCEPT ![t] = h]
  BY <1>0 DEF FanOut, JobTypeOK
<1>3. Send(p, m)
  BY DEF FanOut
<1> HIDE DEF g
<1>4. m \in Message /\ m.op = "replicate" /\ m.job = th[t].job /\ m.val = th[t].val /\ m.from = t
  BY <1>1 DEF Message, Callers
<1> HIDE DEF n, m
<1>5. /\ h \in ThreadState /\ h.op = th[t].op /\ h.caller = th[t].caller /\ h.left = th[t].left
      /\ h.job = th[t].job /\ h.val = th[t].val /\ h.to = p /\ h.answer = None
  <2>1. Goes(h, th[t], p)
    BY <1>1 DEF Goes
  <2> HIDE DEF h
  <2> QED  BY <1>0, <2>1, PushGoes
<1> HIDE DEF h
<1>6. \A e \in Endpoints : t = Router(e) => p # e
  BY <1>0 DEF Calls, SlotsAreAskedFor, RouterFine
<1>7. UNCHANGED <<results, active, identity, running, runs, hash, late, lost>>
  BY DEF FanOut
<1> QED  BY <1>0, <1>2, <1>3, <1>4, <1>5, <1>6, <1>7, PushCalls

LEMMA ReportEndsStep ==
  ASSUME JobInv, NEW t \in Threads, ReportEnds(t)
  PROVE  JobInv'
<1> DEFINE b == [th[t] EXCEPT !.to = Nobody]
<1>0. /\ JobTypeOK /\ th[t] \in ThreadState /\ th[t].op = "report" /\ ~Waiting(t) /\ th[t].job \in Jobs
  BY ThreadIs, ThreadKinds DEF JobInv, ReportEnds, Answered, Waiting
<1>1. th' = [th EXCEPT ![t] = Idle] \/ th' = [th EXCEPT ![t] = b]
  BY <1>0 DEF ReportEnds, JobTypeOK
<1>2. /\ b \in ThreadState /\ b.op = th[t].op /\ b.caller = th[t].caller /\ b.left = th[t].left
      /\ b.job = th[t].job /\ b.val = th[t].val /\ b.to = Nobody /\ b.answer = th[t].answer
  BY <1>0, PushBack
<1>3. Idle \in ThreadState
  BY DEF ThreadState
<1>4. lost' \subseteq Jobs
  BY <1>0 DEF ReportEnds, JobTypeOK
<1>5. UNCHANGED <<results, active, identity, running, runs, inbox, hash, late>>
  BY DEF ReportEnds
<1>6. /\ results' \in [Endpoints -> [Jobs -> Results]] /\ hash' \in [Endpoints -> [Jobs -> Results]]
      /\ late' \subseteq Jobs /\ \A j \in Jobs : Known(j) => Known(j)'
  BY <1>0, <1>5 DEF JobTypeOK, Known
<1> HIDE DEF b
<1> QED  BY <1>0, <1>1, <1>2, <1>3, <1>4, <1>5, <1>6, PushMoves

LEMMA FanOutEndsStep ==
  ASSUME JobInv, NEW t \in Threads, FanOutEnds(t)
  PROVE  JobInv'
<1> DEFINE l == th[t].left \ {th[t].to}
           b == [th[t] EXCEPT !.to = Nobody]
           g == [th[t] EXCEPT !.to = Nobody, !.left = l, !.tries = 0]
<1>0. /\ JobTypeOK /\ th[t] \in ThreadState /\ th[t].op \in {"sync", "verify"} /\ ~Waiting(t) /\ th[t].job \in Jobs
  BY ThreadIs, ThreadKinds DEF JobInv, FanOutEnds, Fanning, Answered, Waiting
<1>1. th' = [th EXCEPT ![t] = g] \/ th' = [th EXCEPT ![t] = b]
  BY <1>0 DEF FanOutEnds, JobTypeOK
<1>2. /\ b \in ThreadState /\ b.op = th[t].op /\ b.caller = th[t].caller /\ b.left = th[t].left
      /\ b.job = th[t].job /\ b.val = th[t].val /\ b.to = Nobody /\ b.answer = th[t].answer
  BY <1>0, PushBack
<1>3. l \subseteq th[t].left /\ l \in SUBSET Endpoints
  <2>1. th[t].left \subseteq Endpoints
    BY <1>0, ThreadKinds DEF PushCall, VerifyCall
  <2> QED  BY <2>1
<1> HIDE DEF l
<1>4. /\ g \in ThreadState /\ g.op = th[t].op /\ g.caller = th[t].caller /\ g.left = l
      /\ g.job = th[t].job /\ g.val = th[t].val /\ g.to = Nobody /\ g.answer = th[t].answer
  BY <1>0, <1>3, PushServed
<1>5. lost' \subseteq Jobs
  BY <1>0 DEF FanOutEnds, JobTypeOK
<1>6. UNCHANGED <<results, active, identity, running, runs, inbox, hash, late>>
  BY DEF FanOutEnds
<1>7. /\ results' \in [Endpoints -> [Jobs -> Results]] /\ hash' \in [Endpoints -> [Jobs -> Results]]
      /\ late' \subseteq Jobs /\ \A j \in Jobs : Known(j) => Known(j)'
  BY <1>0, <1>6 DEF JobTypeOK, Known
<1> HIDE DEF b, g
<1>8. CASE th' = [th EXCEPT ![t] = g]
  BY <1>0, <1>3, <1>4, <1>5, <1>6, <1>7, <1>8, PushMoves
<1>9. CASE th' = [th EXCEPT ![t] = b]
  BY <1>0, <1>2, <1>5, <1>6, <1>7, <1>9, PushMoves
<1> QED  BY <1>1, <1>8, <1>9

LEMMA SyncPutStep ==
  ASSUME JobInv, NEW t \in Threads, SyncPut(t)
  PROVE  JobInv'
<1> DEFINE h == [th[t] EXCEPT !.stage = "mark"]
<1>0. /\ JobTypeOK /\ Truthful /\ th[t] \in ThreadState /\ th[t].op = "sync" /\ Leader \in Endpoints
  BY ThreadIs, JobServiceAssumption DEF JobInv, SyncPut
<1>1. th[t].job \in Jobs /\ th[t].val \in Results \ {None}
  BY <1>0, ThreadKinds DEF PushCall
<1>2. th' = [th EXCEPT ![t] = h]
  BY <1>0 DEF SyncPut, JobTypeOK
<1>3. /\ h \in ThreadState /\ h.op = "sync" /\ h.caller = th[t].caller /\ h.left = th[t].left
      /\ h.job = th[t].job /\ h.val = th[t].val /\ h.to = th[t].to /\ h.answer = th[t].answer
  BY <1>0, SyncMoves
<1> HIDE DEF h
<1>4. UNCHANGED <<active, identity, running, runs, inbox, hash, late, lost>>
  BY DEF SyncPut
<1>5. hash' \in [Endpoints -> [Jobs -> Results]] /\ late' \subseteq Jobs /\ lost' \subseteq Jobs
  BY <1>0, <1>4 DEF JobTypeOK
<1>6. PICK j \in Jobs, v \in Results : j = th[t].job /\ v = th[t].val /\ v # None
  BY <1>1
<1>7. results' = [results EXCEPT ![Leader][j] = v]
  BY <1>6 DEF SyncPut
<1>8. results' \in [Endpoints -> [Jobs -> Results]] /\ \A k \in Jobs : Known(k) => Known(k)'
  BY <1>0, <1>6, <1>7, Stays
<1>9. \A e \in Endpoints, k \in Jobs : results'[e][k] \in {"done", "rival"} =>
        results[e][k] \in {"done", "rival"} \/ Over(k)
  <2>1. v \in {"done", "rival"} => Over(j)
    BY <1>0, <1>6 DEF Truthful, Claims
  <2>2. \A e \in Endpoints, k \in Jobs : results'[e][k] = IF e = Leader /\ k = j THEN v ELSE results[e][k]
    BY <1>0, <1>7 DEF JobTypeOK
  <2> QED  BY <2>1, <2>2
<1> QED  BY <1>0, <1>2, <1>3, <1>4, <1>5, <1>8, <1>9, PushMoves

LEMMA SyncMarkStep ==
  ASSUME JobInv, NEW t \in Threads, SyncMark(t)
  PROVE  JobInv'
<1> DEFINE h == [th[t] EXCEPT !.stage = "fanout"]
<1>0. /\ JobTypeOK /\ th[t] \in ThreadState /\ th[t].op = "sync" /\ Leader \in Endpoints
  BY ThreadIs, JobServiceAssumption DEF JobInv, SyncMark
<1>1. th[t].job \in Jobs /\ th[t].val \in Results
  BY <1>0, ThreadKinds DEF PushCall
<1>2. th' = [th EXCEPT ![t] = h]
  BY <1>0 DEF SyncMark, JobTypeOK
<1>3. /\ h \in ThreadState /\ h.op = "sync" /\ h.caller = th[t].caller /\ h.left = th[t].left
      /\ h.job = th[t].job /\ h.val = th[t].val /\ h.to = th[t].to /\ h.answer = th[t].answer
  BY <1>0, SyncMoves
<1> HIDE DEF h
<1>4. UNCHANGED <<results, active, identity, running, runs, inbox, late, lost>>
  BY DEF SyncMark
<1>5. hash' \in [Endpoints -> [Jobs -> Results]]
  BY <1>0, <1>1 DEF SyncMark, JobTypeOK
<1>6. /\ results' \in [Endpoints -> [Jobs -> Results]]
      /\ late' \subseteq Jobs /\ lost' \subseteq Jobs /\ \A k \in Jobs : Known(k) => Known(k)'
  BY <1>0, <1>4 DEF JobTypeOK, Known
<1> QED  BY <1>0, <1>2, <1>3, <1>4, <1>5, <1>6, PushMoves

\* The thread that reports a finished job.
LEMMA ReportIs ==
  ASSUME NEW e \in Endpoints, NEW j \in Jobs, NEW v \in Results \ {None}, NEW h, h = Report(e, j, v)
  PROVE  /\ h \in ThreadState /\ h.op = (IF e = Leader THEN "sync" ELSE "report") /\ h.caller = Nobody
         /\ h.job = j /\ h.val = v /\ h.left = Peers(e) /\ h.to = Nobody /\ h.answer = None
<1>1. Peers(e) \in SUBSET Endpoints
  BY DEF Peers
<1>2. h \in PushCall
  BY <1>1 DEF PushCall, Report, Callers, Answers
<1> QED  BY <1>2 DEF ThreadState, Report

\* A job that has been run is reported, once or once more.
LEMMA ReportedStep ==
  ASSUME JobInv, NEW e \in Endpoints, NEW j \in Jobs, NEW v \in {"done", "rival"}, runs[e][j] # 0,
         Record(e, j, v), th' = [th EXCEPT ![Reporter(e, j)] = Report(e, j, v)],
         j \notin running'[e], running' \in [Endpoints -> SUBSET Jobs],
         \A x \in Endpoints, k \in Jobs : x # e \/ k # j => (k \in running'[x] <=> k \in running[x]),
         UNCHANGED <<runs, inbox, hash, late, lost>>
  PROVE  JobInv'
<1> DEFINE t == Reporter(e, j)
           h == Report(e, j, v)
<1>0. /\ JobTypeOK /\ Calls /\ Tokens /\ Truthful /\ t \in Threads /\ \A x \in Endpoints : t # Router(x)
  BY Routers DEF JobInv
<1>1. v \in Results \ {None} /\ v \in Results /\ v # None
  BY DEF Results, Final, None
<1>2. h \in ThreadState /\ h.caller = Nobody /\ h.job = j
  BY <1>1, ReportIs
<1>3. th' = [th EXCEPT ![t] = h]
  OBVIOUS
<1> HIDE DEF h, t
<1>4. th' \in [Threads -> ThreadState] /\ th'[t] = h /\ OthersStay(t)
  BY <1>0, <1>2, <1>3, ThreadSet
<1>5. Calls'
  <2>1. \A x \in Endpoints : ~Serves(t, Router(x))'
    BY <1>2, <1>4, Routers DEF Serves
  <2> QED  BY <1>0, <1>4, <2>1, OwnStep
<1>6. results' \in [Endpoints -> [Jobs -> Results]] /\ \A k \in Jobs : Known(k) => Known(k)'
  BY <1>0, <1>1, Stays DEF Record
<1>7. \A x \in Endpoints, k \in Jobs : Holds(x, k)' => Holds(x, k)
  BY <1>0, <1>4, HoldsOwn
<1>8. Tokens'
  BY <1>0, <1>6, <1>7, TokenReported DEF Record
<1>9. JobTypeOK'
  <2>1. active' \in [Endpoints -> SUBSET Jobs] /\ identity' \in [Endpoints -> SUBSET Jobs]
    BY <1>0 DEF Record, JobTypeOK
  <2> QED  BY <1>0, <1>4, <1>6, <2>1 DEF JobTypeOK
<1>10. Over(j)'
  <2>1. \A x \in Endpoints : j \in running[x] => x = e
    <3> SUFFICES ASSUME NEW x \in Endpoints, j \in running[x]  PROVE x = e
      OBVIOUS
    <3>1. runs[x][j] # 0
      BY <1>0 DEF Tokens, ActiveInv
    <3>2. runs[x][j] \in Nat /\ runs[e][j] \in Nat /\ runs[x][j] <= 1 /\ runs[e][j] <= 1
      BY <1>0 DEF JobTypeOK, Tokens, RunsOnce
    <3>3. runs[x][j] = 1 /\ runs[e][j] = 1
      BY <3>1, <3>2
    <3> QED  BY <1>0, <3>3 DEF Tokens, RunsOnce
  <2> QED  BY <2>1 DEF Over
<1>11. \A k \in Jobs : Over(k) => Over(k)'
  BY <1>10 DEF Over
<1>12. Truthful'
  <2>1. \A x \in Endpoints, k \in Jobs : results'[x][k] = IF x = e /\ k = j THEN v ELSE results[x][k]
    BY <1>0 DEF Record, JobTypeOK
  <2>2. \A x \in Endpoints, k \in Jobs : results'[x][k] \in {"done", "rival"} =>
          results[x][k] \in {"done", "rival"} \/ Over(k)'
    BY <1>10, <2>1
  <2>3. \A u \in Threads, k \in Jobs : Claims(th'[u], k) => Claims(th[u], k) \/ Over(k)'
    BY <1>0, <1>2, <1>4, <1>10, ClaimsOwn DEF Claims
  <2>4. \A x \in Endpoints, k \in Jobs : \A i \in DOMAIN inbox'[x] : Claims(inbox'[x][i], k) => Over(k)'
    BY <1>0, <1>11 DEF Truthful
  <2> QED  BY <1>0, <1>11, <2>2, <2>3, <2>4, TruthStays
<1> QED  BY <1>5, <1>8, <1>9, <1>12 DEF JobInv

LEMMA CompleteStep ==
  ASSUME JobInv, NEW e \in Endpoints, NEW j \in Jobs, Complete(e, j)
  PROVE  JobInv'
<1>1. JobTypeOK /\ runs[e][j] # 0
  BY DEF JobInv, Tokens, ActiveInv, Complete
<1>2. \A x \in Endpoints : running'[x] = IF x = e THEN running[x] \ {j} ELSE running[x]
  BY <1>1 DEF Complete, JobTypeOK
<1>3. /\ running' \in [Endpoints -> SUBSET Jobs] /\ j \notin running'[e]
      /\ \A x \in Endpoints, k \in Jobs : x # e \/ k # j => (k \in running'[x] <=> k \in running[x])
  BY <1>1, <1>2 DEF Complete, JobTypeOK
<1> QED  BY <1>1, <1>3, ReportedStep DEF Complete

LEMMA CompleteAgainStep ==
  ASSUME JobInv, NEW e \in Endpoints, NEW j \in Jobs, CompleteAgain(e, j)
  PROVE  JobInv'
<1>1. JobTypeOK /\ runs[e][j] \in Nat /\ runs[e][j] > 0
  BY DEF JobInv, JobTypeOK, CompleteAgain
<1>2. Over(j)
  BY DEF JobInv, Truthful, CompleteAgain
<1>3. /\ running' \in [Endpoints -> SUBSET Jobs] /\ j \notin running'[e] /\ runs[e][j] # 0
      /\ \A x \in Endpoints, k \in Jobs : k \in running'[x] <=> k \in running[x]
  BY <1>1, <1>2 DEF CompleteAgain, JobTypeOK, Over
<1> QED  BY <1>3, ReportedStep DEF CompleteAgain

LEMMA VerifyStep ==
  ASSUME JobInv, Verify
  PROVE  JobInv'
<1> DEFINE j == Head(sweeper.targets)
           v == Stored(Leader, j)
           g == IF hash[Leader][j] = None THEN v ELSE hash[Leader][j]
           r == [op |-> "verify", job |-> j, val |-> v, caller |-> Nobody, stage |-> "fanout", hash |-> g,
                 to |-> Nobody, answer |-> None, left |-> Peers(Leader), tries |-> 0]
           h == IF v = None THEN Idle ELSE r
<1>0. /\ JobTypeOK /\ Calls /\ Truthful /\ Leader \in Endpoints /\ th[Sweep] = Idle
      /\ Sweep \in Threads /\ \A x \in Endpoints : Sweep # Router(x)
  BY Routers, JobServiceAssumption DEF JobInv, Verify
<1>1. th' = [th EXCEPT ![Sweep] = h]
  BY DEF Verify
<1>2. v # None => j \in Jobs /\ v = results[Leader][j] /\ v \in Results /\ g \in Results
  BY <1>0 DEF Stored, JobTypeOK
<1>3. Peers(Leader) \in SUBSET Endpoints
  BY DEF Peers
<1> HIDE DEF j, v, g
<1>4. v # None => r \in ThreadState /\ r.op = "verify" /\ r.caller = Nobody /\ r.job = j /\ r.val = v
  BY <1>2, <1>3 DEF ThreadState, VerifyCall, Answers
<1> HIDE DEF r
<1>5. h \in ThreadState /\ h.op \notin {"submit", "sync"} /\ \A k \in Jobs : Claims(h, k) => Over(k)
  <2>1. CASE v = None
    BY <2>1 DEF ThreadState, Idle, Claims
  <2>2. CASE v # None
    BY <1>0, <1>2, <1>4, <2>2 DEF Claims, Truthful
  <2> QED  BY <2>1, <2>2
<1> HIDE DEF h
<1>6. th' \in [Threads -> ThreadState] /\ th'[Sweep] = h /\ OthersStay(Sweep)
  BY <1>0, <1>1, <1>5, ThreadSet
<1>7. UNCHANGED <<results, active, identity, running, runs, inbox, hash, late, lost>>
  BY DEF Verify
<1>8. Calls'
  <2>1. \A x \in Endpoints : ~Serves(Sweep, Router(x))'
    BY <1>5, <1>6 DEF Serves
  <2> QED  BY <1>0, <1>6, <1>7, <2>1, OwnStep
<1>9. \A x \in Endpoints, k \in Jobs : Holds(x, k)' => Holds(x, k)
  BY <1>0, <1>6, HoldsOwn
<1>10. \A u \in Threads, k \in Jobs : Claims(th'[u], k) => Claims(th[u], k) \/ Over(k)
  BY <1>5, <1>6 DEF OthersStay
<1>11. PICK at : Origin(at)
  BY <1>7, InboxSame
<1>12. /\ inbox' \in [Endpoints -> Seq(Message)]
       /\ results' \in [Endpoints -> [Jobs -> Results]] /\ hash' \in [Endpoints -> [Jobs -> Results]]
       /\ identity' \in [Endpoints -> SUBSET Jobs] /\ late' \subseteq Jobs /\ lost' \subseteq Jobs
       /\ \A k \in Jobs : Known(k) => Known(k)'
  BY <1>0, <1>7 DEF JobTypeOK, Known
<1> QED  BY <1>6, <1>7, <1>8, <1>9, <1>10, <1>11, <1>12, QuietStep

\* A router answers a command at once.
LEMMA AnsweredStep ==
  ASSUME JobInv, NEW y \in Endpoints, inbox[y] # <<>>, Drop(y), NEW a \in Answers,
         a \notin {"ok", "err"} => inbox[y][1].op = "slot",
         th' = WithAnswer(th, inbox[y][1].from, a),
         UNCHANGED <<active, identity, running, runs, late, lost>>,
         results' \in [Endpoints -> [Jobs -> Results]], hash' \in [Endpoints -> [Jobs -> Results]],
         \A j \in Jobs : Known(j) => Known(j)',
         \A e \in Endpoints, j \in Jobs : results'[e][j] \in {"done", "rival"} =>
           results[e][j] \in {"done", "rival"} \/ Over(j)
  PROVE  JobInv'
<1>0. JobTypeOK /\ Calls /\ th \in [Threads -> ThreadState]
  BY DEF JobInv, JobTypeOK
<1>1. PICK c : c = inbox[y][1].from
  OBVIOUS
<1>2. th' = WithAnswer(th, c, a)
  BY <1>1
<1>3. /\ th' \in [Threads -> ThreadState]
      /\ \A u \in Threads : /\ SameCall(th'[u], th[u])
                            /\ u # c \/ c = Nobody => th'[u] = th[u]
                            /\ u = c /\ c # Nobody /\ th[u].op # "idle" => th'[u].answer = a
  BY <1>0, <1>2, AnswerShape
<1>4. Calls'
  BY <1>0, <1>1, <1>3, CommandAnswered
<1>5. \A e \in Endpoints, j \in Jobs : Holds(e, j)' => Holds(e, j)
  BY <1>0, <1>3, AnswerQuiet, Routers
<1>6. \A u \in Threads, j \in Jobs : Claims(th'[u], j) => Claims(th[u], j)
  BY <1>0, <1>3, AnswerQuiet
<1>7. inbox' \in [Endpoints -> Seq(Message)] /\ \E at : Origin(at)
  BY <1>0, Dropped
<1>8. PICK at : Origin(at)
  BY <1>7
<1>9. identity' \in [Endpoints -> SUBSET Jobs] /\ late' \subseteq Jobs /\ lost' \subseteq Jobs
  BY <1>0 DEF JobTypeOK
<1> QED  BY <1>3, <1>4, <1>5, <1>6, <1>7, <1>8, <1>9, QuietStep

LEMMA ReceiveSlotStep ==
  ASSUME JobInv, NEW e \in Endpoints, ReceiveSlot(e)
  PROVE  JobInv'
<1>0. JobTypeOK /\ inbox[e] # <<>> /\ Drop(e) /\ Head(inbox[e]).op = "slot"
  BY DEF JobInv, ReceiveSlot, Take
<1>1. Head(inbox[e]) = inbox[e][1]
  BY <1>0, Dropped
<1>2. PICK a \in {"granted", "place", "err"} : th' = WithAnswer(th, Head(inbox[e]).from, a)
  BY DEF ReceiveSlot
<1>3. th' = WithAnswer(th, inbox[e][1].from, a) /\ a \in Answers /\ inbox[e][1].op = "slot"
  BY <1>0, <1>1, <1>2 DEF Answers
<1>4. UNCHANGED <<results, active, identity, running, runs, hash, late, lost>>
  BY DEF ReceiveSlot
<1>5. /\ results' \in [Endpoints -> [Jobs -> Results]] /\ hash' \in [Endpoints -> [Jobs -> Results]]
      /\ \A k \in Jobs : Known(k) => Known(k)'
  BY <1>0, <1>4 DEF JobTypeOK, Known
<1> QED  BY <1>0, <1>3, <1>4, <1>5, AnsweredStep

LEMMA ReceiveReplicateStep ==
  ASSUME JobInv, NEW e \in Endpoints, ReceiveReplicate(e)
  PROVE  JobInv'
<1> DEFINE m == inbox[e][1]
<1>0. JobTypeOK /\ Truthful /\ inbox[e] # <<>> /\ Drop(e) /\ Head(inbox[e]).op = "replicate"
  BY DEF JobInv, ReceiveReplicate, Take
<1>1. Head(inbox[e]) = m /\ 1 \in DOMAIN inbox[e] /\ m \in Message
  BY <1>0, Dropped
<1>2. m.op = "replicate" /\ m.job \in Jobs /\ m.val \in Results \ {None} /\ {"ok", "err"} \subseteq Answers
  BY <1>0, <1>1, MessageIs DEF Answers
<1>3. UNCHANGED <<active, identity, running, runs, late, lost>>
  BY DEF ReceiveReplicate
<1>4. CASE m.hash = m.val
  <2>1. th' = WithAnswer(th, m.from, "ok")
    BY <1>1, <1>4 DEF ReceiveReplicate
  <2>2. PICK j \in Jobs, v \in Results : j = m.job /\ v = m.val /\ v # None
    BY <1>2
  <2>3. results' = [results EXCEPT ![e][j] = v] /\ hash' = [hash EXCEPT ![e][j] = v]
    BY <1>1, <1>4, <2>2 DEF ReceiveReplicate
  <2>4. results' \in [Endpoints -> [Jobs -> Results]] /\ \A k \in Jobs : Known(k) => Known(k)'
    BY <1>0, <2>2, <2>3, Stays
  <2>5. hash' \in [Endpoints -> [Jobs -> Results]]
    BY <1>0, <2>3 DEF JobTypeOK
  <2>6. v \in {"done", "rival"} => Over(j)
    BY <1>0, <1>1, <1>2, <2>2 DEF Truthful, Claims
  <2>7. \A x \in Endpoints, k \in Jobs : results'[x][k] = IF x = e /\ k = j THEN v ELSE results[x][k]
    BY <1>0, <2>3 DEF JobTypeOK
  <2>8. \A x \in Endpoints, k \in Jobs : results'[x][k] \in {"done", "rival"} =>
          results[x][k] \in {"done", "rival"} \/ Over(k)
    BY <2>6, <2>7
  <2> QED  BY <1>0, <1>2, <1>3, <2>1, <2>4, <2>5, <2>8, AnsweredStep
<1>5. CASE m.hash # m.val
  <2>1. th' = WithAnswer(th, m.from, "err") /\ UNCHANGED <<results, hash>>
    BY <1>1, <1>5 DEF ReceiveReplicate
  <2>2. /\ results' \in [Endpoints -> [Jobs -> Results]] /\ hash' \in [Endpoints -> [Jobs -> Results]]
        /\ \A k \in Jobs : Known(k) => Known(k)'
    BY <1>0, <2>1 DEF JobTypeOK, Known
  <2> QED  BY <1>0, <1>2, <1>3, <2>1, <2>2, AnsweredStep
<1> QED  BY <1>4, <1>5

LEMMA ReceiveSyncStep ==
  ASSUME JobInv, NEW e \in Endpoints, ReceiveSync(e)
  PROVE  JobInv'
<1> DEFINE t == Router(e)
           m == inbox[e][1]
           r == Report(e, m.job, m.val)
           h == [r EXCEPT !.caller = m.from]
<1>0. /\ JobTypeOK /\ Calls /\ Truthful /\ t \in Threads /\ th[t] = Idle
      /\ inbox[e] # <<>> /\ Drop(e) /\ Head(inbox[e]).op = "sync"
  BY Routers DEF JobInv, ReceiveSync, Take
<1>1. /\ Head(inbox[e]) = m /\ 1 \in DOMAIN inbox[e] /\ m \in Message /\ inbox' \in [Endpoints -> Seq(Message)]
      /\ \E at : Origin(at)
  BY <1>0, Dropped
<1>2. m.op = "sync" /\ m.job \in Jobs /\ m.val \in Results \ {None} /\ m.from \in Callers
  BY <1>0, <1>1, MessageIs
<1>3. th' = [th EXCEPT ![t] = h]
  BY <1>1 DEF ReceiveSync
<1>4. /\ r \in ThreadState /\ r.op = (IF e = Leader THEN "sync" ELSE "report")
      /\ r.job = m.job /\ r.val = m.val /\ r.left = Peers(e) /\ r.to = Nobody /\ r.answer = None
  BY <1>2, ReportIs
<1> HIDE DEF r
<1>5. r \in PushCall
  BY <1>4, ThreadKinds
<1>6. /\ h \in ThreadState /\ h.op = r.op /\ h.caller = m.from /\ h.job = r.job /\ h.val = r.val
      /\ h.left = r.left /\ h.to = r.to /\ h.answer = r.answer
  BY <1>2, <1>5 DEF ThreadState, PushCall
<1> HIDE DEF h
<1>7. th' \in [Threads -> ThreadState] /\ th'[t] = h /\ OthersStay(t)
  BY <1>0, <1>3, <1>6, ThreadSet
<1>8. RouterFine(e)'
  <2>1. e \notin Peers(e)
    BY DEF Peers
  <2> QED  BY <1>4, <1>6, <1>7, <2>1, NamesApart DEF RouterFine, None
<1>9. Calls'
  BY <1>0, <1>6, <1>7, <1>8, CommandTaken
<1>10. \A x \in Endpoints, k \in Jobs : Holds(x, k)' => Holds(x, k)
  <2>1. \A k \in Jobs : ~Holds(e, k)'
    BY <1>4, <1>6, <1>7 DEF Holds
  <2> QED  BY <1>0, <1>7, <2>1, HoldsOwn, Routers
<1>11. \A u \in Threads, k \in Jobs : Claims(th'[u], k) => Claims(th[u], k) \/ Over(k)
  <2>1. \A k \in Jobs : Claims(h, k) => Claims(m, k)
    BY <1>2, <1>4, <1>6 DEF Claims
  <2>2. \A k \in Jobs : Claims(m, k) => Over(k)
    BY <1>0, <1>1 DEF Truthful
  <2> QED  BY <1>7, <2>1, <2>2 DEF OthersStay
<1>12. UNCHANGED <<results, active, identity, running, runs, hash, late, lost>>
  BY DEF ReceiveSync
<1>13. /\ results' \in [Endpoints -> [Jobs -> Results]] /\ hash' \in [Endpoints -> [Jobs -> Results]]
       /\ identity' \in [Endpoints -> SUBSET Jobs] /\ late' \subseteq Jobs /\ lost' \subseteq Jobs
       /\ \A k \in Jobs : Known(k) => Known(k)'
  BY <1>0, <1>12 DEF JobTypeOK, Known
<1>14. PICK at : Origin(at)
  BY <1>1
<1> QED  BY <1>1, <1>7, <1>9, <1>10, <1>11, <1>12, <1>13, <1>14, QuietStep

LEMMA TimesOutStep ==
  ASSUME JobInv, NEW t \in Threads, TimesOut(t)
  PROVE  JobInv'
<1> DEFINE at == [x \in Endpoints |-> [i \in DOMAIN inbox[x] |-> i]]
<1>0. JobTypeOK /\ Calls /\ th[t] \in ThreadState /\ th[t].op # "idle"
  BY ThreadIs DEF JobInv, TimesOut, Waiting
<1>1. /\ th' \in [Threads -> ThreadState] /\ inbox' \in [Endpoints -> Seq(Message)]
      /\ SameCall(th'[t], th[t])
      /\ \A u \in Threads : u # t =>
           \/ th'[u] = th[u]
           \/ /\ th[u].op \in {"submit", "sync"} /\ th'[u].op = th[u].op
              /\ th'[u].job = th[u].job /\ th'[u].stage = th[u].stage
              /\ th[u].op = "sync" => th'[u].val = th[u].val
  BY <1>0, TimesOutShape DEF Serves
<1>2. Origin(at)
  BY <1>0, TimesOutShape DEF Origin
<1>3. Calls'
  BY <1>0, GivesUp
<1>4. \A e \in Endpoints, j \in Jobs : Holds(e, j)' => Holds(e, j)
  <2> SUFFICES ASSUME NEW e \in Endpoints, NEW j \in Jobs, Holds(e, j)'  PROVE Holds(e, j)
    OBVIOUS
  <2>1. CASE t = Router(e)
    BY <1>0, <1>1, <2>1, AnswerQuiet
  <2>2. CASE t # Router(e)
    BY <1>1, <2>2, Routers DEF Holds
  <2> QED  BY <2>1, <2>2
<1>5. \A u \in Threads, j \in Jobs : Claims(th'[u], j) => Claims(th[u], j)
  <2> SUFFICES ASSUME NEW u \in Threads, NEW j \in Jobs, Claims(th'[u], j)  PROVE Claims(th[u], j)
    OBVIOUS
  <2>1. CASE u = t
    BY <1>0, <1>1, <2>1, AnswerQuiet
  <2>2. CASE u # t
    BY <1>1, <2>2 DEF Claims
  <2> QED  BY <2>1, <2>2
<1>6. UNCHANGED <<results, active, identity, running, runs, hash, lost>>
  BY DEF TimesOut
<1>7. /\ results' \in [Endpoints -> [Jobs -> Results]] /\ hash' \in [Endpoints -> [Jobs -> Results]]
      /\ identity' \in [Endpoints -> SUBSET Jobs] /\ lost' \subseteq Jobs
      /\ \A k \in Jobs : Known(k) => Known(k)'
  BY <1>0, <1>6 DEF JobTypeOK, Known
<1>8. late' \subseteq Jobs
  BY <1>0, ThreadKinds DEF TimesOut, JobTypeOK
<1> HIDE DEF at
<1> QED  BY <1>1, <1>2, <1>3, <1>4, <1>5, <1>6, <1>7, <1>8, QuietStep

\* Nothing but the sweeper's lists, the bounds and whom to push to has changed.
LEMMA SameStep ==
  ASSUME JobInv, UNCHANGED <<results, active, running, runs, inbox, th, hash, late, lost>>,
         identity' \in [Endpoints -> SUBSET Jobs]
  PROVE  JobInv'
<1>0. JobTypeOK /\ Calls /\ Tokens /\ Truthful
  BY DEF JobInv
<1>1. JobTypeOK'
  BY <1>0 DEF JobTypeOK
<1>2. Calls'
  BY <1>0 DEF Calls, OneCall, SlotsAreAskedFor, Waiting, Serves, RouterFine, AsksForSlot
<1>3. PICK at : Origin(at)
  BY InboxSame
<1>4. Tokens'
  BY <1>0, <1>3, TokensQuiet DEF Known, Holds
<1>5. Truthful'
  BY <1>0 DEF Truthful, Claims, Over
<1> QED  BY <1>1, <1>2, <1>4, <1>5 DEF JobInv

LEMMA JobInvInit ==
  ASSUME JobInit
  PROVE  JobInv
<1>0. /\ \A u \in Threads : th[u] = Idle /\ th[u].op = "idle"
      /\ \A x \in Endpoints : inbox[x] = <<>> /\ DOMAIN inbox[x] = {}
  BY DEF JobInit, Idle
<1>1. JobTypeOK
  <2>1. <<>> \in Seq(Message)
    OBVIOUS
  <2> QED  BY <2>1 DEF JobInit, JobTypeOK, Results, None, ThreadState
<1>2. Calls
  <2>1. \A e \in Endpoints : RouterFine(e)
    BY <1>0, Routers DEF RouterFine
  <2> QED  BY <1>0, <2>1 DEF Calls, OneCall, SlotsAreAskedFor, Serves
<1>3. Tokens
  <2>1. \A e \in Endpoints, j \in Jobs : ~Holds(e, j) /\ runs[e][j] = 0
    BY <1>0, Routers DEF Holds, JobInit
  <2>2. \A e \in Endpoints : active[e] = {} /\ running[e] = {}
    BY DEF JobInit
  <2> QED  BY <1>0, <2>1, <2>2 DEF Tokens, KnownFirst, OneToken, ActiveInv, RunsOnce
<1>4. Truthful
  <2>1. \A e \in Endpoints, j \in Jobs : results[e][j] = "none"
    BY DEF JobInit, None
  <2> QED  BY <1>0, <2>1 DEF Truthful, Claims
<1> QED  BY <1>1, <1>2, <1>3, <1>4 DEF JobInv

LEMMA JobInvNext ==
  ASSUME JobInv, [JobNext]_jobVars
  PROVE  JobInv'
<1>0. JobTypeOK
  BY DEF JobInv
<1>1. ASSUME NEW e \in Endpoints, NEW j \in Jobs, Submit(e, j) \/ Complete(e, j) \/ CompleteAgain(e, j)
      PROVE  JobInv'
  BY <1>1, SubmitStep, CompleteStep, CompleteAgainStep
<1>2. ASSUME NEW e \in Endpoints, NEW j \in Jobs, Poll(e, j)
      PROVE  JobInv'
  <2>1. identity' \in [Endpoints -> SUBSET Jobs]
    BY <1>0, <1>2 DEF Poll, JobTypeOK
  <2>2. UNCHANGED <<results, active, running, runs, inbox, th, hash, late, lost>>
    BY <1>2 DEF Poll
  <2> QED  BY <2>1, <2>2, SameStep
<1>3. ASSUME NEW e \in Endpoints, RouterStep(e)
      PROVE  JobInv'
  BY <1>3, RunHereStep, AskLeaderStep, ForwardedStep, InvokeFailsStep, ReplyStep, ForwardToStep,
     ReceiveForwardStep, ReceiveSlotStep, ReceiveSyncStep, ReceiveReplicateStep DEF RouterStep
<1>4. ASSUME NEW t \in Threads, ThreadStep(t)
      PROVE  JobInv'
  BY <1>4, TimesOutStep, SendReportStep, ReportEndsStep, SyncPutStep, SyncMarkStep, FanOutStep,
     FanOutEndsStep, SyncEndsStep DEF ThreadStep
<1>5. CASE Verify
  BY <1>5, VerifyStep
<1>6. CASE SweepStep \/ (\E j \in Jobs : RequestCheck(j)) \/ UNCHANGED jobVars
  <2>1. UNCHANGED <<results, active, running, runs, inbox, th, hash, late, lost, identity>>
    BY <1>6 DEF SweepStep, RequestCheck, jobVars
  <2>2. identity' \in [Endpoints -> SUBSET Jobs]
    BY <1>0, <2>1 DEF JobTypeOK
  <2> QED  BY <2>1, <2>2, SameStep
<1> QED  BY <1>1, <1>2, <1>3, <1>4, <1>5, <1>6 DEF JobNext

-----------------------------------------------------------------------------
(* Theorems *)

\* The inductive invariant: a job is in one place from its submission to its execution
\* (OneToken), a router has one call under way (OneCall), and what stores, threads and
\* commands say of a job is true (Truthful).
THEOREM JobInvariant == JobSpec => []JobInv
<1>1. JobInit => JobInv
  BY JobInvInit
<1>2. JobInv /\ [JobNext]_jobVars => JobInv'
  BY JobInvNext
<1> QED  BY <1>1, <1>2, PTL DEF JobSpec

\* Stores, threads and commands hold what their handlers know.
THEOREM JobTypes == JobSpec => []JobTypeOK
<1>1. JobInv => JobTypeOK
  BY DEF JobInv
<1> QED  BY <1>1, JobInvariant, PTL

\* submit_job and JOB_FORWARD: however many waits are given up, a job runs at most once
\* in the whole mesh.
THEOREM RunsOnceAlways == JobSpec => []RunsOnce
<1>1. JobInv => RunsOnce
  BY DEF JobInv, Tokens
<1> QED  BY <1>1, JobInvariant, PTL

\* App._active_job_ids: nothing runs at an endpoint that takes itself for idle, and what
\* stays active after its submission has not been run there.
THEOREM ActiveIsExplainedAlways == JobSpec => []ActiveIsExplained
<1>1. JobInv => ActiveIsExplained
  BY DEF JobInv, Tokens, ActiveInv, ActiveIsExplained
<1> QED  BY <1>1, JobInvariant, PTL

\* on_complete and the replication of results: an endpoint has a final result of an
\* execution only for a job that has been executed somewhere and runs nowhere any more.
THEOREM DoneIsTrue == JobSpec => []Truthful
<1>1. JobInv => Truthful
  BY DEF JobInv
<1> QED  BY <1>1, JobInvariant, PTL
=============================================================================
