------------------------ MODULE UtmpSession_proofs -------------------------
(***************************************************************************)
(* For any number of processes, slots and pending requests: the sessions   *)
(* use the table as utmpd does, so that its invariants hold among them too; *)
(* a telnet user who is logged in stays listed (OnlineListed); and every   *)
(* entry can be freed once its owner is gone (Reclaimable,                 *)
(* PidZeroUnanswered).  The second needs to know of every request in the   *)
(* backlog, and of every entry a kicker has saved, that it cannot name a   *)
(* session that is still on unless that session was kicked; the third that *)
(* a process is given one entry at most.                                   *)
(***************************************************************************)
EXTENDS UtmpSession, UtmpTable_proofs, SequenceTheorems

Elems(q) == {q[i] : i \in 1..Len(q)}

\* A login asks for its own process and user; a logout names a slot, and if
\* it names a telnet process then one that leaves, is gone or was kicked.
ReqOK(r) ==
  /\ r.cmd = "new" => /\ r.uid \in Uids
                      /\ r.who \in TelnetPids => /\ r.pid = r.who /\ r.uid = UserOf[r.who]
                                                 /\ proc[r.who].st # "off"
                      /\ r.who \in Web => r.pid = 0
  /\ r.cmd = "clr" => /\ r.slot \in Slots
                      /\ r.pid \in TelnetPids =>
                           r.pid \in kicked \/ proc[r.pid].st \in {"leaving", "gone"}

QueueOK == \A r \in Elems(queue) : ReqOK(r)

\* Whoever was told a slot was told one of the table.
SlotsOK ==
  /\ \A t \in TelnetPids : proc[t].st = "on" => proc[t].slot \in Slots
  /\ \A w \in Web : web[w].st \in {"got", "on"} => web[w].slot \in Slots
  /\ client # Nobody => ret \in {NoSlot} \cup Slots
  /\ client \in TelnetPids => proc[client].st # "off"

KickFine(c) ==
  /\ c.pc \in {"kill", "clear"} => c.todo # <<>>
  /\ \A e \in Elems(c.todo) \cup Elems(c.own) : e[2] \in TelnetPids => e[2] \in kicked

KickOK == \A k \in Kickers : KickFine(kick[k])

EntryOf(t, s) ==
  /\ s \in Slots
  /\ uinfo[s] = [active |-> TRUE, uid |-> UserOf[t], pid |-> t]
  /\ holder[s] = t

\* The entry of a session that is on, or about to be told its slot.
Listed ==
  \A t \in TelnetPids \ (kicked \cup clobbered) :
    /\ proc[t].st = "on" => EntryOf(t, proc[t].slot)
    /\ proc[t].st = "entering" /\ client = t /\ ret # NoSlot => EntryOf(t, ret)

SInv == STypeOK /\ QueueOK /\ SlotsOK /\ KickOK /\ Listed

-----------------------------------------------------------------------------
LEMMA ElemsFacts ==
  ASSUME NEW S, NEW q \in Seq(S)
  PROVE  /\ Elems(<<>>) = {}
         /\ Elems(q) \subseteq S
         /\ \A r \in S : /\ Append(q, r) \in Seq(S)
                         /\ Elems(Append(q, r)) = Elems(q) \cup {r}
         /\ q # <<>> => /\ Head(q) \in Elems(q) /\ q[1] = Head(q)
                        /\ Tail(q) \in Seq(S)
                        /\ Elems(Tail(q)) \subseteq Elems(q)
<1>1. Len(q) \in Nat /\ \A i \in 1..Len(q) : q[i] \in S
  BY ElementOfSeq, LenProperties
<1>2. Elems(<<>>) = {}
  BY EmptySeq DEF Elems
<1>3. ASSUME NEW r \in S
      PROVE  Append(q, r) \in Seq(S) /\ Elems(Append(q, r)) = Elems(q) \cup {r}
  <2>1. /\ Append(q, r) \in Seq(S)
        /\ Len(Append(q, r)) = Len(q) + 1
        /\ \A i \in 1..Len(q) : Append(q, r)[i] = q[i]
        /\ Append(q, r)[Len(q) + 1] = r
    BY <1>1
  <2>2. 1..(Len(q) + 1) = (1..Len(q)) \cup {Len(q) + 1}
    BY <1>1
  <2>3. QED BY <2>1, <2>2 DEF Elems
<1>4. ASSUME q # <<>>
      PROVE  /\ Head(q) \in Elems(q) /\ q[1] = Head(q)
             /\ Tail(q) \in Seq(S) /\ Elems(Tail(q)) \subseteq Elems(q)
  <2>1. Len(q) \in Nat \ {0} /\ Head(q) = q[1]
    BY <1>4, EmptySeq
  <2>2. Tail(q) \in Seq(S) /\ Len(Tail(q)) = Len(q) - 1
        /\ \A i \in 1..Len(Tail(q)) : Tail(q)[i] = q[i + 1]
    BY <1>4, HeadTailProperties
  <2>3. QED BY <2>1, <2>2 DEF Elems
<1>5. QED BY <1>1, <1>2, <1>3, <1>4 DEF Elems

LEMMA AppendFacts ==
  ASSUME NEW S, NEW q \in Seq(S), NEW r \in S
  PROVE  Append(q, r) \in Seq(S) /\ Elems(Append(q, r)) = Elems(q) \cup {r}
BY ElemsFacts

LEMMA SInitInv == SInit => SInv
<1> SUFFICES ASSUME SInit PROVE SInv
  OBVIOUS
<1> USE TableAssumption, SessionAssumption
<1>1. NoKick \in Kicks
  BY DEF NoKick, Kicks
<1>2. STypeOK
  BY <1>1 DEF SInit, STypeOK, Procs, Webs, Clients, Requests, Slots
<1>3. QueueOK
  BY ElemsFacts, EmptySeq DEF SInit, QueueOK
<1>4. SlotsOK /\ Listed
  BY DEF SInit, SlotsOK, Listed, Clients
<1>5. KickOK
  BY ElemsFacts, EmptySeq DEF SInit, KickOK, KickFine, NoKick
<1>6. QED BY <1>2, <1>3, <1>4, <1>5 DEF SInv

(***************************************************************************)
(* How a process moves in a step that tells nobody a slot.                 *)
(***************************************************************************)
ProcStep ==
  \A t \in TelnetPids :
    /\ proc[t].st # "off" => proc'[t].st # "off"
    /\ proc[t].st \in {"leaving", "gone"} => proc'[t].st \in {"leaving", "gone"}
    /\ proc'[t].st = "on" => proc'[t] = proc[t]
    /\ proc'[t].st = "entering" => proc[t].st \in {"off", "entering"}

\* The steps of clients and kickers, which leave the table and utmpd alone.
LEMMA Quiet ==
  ASSUME SInv, STypeOK', KickOK', ProcStep,
         uinfo' = uinfo, ret' = ret, holder' = holder, client' = client,
         clobbered' = clobbered, kicked \subseteq kicked',
         \A r \in Elems(queue') : r \in Elems(queue) \/ ReqOK(r)',
         \A w \in Web : web'[w].st \in {"got", "on"} => web'[w].slot \in Slots
  PROVE  SInv'
<1> USE TableAssumption, SessionAssumption
<1>1. QueueOK'
  <2> SUFFICES ASSUME NEW r \in Elems(queue'), r \in Elems(queue) PROVE ReqOK(r)'
    BY DEF QueueOK
  <2>1. ReqOK(r) /\ r \in Requests
    BY ElemsFacts DEF SInv, QueueOK, STypeOK
  <2>2. QED BY <2>1 DEF ReqOK, ProcStep
<1>2. SlotsOK'
  <2>1. \A t \in TelnetPids : proc'[t].st = "on" => proc'[t].slot \in Slots
    BY DEF ProcStep, SInv, SlotsOK
  <2>2. client' \in TelnetPids => proc'[client'].st # "off"
    BY DEF ProcStep, SInv, SlotsOK
  <2>3. QED BY <2>1, <2>2 DEF SInv, SlotsOK, Slots
<1>3. Listed'
  <2> SUFFICES ASSUME NEW t \in TelnetPids \ (kicked' \cup clobbered')
               PROVE  /\ proc'[t].st = "on" => EntryOf(t, proc[t].slot)'
                      /\ proc'[t].st = "entering" /\ client' = t /\ ret' # NoSlot
                           => EntryOf(t, ret)'
    BY DEF Listed
  <2>1. /\ proc[t].st = "on" => EntryOf(t, proc[t].slot)
        /\ proc[t].st = "entering" /\ client = t /\ ret # NoSlot => EntryOf(t, ret)
    BY DEF SInv, Listed
  <2>2. \A s : EntryOf(t, s) => EntryOf(t, s)'
    BY DEF EntryOf
  <2>3. client = t => proc[t].st # "off"
    BY DEF SInv, SlotsOK
  <2>4. EntryOf(t, proc'[t].slot) => EntryOf(t, proc[t].slot)'
    BY <2>2 DEF EntryOf
  <2>5. QED BY <2>1, <2>2, <2>3, <2>4 DEF ProcStep
<1>4. QED BY <1>1, <1>2, <1>3 DEF SInv

\* A process goes on to a later state.
LEMMA MoveFacts ==
  ASSUME proc \in Procs, NEW t \in TelnetPids,
         NEW x \in {"entering", "leaving", "gone"},
         proc' = [proc EXCEPT ![t].st = x],
         x = "entering" => proc[t].st = "off"
  PROVE  proc' \in Procs /\ ProcStep
<1>1. proc' \in Procs
  BY DEF Procs
<1>2. \A y \in TelnetPids : /\ y # t => proc'[y] = proc[y]
                            /\ y = t => proc'[y].st = x
  BY DEF Procs
<1>3. QED BY <1>1, <1>2 DEF ProcStep

\* u_exit, or the end of a process that has nothing to clear.
LEMMA ExitFacts ==
  ASSUME SInv, NEW t \in TelnetPids, ExitOf(t), kicked' = kicked
  PROVE  /\ ProcStep
         /\ proc' \in Procs
         /\ queue' \in Seq(Requests)
         /\ \A r \in Elems(queue') : r \in Elems(queue) \/ ReqOK(r)'
<1> USE TableAssumption, SessionAssumption
<1>0. /\ proc \in Procs
      /\ queue \in Seq(Requests)
  BY DEF SInv, STypeOK
<1>1. CASE proc[t].st = "on"
  <2> PICK r : r = ClrReq(t, proc[t].slot, UserOf[t], t)
    OBVIOUS
  <2>1. proc' = [proc EXCEPT ![t].st = "leaving"] /\ queue' = Append(queue, r)
    BY <1>1 DEF ExitOf, Send
  <2>2. r \in Requests /\ proc[t].slot \in Slots
    BY <1>1 DEF ClrReq, Requests, Clients, Pids, SInv, SlotsOK, Slots
  <2>3. ProcStep /\ proc' \in Procs
    BY <1>0, <1>1, <2>1, MoveFacts
  <2>4. ReqOK(r)'
    BY <1>0, <2>1, <2>2 DEF ReqOK, ClrReq, Procs
  <2>5. queue' \in Seq(Requests) /\ Elems(queue') = Elems(queue) \cup {r}
    BY <1>0, <2>1, <2>2, ElemsFacts
  <2>6. \A x \in Elems(queue') : x \in Elems(queue) \/ x = r
    BY <2>5
  <2>7. \A x \in Elems(queue') : x \in Elems(queue) \/ ReqOK(x)'
    BY <2>4, <2>6
  <2>8. QED BY <2>3, <2>5, <2>7
<1>2. CASE proc[t].st # "on"
  <2>1. proc' = [proc EXCEPT ![t].st = "gone"] /\ queue' = queue
    BY <1>2 DEF ExitOf
  <2>2. ProcStep /\ proc' \in Procs
    BY <1>0, <1>2, <2>1, MoveFacts
  <2>3. QED BY <1>0, <2>1, <2>2
<1>3. QED BY <1>1, <1>2

LEMMA StopKickFacts ==
  ASSUME SInv, NEW t, StopKick(t), kicked \subseteq kicked'
  PROVE  KickOK' /\ kick' \in [Kickers -> Kicks]
<1> USE TableAssumption
<1>1. NoKick \in Kicks
  BY EmptySeq DEF NoKick, Kicks
<1>2. KickFine(NoKick)'
  BY EmptySeq, ElemsFacts DEF NoKick, KickFine
<1>3. \A k \in Kickers : kick'[k] = NoKick \/ kick'[k] = kick[k]
  BY DEF StopKick
<1>4. \A k \in Kickers : KickFine(kick[k])'  \/ kick'[k] # kick[k]
  BY DEF SInv, KickOK, KickFine
<1>5. KickOK'
  BY <1>2, <1>3, <1>4 DEF KickOK, KickFine
<1>6. QED BY <1>1, <1>5 DEF StopKick, SInv, STypeOK

\* Nothing the clients wait for changes when the kick calls stay as they are.
LEMMA SameKick ==
  ASSUME SInv, kick' = kick, kicked \subseteq kicked' PROVE KickOK'
BY DEF SInv, KickOK, KickFine

LEMMA TelnetInv ==
  ASSUME SInv, NEW t \in TelnetPids, TelnetStep(t)
  PROVE  SInv'
<1> USE TableAssumption, SessionAssumption
<1>0. /\ proc \in Procs
      /\ queue \in Seq(Requests)
      /\ \A w \in Web : web[w].st \in {"got", "on"} => web[w].slot \in Slots
  BY DEF SInv, STypeOK, SlotsOK
<1>1. CASE Enter(t)
  <2> DEFINE r == NewReq(t, UserOf[t], t)
  <2>1. proc' = [proc EXCEPT ![t].st = "entering"] /\ queue' = Append(queue, r) /\ proc[t].st = "off"
    BY <1>1 DEF Enter, Send
  <2>2. r \in Requests
    BY DEF NewReq, Requests, Clients, Pids
  <2>3. queue' \in Seq(Requests) /\ Elems(queue') = Elems(queue) \cup {r}
    BY <1>0, <2>1, <2>2, ElemsFacts
  <2>4. ProcStep /\ proc' \in Procs
    BY <1>0, <2>1, MoveFacts
  <2>5. ReqOK(r)'
    BY <1>0, <2>1 DEF ReqOK, NewReq, Procs
  <2>6. STypeOK'
    BY <1>1, <2>3, <2>4 DEF Enter, SInv, STypeOK
  <2>7. KickOK'
    BY <1>1, SameKick DEF Enter
  <2>8. QED BY <1>0, <1>1, <2>3, <2>4, <2>5, <2>6, <2>7, Quiet DEF Enter, tvars
<1>2. CASE EnterTimeout(t)
  <2>1. ProcStep /\ proc' \in Procs
    BY <1>0, <1>2, MoveFacts DEF EnterTimeout
  <2>2. STypeOK'
    BY <2>1, <1>2 DEF EnterTimeout, SInv, STypeOK
  <2>3. KickOK'
    BY <1>2, SameKick DEF EnterTimeout
  <2>4. QED BY <1>0, <1>2, <2>1, <2>2, <2>3, Quiet DEF EnterTimeout, tvars
<1>3. CASE Leave(t)
  <2>1. ExitOf(t) /\ kicked' = kicked
    BY <1>3 DEF Leave
  <2>2. STypeOK'
    BY <1>3, <2>1, ExitFacts DEF Leave, SInv, STypeOK
  <2>3. KickOK'
    BY <1>3, SameKick DEF Leave
  <2>4. QED BY <1>0, <1>3, <2>1, <2>2, <2>3, ExitFacts, Quiet DEF Leave, tvars
<1>4. CASE HangUp(t)
  <2>1. ExitOf(t) /\ StopKick(t) /\ kicked' = kicked
    BY <1>4 DEF HangUp
  <2>2. STypeOK'
    BY <1>4, <2>1, ExitFacts, StopKickFacts DEF HangUp, SInv, STypeOK
  <2>3. QED BY <1>0, <1>4, <2>1, <2>2, ExitFacts, StopKickFacts, Quiet DEF HangUp, tvars
<1>5. CASE Die(t)
  <2>1. ProcStep /\ proc' \in Procs
    BY <1>0, <1>5, MoveFacts DEF Die
  <2>2. KickOK' /\ kick' \in [Kickers -> Kicks]
    BY <1>5, StopKickFacts DEF Die
  <2>3. STypeOK'
    BY <1>5, <2>1, <2>2 DEF Die, SInv, STypeOK
  <2>4. QED BY <1>0, <1>5, <2>1, <2>2, <2>3, Quiet DEF Die, tvars
<1>6. QED BY <1>1, <1>2, <1>3, <1>4, <1>5 DEF TelnetStep

\* Steps that do not touch a telnet process.
LEMMA SameProc ==
  ASSUME SInv, proc' = proc PROVE ProcStep
BY DEF ProcStep

LEMMA WebInv ==
  ASSUME SInv, NEW w \in Web, WebEnter(w) \/ WebTimeout(w) \/ Page(w) \/ WebLeave(w)
  PROVE  SInv'
<1> USE TableAssumption, SessionAssumption
<1>0. /\ queue \in Seq(Requests) /\ web \in Webs
      /\ \A v \in Web : web[v].st \in {"got", "on"} => web[v].slot \in Slots
  BY DEF SInv, STypeOK, SlotsOK
<1>1. ProcStep
  BY SameProc DEF WebEnter, WebTimeout, Page, WebLeave
<1>2. KickOK'
  BY SameKick DEF WebEnter, WebTimeout, Page, WebLeave
<1>3. ASSUME NEW x \in {"entering", "gone"}, web' = [web EXCEPT ![w].st = x]
      PROVE  /\ web' \in Webs
             /\ \A v \in Web : web'[v].st \in {"got", "on"} => web'[v].slot \in Slots
  <2>1. web' \in Webs
    BY <1>0, <1>3 DEF Webs
  <2>2. \A v \in Web : /\ v # w => web'[v] = web[v]
                       /\ v = w => web'[v].st = x
    BY <1>0, <1>3 DEF Webs
  <2>3. QED BY <1>0, <2>1, <2>2
<1>4. CASE WebEnter(w)
  <2> DEFINE r == NewReq(w, WebUser[w], 0)
  <2>1. r \in Requests
    BY DEF NewReq, Requests, Clients, Pids
  <2>2. queue' \in Seq(Requests) /\ Elems(queue') = Elems(queue) \cup {r}
    BY <1>0, <1>4, <2>1, ElemsFacts DEF WebEnter, Send
  <2>3. ReqOK(r)'
    BY DEF ReqOK, NewReq
  <2>4. \A x \in Elems(queue') : x \in Elems(queue) \/ x = r
    BY <2>2
  <2>5. \A x \in Elems(queue') : x \in Elems(queue) \/ ReqOK(x)'
    BY <2>3, <2>4
  <2>6. web' \in Webs /\ \A v \in Web : web'[v].st \in {"got", "on"} => web'[v].slot \in Slots
    BY <1>3, <1>4 DEF WebEnter
  <2>7. STypeOK'
    BY <1>4, <2>2, <2>6 DEF WebEnter, SInv, STypeOK
  <2>8. QED BY <1>1, <1>2, <1>4, <2>5, <2>6, <2>7, Quiet DEF WebEnter, tvars
<1>5. CASE WebTimeout(w)
  <2>1. web' \in Webs /\ \A v \in Web : web'[v].st \in {"got", "on"} => web'[v].slot \in Slots
    BY <1>3, <1>5 DEF WebTimeout
  <2>2. STypeOK'
    BY <1>5, <2>1 DEF WebTimeout, SInv, STypeOK
  <2>3. QED BY <1>1, <1>2, <1>5, <2>1, <2>2, Quiet DEF WebTimeout, tvars
<1>6. CASE Page(w)
  <2>1. STypeOK'
    BY <1>6 DEF Page, SInv, STypeOK
  <2>2. QED BY <1>0, <1>1, <1>2, <1>6, <2>1, Quiet DEF Page, tvars
<1>7. CASE WebLeave(w)
  <2> PICK r : r = ClrReq(w, web[w].slot, WebUser[w], WebPid)
    OBVIOUS
  <2>1. web[w].slot \in Slots
    BY <1>0, <1>7 DEF WebLeave, PageOK
  <2>2. r \in Requests
    BY <2>1 DEF ClrReq, Requests, Clients, Pids, Slots
  <2>3. queue' \in Seq(Requests) /\ Elems(queue') = Elems(queue) \cup {r}
    BY <1>0, <1>7, <2>2, ElemsFacts DEF WebLeave, Send
  <2>4. ReqOK(r)'
    BY <2>1 DEF ReqOK, ClrReq, WebPid, Slots
  <2>5. \A x \in Elems(queue') : x \in Elems(queue) \/ x = r
    BY <2>3
  <2>6. \A x \in Elems(queue') : x \in Elems(queue) \/ ReqOK(x)'
    BY <2>4, <2>5
  <2>7. web' \in Webs /\ \A v \in Web : web'[v].st \in {"got", "on"} => web'[v].slot \in Slots
    BY <1>3, <1>7 DEF WebLeave
  <2>8. STypeOK'
    BY <1>7, <2>3, <2>7 DEF WebLeave, SInv, STypeOK
  <2>9. QED BY <1>1, <1>2, <1>7, <2>6, <2>7, <2>8, Quiet DEF WebLeave, tvars
<1>8. QED BY <1>4, <1>5, <1>6, <1>7

LEMMA IdleInv ==
  ASSUME SInv, NEW s \in Slots, Idle(s) PROVE SInv'
<1>1. STypeOK'
  BY DEF Idle, SInv, STypeOK
<1>2. QED BY <1>1, SameProc, SameKick, Quiet DEF Idle, tvars, SInv, SlotsOK

-----------------------------------------------------------------------------
\* A kicker moves on, and the others stay or are stopped.
LEMMA KickMoves ==
  ASSUME SInv, NEW c \in Kicks, KickFine(c)', kicked \subseteq kicked',
         kick' = [j \in Kickers |-> kick'[j]],
         \A j \in Kickers : kick'[j] = NoKick \/ kick'[j] = c \/ kick'[j] = kick[j]
  PROVE  KickOK' /\ kick' \in [Kickers -> Kicks]
<1> USE TableAssumption
<1>1. NoKick \in Kicks
  BY EmptySeq DEF NoKick, Kicks
<1>2. KickFine(NoKick)'
  BY EmptySeq, ElemsFacts DEF NoKick, KickFine
<1>3. \A j \in Kickers : KickFine(kick[j]) /\ kick[j] \in Kicks
  BY DEF SInv, KickOK, STypeOK
<1>4. kick' \in [Kickers -> Kicks]
  BY <1>1, <1>3
<1>5. \A d : KickFine(d) => KickFine(d)'
  BY DEF KickFine
<1>6. ASSUME NEW j \in Kickers PROVE KickFine(kick[j])'
  <2> PICK d : d = kick[j]
    OBVIOUS
  <2>1. CASE kick'[j] = NoKick
    BY <2>1, <1>2 DEF KickFine
  <2>2. CASE kick'[j] = c
    BY <2>2 DEF KickFine
  <2>3. CASE kick'[j] = d
    <3>1. KickFine(d)'
      BY <1>3, <1>5
    <3>2. QED BY <2>3, <3>1 DEF KickFine
  <2>4. QED BY <2>1, <2>2, <2>3
<1>7. QED BY <1>4, <1>6 DEF KickOK

\* The same with nobody stopped.
LEMMA KickMoves1 ==
  ASSUME SInv, NEW k \in Kickers, NEW c \in Kicks, KickFine(c)', kicked \subseteq kicked',
         kick' = [kick EXCEPT ![k] = c]
  PROVE  KickOK' /\ kick' \in [Kickers -> Kicks]
<1>1. kick' = [j \in Kickers |-> kick'[j]]
      /\ \A j \in Kickers : kick'[j] = NoKick \/ kick'[j] = c \/ kick'[j] = kick[j]
  BY DEF SInv, STypeOK
<1>2. QED BY <1>1, KickMoves

LEMMA SavedAppend ==
  \A q \in Seq(Saved), s \in Saved :
    Append(q, s) \in Seq(Saved) /\ Elems(Append(q, s)) = Elems(q) \cup {s}
BY AppendFacts

LEMMA StartRecord ==
  ASSUME NEW u \in Uids, NEW sig \in {"hup", "kill"}, NEW a \in 0..N,
         NEW d, d = KickCall(u, sig, a)
  PROVE  d \in Kicks /\ d.uid = u /\ d.todo = <<>> /\ d.own = <<>> /\ d.pc = "walk"
<1>1. <<>> \in Seq(Saved)
  BY EmptySeq
<1>2. QED BY <1>1 DEF Kicks, KickCall

LEMMA CheckRecord ==
  \A u \in Uids \cup Residue, o, none \in Seq(Saved) :
    [pc |-> "check", uid |-> u, sig |-> "hup", at |-> 0, todo |-> o, count |-> 1,
     own |-> none] \in Kicks
<1>1. 0 \in 0..N
  BY TableAssumption
<1>2. QED BY <1>1 DEF Kicks

LEMMA OneRecord ==
  ASSUME NEW u \in Uids \cup Residue, NEW e \in Saved,
         NEW d, d = [NoKick EXCEPT !.pc = "check", !.uid = u, !.todo = <<e>>, !.count = 1]
  PROVE  d \in Kicks /\ Elems(d.todo) = {e} /\ Elems(d.own) = {} /\ d.pc = "check"
<1>1. <<>> \in Seq(Saved)
  BY EmptySeq
<1>2. Elems(<<>>) = {}
  BY <1>1, ElemsFacts
<1> PICK o : o = <<e>>
  OBVIOUS
<1>3. o = Append(<<>>, e)
  OBVIOUS
<1>4. o \in Seq(Saved) /\ Elems(o) = {e}
  <2>1. Append(<<>>, e) \in Seq(Saved) /\ Elems(Append(<<>>, e)) = Elems(<<>>) \cup {e}
    BY <1>1, SavedAppend
  <2>2. QED BY <1>2, <1>3, <2>1
<1> PICK none \in Seq(Saved) : none = <<>>
  BY <1>1
<1>5. d = [pc |-> "check", uid |-> u, sig |-> "hup", at |-> 0, todo |-> o, count |-> 1,
           own |-> none]
  BY DEF NoKick
<1>6. o \in Seq(Saved) /\ none \in Seq(Saved)
  BY <1>4
<1>7. d \in Kicks
  <2>1. [pc |-> "check", uid |-> u, sig |-> "hup", at |-> 0, todo |-> o, count |-> 1,
         own |-> none] \in Kicks
    BY <1>6, CheckRecord
  <2>2. QED BY <1>5, <2>1
<1>9. d.pc = "check" /\ d.todo = o /\ d.own = none
  BY ONLY <1>5, Zenon
<1>10. QED BY <1>2, <1>4, <1>7, <1>9

LEMMA KickQuietInv ==
  ASSUME Inv, SInv, NEW k \in Kickers,
         \/ \E u \in Uids, sig \in Signals : KickStart(k, u, sig)
         \/ \E u \in (Uids \cup Residue) \ {0}, s \in Slots : KickOne(k, u, s)
         \/ KickWalk(k) \/ KickWalked(k) \/ KickCheck(k) \/ KickReturn(k)
  PROVE  SInv'
<1> USE TableAssumption, SessionAssumption
<1>0. /\ kick \in [Kickers -> Kicks] /\ kick[k] \in Kicks /\ KickFine(kick[k])
      /\ \A w \in Web : web[w].st \in {"got", "on"} => web[w].slot \in Slots
  BY DEF SInv, STypeOK, SlotsOK, KickOK
<1> PICK c : c = kick[k]
  OBVIOUS
<1>c. /\ c \in Kicks /\ KickFine(c)
      /\ c.todo \in Seq(Saved) /\ c.own \in Seq(Saved) /\ c.count \in Nat
  BY <1>0 DEF Kicks
<1>1. SUFFICES /\ kick' \in [Kickers -> Kicks] /\ KickOK'
               /\ kicked \subseteq kicked' /\ kicked' \subseteq TelnetPids
  <2>1. ProcStep
    BY SameProc DEF KickStart, KickOne, KickWalk, KickWalked, KickCheck, KickReturn
  <2>2. STypeOK'
    BY <1>1 DEF KickStart, KickOne, KickWalk, KickWalked, KickCheck, KickReturn, SInv, STypeOK
  <2>3. QED
    BY <1>0, <1>1, <2>1, <2>2, Quiet DEF KickStart, KickOne, KickWalk, KickWalked, KickCheck, KickReturn, tvars
<1>2. ASSUME NEW u \in Uids, NEW sig \in Signals, KickStart(k, u, sig)
      PROVE  kick' \in [Kickers -> Kicks] /\ KickOK'
  <2>1. hashhead[HashOf[u]] \in 0..N
    BY DEF Inv, TypeOK, Buckets
  <2>2. PICK a \in 0..N :
          kick' = [kick EXCEPT ![k] = KickCall(u, sig, a)]
    BY <1>2, <2>1 DEF KickStart
  <2>3. PICK d : d = KickCall(u, sig, a)
    OBVIOUS
  <2>4. d \in Kicks /\ d.uid = u /\ d.todo = <<>> /\ d.own = <<>> /\ d.pc = "walk"
    <3>1. sig \in {"hup", "kill"}
      BY SessionAssumption
    <3>2. QED BY <2>3, <3>1, StartRecord
  <2>5. Elems(<<>>) = {}
    BY ElemsFacts, <1>c
  <2>6. KickFine(d)'
    BY <2>4, <2>5 DEF KickFine
  <2>7. QED BY <1>2, <2>2, <2>3, <2>4, <2>6, KickMoves1 DEF KickStart
<1>3. CASE KickWalk(k)
  <2> PICK s : s = <<c.at, uinfo[c.at].pid>>
    OBVIOUS
  <2>1. /\ c.pc = "walk" /\ c.at \in Slots /\ next[c.at] \in 0..N /\ s \in Saved
    BY <1>3, <1>c DEF KickWalk, Kicks, Inv, TypeOK, Slots, Saved
  <2>2. PICK m \in BOOLEAN, a \in 0..N :
          /\ kick' = [kick EXCEPT ![k] =
               [c EXCEPT !.todo  = IF m THEN Append(@, s) ELSE @,
                         !.count = IF m THEN @ + 1 ELSE @,
                         !.at    = a]]
          /\ kicked' = IF m THEN kicked \cup ({s[2]} \cap TelnetPids) ELSE kicked
    <3> DEFINE e == uinfo[c.at]
               m == e.active /\ e.uid = c.uid
               a == IF m /\ c.count + 1 >= MaxKick THEN 0 ELSE next[c.at]
    <3>1. m \in BOOLEAN /\ a \in 0..N
      BY <2>1
    <3>2. kick' = [kick EXCEPT ![k] =
               [c EXCEPT !.todo  = IF m THEN Append(@, <<c.at, e.pid>>) ELSE @,
                         !.count = IF m THEN @ + 1 ELSE @,
                         !.at    = a]]
      BY <1>3 DEF KickWalk
    <3>3. kicked' = IF m THEN kicked \cup ({e.pid} \cap TelnetPids) ELSE kicked
      BY <1>3 DEF KickWalk
    <3>4. QED BY <3>1, <3>2, <3>3
  <2>3. /\ Append(c.todo, s) \in Seq(Saved)
        /\ Elems(Append(c.todo, s)) = Elems(c.todo) \cup {s}
    BY <2>1, <1>c, SavedAppend
  <2>4. CASE m
    <3> PICK q \in Seq(Saved), n \in Nat : q = Append(c.todo, s) /\ n = c.count + 1
      BY <2>3, <1>c
    <3> PICK d : d = [c EXCEPT !.todo = q, !.count = n, !.at = a]
      OBVIOUS
    <3>1. kick' = [kick EXCEPT ![k] = d] /\ kicked' = kicked \cup ({s[2]} \cap TelnetPids)
      BY <2>2, <2>4
    <3>2. d \in Kicks /\ d.todo = q /\ d.own = c.own /\ d.pc = "walk" /\ d.uid = c.uid
      BY <2>1, <1>c DEF Kicks
    <3>3. \A x \in Elems(d.todo) : x \in Elems(c.todo) \/ x = s
      BY <2>3, <3>2
    <3>4. KickFine(d)'
      BY <2>1, <3>1, <3>2, <3>3, <1>c DEF KickFine
    <3>5. QED BY <3>1, <3>2, <3>4, KickMoves1 DEF SInv, STypeOK
  <2>5. CASE ~m
    <3> PICK d : d = [c EXCEPT !.todo = c.todo, !.count = c.count, !.at = a]
      OBVIOUS
    <3>1. kick' = [kick EXCEPT ![k] = d] /\ kicked' = kicked
      BY <2>2, <2>5
    <3>2. d \in Kicks /\ d.todo = c.todo /\ d.own = c.own /\ d.pc = "walk" /\ d.uid = c.uid
      BY <2>1, <1>c DEF Kicks
    <3>3. KickFine(d)'
      BY <2>1, <3>1, <3>2, <1>c DEF KickFine
    <3>4. QED BY <3>1, <3>2, <3>3, KickMoves1 DEF SInv, STypeOK
  <2>6. QED BY <2>4, <2>5
<1>4. CASE KickWalked(k)
  <2> PICK d : d = [c EXCEPT !.pc = "check"]
    OBVIOUS
  <2>1. d \in Kicks /\ d.todo = c.todo /\ d.own = c.own /\ d.pc = "check" /\ d.uid = c.uid
    BY <1>c DEF Kicks
  <2>2. KickFine(d)'
    BY <1>4, <1>c, <2>1 DEF KickFine, KickWalked
  <2>3. kick' = [kick EXCEPT ![k] = d]
    BY <1>4 DEF KickWalked
  <2>4. QED BY <1>4, <2>1, <2>2, <2>3, KickMoves1 DEF KickWalked, SInv, STypeOK
<1>5. CASE KickReturn(k)
  BY <1>5, StopKickFacts DEF KickReturn, SInv, STypeOK
<1>6. CASE KickCheck(k)
  <2> DEFINE e == uinfo[c.todo[1][1]]
  <2>0. c.pc = "check" /\ kicked' = kicked
    BY <1>6 DEF KickCheck
  <2>1. PICK d : /\ kick' = [kick EXCEPT ![k] = d]
                 /\ d = IF c.todo = <<>>
                          THEN IF c.own = <<>> THEN [c EXCEPT !.pc = "done"]
                               ELSE [c EXCEPT !.todo = c.own, !.own = <<>>, !.count = 1]
                        ELSE IF ~e.active THEN [c EXCEPT !.todo = Tail(@)]
                        ELSE IF e.pid = k /\ c.count > 1
                          THEN [c EXCEPT !.todo = Tail(@), !.own = <<c.todo[1]>>]
                        ELSE [c EXCEPT !.pc = "kill"]
    BY <1>6 DEF KickCheck
  <2>2. ASSUME d \in Kicks, KickFine(d)' PROVE kick' \in [Kickers -> Kicks] /\ KickOK'
    BY <2>0, <2>1, <2>2, KickMoves1
  <2>3. <<>> \in Seq(Saved) /\ Elems(<<>>) = {}
    BY EmptySeq, ElemsFacts, <1>c
  <2>4. CASE c.todo = <<>> /\ c.own = <<>>
    <3>1. d \in Kicks /\ d.todo = c.todo /\ d.own = c.own /\ d.uid = c.uid /\ d.pc = "done"
      BY <2>1, <2>4, <1>c DEF Kicks
    <3>2. KickFine(d)'
      BY <2>0, <3>1, <1>c DEF KickFine
    <3>3. QED BY <2>0, <2>2, <3>1, <3>2 DEF SInv, STypeOK
  <2>5. CASE c.todo = <<>> /\ c.own # <<>>
    <3>1. d \in Kicks /\ d.todo = c.own /\ d.own = <<>> /\ d.uid = c.uid /\ d.pc = c.pc
      BY <2>1, <2>3, <2>5, <1>c DEF Kicks
    <3>2. KickFine(d)'
      BY <2>0, <2>3, <3>1, <1>c DEF KickFine
    <3>3. QED BY <2>0, <2>2, <3>1, <3>2 DEF SInv, STypeOK
  <2>6. CASE c.todo # <<>>
    <3>1. /\ Tail(c.todo) \in Seq(Saved) /\ Elems(Tail(c.todo)) \subseteq Elems(c.todo)
          /\ c.todo[1] \in Elems(c.todo) /\ c.todo[1] \in Saved
      BY <2>6, <1>c, ElemsFacts
    <3>2. CASE ~e.active
      <4>1. d \in Kicks /\ d.todo = Tail(c.todo) /\ d.own = c.own /\ d.uid = c.uid /\ d.pc = c.pc
        BY <2>1, <2>6, <3>1, <3>2, <1>c DEF Kicks
      <4>2. KickFine(d)'
        BY <2>0, <3>1, <4>1, <1>c DEF KickFine
      <4>3. QED BY <2>0, <2>2, <4>1, <4>2 DEF SInv, STypeOK
    <3>3. CASE e.active /\ e.pid = k /\ c.count > 1
      <4> PICK o : o = <<c.todo[1]>>
        OBVIOUS
      <4>1. o \in Seq(Saved) /\ Elems(o) = {c.todo[1]}
        <5>1. o = Append(<<>>, c.todo[1])
          OBVIOUS
        <5>2. /\ Append(<<>>, c.todo[1]) \in Seq(Saved)
              /\ Elems(Append(<<>>, c.todo[1])) = Elems(<<>>) \cup {c.todo[1]}
          BY <2>3, <3>1, SavedAppend
        <5>3. QED BY <2>3, <5>1, <5>2
      <4>2. d \in Kicks /\ d.todo = Tail(c.todo) /\ d.own = o /\ d.uid = c.uid /\ d.pc = c.pc
        BY <2>1, <2>6, <3>1, <3>3, <4>1, <1>c DEF Kicks
      <4>3. KickFine(d)'
        BY <2>0, <3>1, <4>1, <4>2, <1>c DEF KickFine
      <4>4. QED BY <2>0, <2>2, <4>2, <4>3 DEF SInv, STypeOK
    <3>4. CASE e.active /\ ~(e.pid = k /\ c.count > 1)
      <4>1. d \in Kicks /\ d.todo = c.todo /\ d.own = c.own /\ d.uid = c.uid /\ d.pc = "kill"
        BY <2>1, <2>6, <3>4, <1>c DEF Kicks
      <4>2. KickFine(d)'
        BY <2>0, <2>6, <4>1, <1>c DEF KickFine
      <4>3. QED BY <2>0, <2>2, <4>1, <4>2 DEF SInv, STypeOK
    <3>5. QED BY <3>2, <3>3, <3>4
  <2>7. QED BY <2>4, <2>5, <2>6
<1>7. ASSUME NEW u \in (Uids \cup Residue) \ {0}, NEW s \in Slots, KickOne(k, u, s)
      PROVE  /\ kick' \in [Kickers -> Kicks] /\ KickOK'
             /\ kicked \subseteq kicked' /\ kicked' \subseteq TelnetPids
  <2> PICK p : p = uinfo[s].pid
    OBVIOUS
  <2> PICK e : e = <<s, p>>
    OBVIOUS
  <2>1. e \in Saved /\ e[2] = p
    BY DEF Inv, TypeOK, Saved
  <2> PICK d : d = [NoKick EXCEPT !.pc = "check", !.uid = u, !.todo = <<e>>, !.count = 1]
    OBVIOUS
  <2>2. kick' = [kick EXCEPT ![k] = d] /\ kicked' = kicked \cup ({p} \cap TelnetPids)
    BY <1>7 DEF KickOne
  <2>3. d \in Kicks /\ Elems(d.todo) = {e} /\ Elems(d.own) = {} /\ d.pc = "check"
    BY <2>1, OneRecord
  <2>4. KickFine(d)'
    BY <2>1, <2>2, <2>3 DEF KickFine
  <2>5. kicked \subseteq kicked' /\ kicked' \subseteq TelnetPids
    BY <2>2 DEF SInv, STypeOK
  <2>6. QED BY <2>2, <2>3, <2>4, <2>5, KickMoves1
<1>8. QED BY <1>2, <1>3, <1>4, <1>5, <1>6, <1>7 DEF KickStart, SInv, STypeOK

\* SIGKILL ends all of hit.
Killed(hit) ==
  proc' = [t \in TelnetPids |-> IF t \in hit THEN [proc[t] EXCEPT !.st = "gone"] ELSE proc[t]]

LEMMA KilledFacts ==
  ASSUME proc \in Procs, NEW hit \in SUBSET TelnetPids, Killed(hit)
  PROVE  /\ proc' \in Procs
         /\ \A t \in TelnetPids :
              IF t \in hit THEN proc'[t].st = "gone" /\ proc'[t].slot = proc[t].slot
              ELSE proc'[t] = proc[t]
<1>1. \A t \in TelnetPids : [proc[t] EXCEPT !.st = "gone"]
                             \in [st : {"off", "entering", "on", "leaving", "gone"}, slot : 0..N]
  BY DEF Procs
<1>2. \A t \in TelnetPids : /\ [proc[t] EXCEPT !.st = "gone"].st = "gone"
                             /\ [proc[t] EXCEPT !.st = "gone"].slot = proc[t].slot
  BY DEF Procs
<1>3. QED BY <1>1, <1>2 DEF Killed, Procs

LEMMA KickKillInv ==
  ASSUME SInv, NEW k \in Kickers, KickKill(k) PROVE SInv'
<1> USE TableAssumption, SessionAssumption
<1>0. /\ kick \in [Kickers -> Kicks] /\ kick[k] \in Kicks /\ KickFine(kick[k])
      /\ \A w \in Web : web[w].st \in {"got", "on"} => web[w].slot \in Slots
      /\ proc \in Procs /\ hup \subseteq TelnetPids
  BY DEF SInv, STypeOK, SlotsOK, KickOK
<1> PICK c : c = kick[k]
  OBVIOUS
<1>1. c \in Kicks /\ KickFine(c) /\ c.pc = "kill" /\ kicked' = kicked
  BY <1>0 DEF KickKill
<1> PICK d : d = [c EXCEPT !.pc = "clear"]
  OBVIOUS
<1>2. d \in Kicks /\ d.todo = c.todo /\ d.own = c.own /\ d.pc = "clear" /\ d.uid = c.uid
  BY <1>1 DEF Kicks
<1>3. KickFine(d)'
  BY <1>1, <1>2 DEF KickFine
<1> PICK hit : hit = IF uinfo[kick[k].todo[1][1]].pid = 0 THEN Group[k]
                     ELSE {uinfo[kick[k].todo[1][1]].pid} \cap TelnetPids
  OBVIOUS
<1>4. hit \in SUBSET TelnetPids
  BY GroupAssumption
<1>5. \/ Killed(hit) /\ hup' = hup \ hit /\ UNCHANGED queue
         /\ kick' = [j \in Kickers |-> IF j \in hit THEN NoKick ELSE [kick EXCEPT ![k] = d][j]]
      \/ ExitOf(k) /\ hup' \subseteq hup \cup hit /\ StopKick(k)
      \/ /\ hup' \subseteq hup \cup hit /\ UNCHANGED <<proc, queue>>
         /\ kick' = [kick EXCEPT ![k] = d]
  <2>1. PICK g : g = [kick EXCEPT ![k].pc = "clear"]
    OBVIOUS
  <2>2. g = [kick EXCEPT ![k] = d]
    BY <2>1
  <2>3. PICK live : live = {t \in hit : proc[t].st # "gone"}
    OBVIOUS
  <2>4. \/ /\ proc' = [t \in TelnetPids |-> IF t \in hit THEN [proc[t] EXCEPT !.st = "gone"]
                                           ELSE proc[t]]
           /\ hup'  = hup \ hit
           /\ kick' = [j \in Kickers |-> IF j \in hit THEN NoKick ELSE g[j]]
           /\ UNCHANGED queue
        \/ ExitOf(k) /\ hup' = (hup \cup live) \ {k} /\ StopKick(k)
        \/ hup' = hup \cup live /\ kick' = g /\ UNCHANGED <<proc, queue>>
    BY <2>1, <2>3, ZenonT(30) DEF KickKill
  <2>5. live \subseteq hit
    BY <2>3
  <2>6. QED BY <2>2, <2>4, <2>5 DEF Killed
<1>6. SUFFICES /\ KickOK' /\ kick' \in [Kickers -> Kicks]
               /\ ProcStep /\ proc' \in Procs
               /\ hup' \subseteq TelnetPids
               /\ queue' \in Seq(Requests)
               /\ \A r \in Elems(queue') : r \in Elems(queue) \/ ReqOK(r)'
  <2>1. STypeOK'
    BY <1>6 DEF KickKill, SInv, STypeOK
  <2>2. QED BY <1>0, <1>6, <2>1, Quiet DEF KickKill, tvars
<1>7. queue \in Seq(Requests)
  BY DEF SInv, STypeOK
<1>8. CASE /\ Killed(hit) /\ hup' = hup \ hit /\ UNCHANGED queue
           /\ kick' = [j \in Kickers |-> IF j \in hit THEN NoKick ELSE [kick EXCEPT ![k] = d][j]]
  <2>1. ProcStep /\ proc' \in Procs
    BY <1>0, <1>4, <1>8, KilledFacts DEF ProcStep
  <2>2. /\ kick' = [j \in Kickers |-> kick'[j]]
        /\ \A j \in Kickers : kick'[j] = NoKick \/ kick'[j] = d \/ kick'[j] = kick[j]
    BY <1>0, <1>8
  <2>3. KickOK' /\ kick' \in [Kickers -> Kicks]
    BY <1>1, <1>2, <1>3, <2>2, KickMoves
  <2>4. QED BY <1>0, <1>7, <1>8, <2>1, <2>3
<1>9. CASE ExitOf(k) /\ hup' \subseteq hup \cup hit /\ StopKick(k)
  BY <1>0, <1>1, <1>4, <1>9, ExitFacts, StopKickFacts
<1>10. CASE /\ hup' \subseteq hup \cup hit /\ UNCHANGED <<proc, queue>>
            /\ kick' = [kick EXCEPT ![k] = d]
  <2>1. KickOK' /\ kick' \in [Kickers -> Kicks]
    BY <1>1, <1>2, <1>3, <1>10, KickMoves1
  <2>2. QED BY <1>0, <1>4, <1>7, <1>10, <2>1, SameProc
<1>11. QED BY <1>5, <1>8, <1>9, <1>10

LEMMA KickClearInv ==
  ASSUME SInv, NEW k \in Kickers, KickClear(k) PROVE SInv'
<1> USE TableAssumption, SessionAssumption
<1>0. /\ kick \in [Kickers -> Kicks] /\ kick[k] \in Kicks /\ KickFine(kick[k])
      /\ \A w \in Web : web[w].st \in {"got", "on"} => web[w].slot \in Slots
      /\ queue \in Seq(Requests)
  BY DEF SInv, STypeOK, SlotsOK, KickOK
<1> PICK c : c = kick[k]
  OBVIOUS
<1>1. /\ c \in Kicks /\ KickFine(c) /\ c.pc = "clear" /\ kicked' = kicked
      /\ c.todo \in Seq(Saved)
  BY <1>0 DEF KickClear, Kicks
<1>2. /\ c.todo # <<>> /\ c.uid \in Uids \cup Residue
  BY <1>1 DEF KickFine, Kicks
<1>3. /\ Tail(c.todo) \in Seq(Saved) /\ Elems(Tail(c.todo)) \subseteq Elems(c.todo)
      /\ c.todo[1] \in Elems(c.todo) /\ c.todo[1] \in Saved
  BY <1>1, <1>2, ElemsFacts
<1> PICK s, p : s = c.todo[1][1] /\ p = c.todo[1][2]
  OBVIOUS
<1>4. /\ s \in Slots /\ p \in Pids
      /\ p \in TelnetPids => p \in kicked
  BY <1>1, <1>3 DEF Saved, KickFine
<1> PICK r : r = ClrReq(k, s, c.uid, p)
  OBVIOUS
<1>5. r \in Requests
  BY <1>2, <1>4 DEF ClrReq, Requests, Clients, Slots
<1>6. queue' \in Seq(Requests) /\ Elems(queue') = Elems(queue) \cup {r}
  BY <1>0, <1>5, ElemsFacts DEF KickClear, Send
<1>7. ReqOK(r)'
  BY <1>1, <1>4 DEF ReqOK, ClrReq
<1>8. \A x \in Elems(queue') : x \in Elems(queue) \/ x = r
  BY <1>6
<1>9. \A x \in Elems(queue') : x \in Elems(queue) \/ ReqOK(x)'
  BY <1>7, <1>8
<1> PICK q \in Seq(Saved) : q = Tail(c.todo)
  BY <1>3
<1> PICK d : d = [c EXCEPT !.pc = "check", !.todo = q]
  OBVIOUS
<1>10. d \in Kicks /\ d.todo = q /\ d.own = c.own /\ d.pc = "check" /\ d.uid = c.uid
  BY <1>1 DEF Kicks
<1>11. KickFine(d)'
  BY <1>1, <1>3, <1>10 DEF KickFine
<1>12. kick' = [kick EXCEPT ![k] = d]
  BY <1>0 DEF KickClear
<1>13. KickOK' /\ kick' \in [Kickers -> Kicks]
  BY <1>1, <1>10, <1>11, <1>12, KickMoves1
<1>14. ProcStep
  BY SameProc DEF KickClear
<1>15. STypeOK'
  BY <1>6, <1>13 DEF KickClear, SInv, STypeOK
<1>16. QED BY <1>0, <1>9, <1>13, <1>14, <1>15, Quiet DEF KickClear, tvars

-----------------------------------------------------------------------------
(* utmpd, and the write of a web login into its entry. *)

LEMMA EntryKept ==
  ASSUME NEW t, NEW s, EntryOf(t, s), uinfo'[s] = uinfo[s], holder'[s] = holder[s]
  PROVE  EntryOf(t, s)'
BY DEF EntryOf

\* The requests that stay in the backlog stay good.
LEMMA QueueKept ==
  ASSUME SInv, kicked' = kicked,
         Elems(queue') \subseteq Elems(queue),
         \A t \in TelnetPids :
           /\ proc[t].st # "off" => proc'[t].st # "off"
           /\ proc[t].st \in {"leaving", "gone"} => proc'[t].st \in {"leaving", "gone"}
  PROVE  QueueOK'
<1> SUFFICES ASSUME NEW r \in Elems(queue') PROVE ReqOK(r)'
  BY DEF QueueOK
<1>1. ReqOK(r)
  BY DEF SInv, QueueOK
<1>2. QED BY <1>1 DEF ReqOK

LEMMA HeadFacts ==
  ASSUME SInv, queue # <<>>
  PROVE  /\ Head(queue) \in Requests /\ ReqOK(Head(queue))
         /\ Tail(queue) \in Seq(Requests) /\ Elems(Tail(queue)) \subseteq Elems(queue)
<1>1. queue \in Seq(Requests)
  BY DEF SInv, STypeOK
<1>2. QED BY <1>1, ElemsFacts DEF SInv, QueueOK

LEMMA WebSetPidInv ==
  ASSUME Inv, SInv, NEW w \in Web, WebSetPid(w) PROVE SInv'
<1> USE TableAssumption, SessionAssumption
<1>0. /\ web \in Webs /\ web[w].st = "got" /\ web[w].slot \in Slots
      /\ \A v \in Web : web[v].st \in {"got", "on"} => web[v].slot \in Slots
      /\ holder \in [Slots -> Clients \cup {Nobody}]
      /\ uinfo \in [Slots -> [active : BOOLEAN, uid : Uids \cup Residue, pid : Pids]]
  BY DEF SInv, STypeOK, SlotsOK, WebSetPid, Inv, TypeOK
<1> PICK s \in Slots : s = web[w].slot
  BY <1>0
<1>1. /\ \A x \in Slots : x # s => uinfo'[x] = uinfo[x]
      /\ web' = [web EXCEPT ![w].st = "on"]
      /\ clobbered' = clobbered \cup ({holder[s]} \cap TelnetPids)
      /\ UNCHANGED <<ret, proc, queue, client, holder, idle, hup, kick, kicked>>
  BY <1>0 DEF WebSetPid, SetWebPid
<1>2. /\ web' \in Webs
      /\ \A v \in Web : web'[v].st \in {"got", "on"} => web'[v].slot \in Slots
  <2>1. web' \in Webs
    BY <1>0, <1>1 DEF Webs
  <2>2. \A v \in Web : web'[v].slot = web[v].slot /\ (v # w => web'[v].st = web[v].st)
    BY <1>0, <1>1 DEF Webs
  <2>3. QED BY <1>0, <2>1, <2>2
<1>3. STypeOK'
  BY <1>1, <1>2 DEF SInv, STypeOK
<1>4. QueueOK'
  BY <1>1, QueueKept
<1>5. SlotsOK' /\ KickOK'
  BY <1>1, <1>2, SameKick DEF SInv, SlotsOK
<1>6. Listed'
  <2> SUFFICES ASSUME NEW t \in TelnetPids \ (kicked \cup clobbered'), t \notin clobbered
               PROVE  /\ proc[t].st = "on" => EntryOf(t, proc[t].slot)'
                      /\ proc[t].st = "entering" /\ client = t /\ ret # NoSlot => EntryOf(t, ret)'
    BY <1>1 DEF Listed, EntryOf
  <2>1. /\ proc[t].st = "on" => EntryOf(t, proc[t].slot)
        /\ proc[t].st = "entering" /\ client = t /\ ret # NoSlot => EntryOf(t, ret)
    BY DEF SInv, Listed
  <2>2. ASSUME NEW x, EntryOf(t, x) PROVE EntryOf(t, x)'
    BY <1>1, <2>2 DEF EntryOf
  <2>3. ASSUME proc[t].st = "on" PROVE EntryOf(t, proc[t].slot)'
    <3> PICK x : x = proc[t].slot
      OBVIOUS
    <3>1. EntryOf(t, x)'
      BY <2>1, <2>2, <2>3
    <3>2. QED BY <1>1, <3>1 DEF EntryOf
  <2>4. ASSUME proc[t].st = "entering" /\ client = t /\ ret # NoSlot PROVE EntryOf(t, ret)'
    <3> PICK x : x = ret
      OBVIOUS
    <3>1. EntryOf(t, x)'
      BY <2>1, <2>2, <2>4
    <3>2. QED BY <1>1, <3>1 DEF EntryOf
  <2>5. QED BY <2>3, <2>4
<1>7. QED BY <1>3, <1>4, <1>5, <1>6 DEF SInv

\* The slot at the head of the free list is not in use.
LEMMA FreeHead ==
  ASSUME Inv, ~stray, hashhead[0] # 0
  PROVE  hashhead[0] \in Slots /\ ~uinfo[hashhead[0]].active
<1> USE TableAssumption
<1> PICK pos : pos = hashhead[0]
  OBVIOUS
<1>1. pos \in Slots
  BY DEF Inv, TypeOK, Buckets, Slots
<1>2. 0 \in Buckets
  BY DEF Buckets
<1>3. Bucket(pos) = 0
  BY <1>2 DEF Inv, Sound, Partitioned
<1>4. ~uinfo[pos].active
  <2>1. uinfo[pos].active => uinfo[pos].uid \in Uids
    BY <1>1 DEF Inv, TypeOK
  <2>2. uinfo[pos].active => HashOf[uinfo[pos].uid] \in 1..H
    BY <2>1
  <2>3. uinfo[pos].active => HashOf[uinfo[pos].uid] = 0
    BY <1>3 DEF Bucket
  <2>4. QED BY <2>2, <2>3
<1>5. QED BY <1>1, <1>4

LEMMA ServeNewInv ==
  ASSUME Inv, SInv, ServeNew PROVE SInv'
<1> USE TableAssumption, SessionAssumption
<1>0. /\ queue # <<>> /\ client = Nobody /\ Head(queue).cmd = "new"
      /\ queue' = Tail(queue)
      /\ UNCHANGED <<proc, web, hup, kick, kicked, clobbered>>
  BY DEF ServeNew, Ready
<1> PICK r : r = Head(queue)
  OBVIOUS
<1> PICK pos : pos = hashhead[0]
  OBVIOUS
<1>1. /\ r \in Requests /\ ReqOK(r) /\ r.cmd = "new"
      /\ queue' \in Seq(Requests) /\ Elems(queue') \subseteq Elems(queue)
  BY <1>0, HeadFacts
<1>2. /\ pos \in Slots /\ ~uinfo[pos].active
      /\ uinfo \in [Slots -> [active : BOOLEAN, uid : Uids \cup Residue, pid : Pids]]
      /\ holder \in [Slots -> Clients \cup {Nobody}]
  <2>1. pos # 0 /\ ~stray
    BY DEF ServeNew, New
  <2>2. QED BY <2>1, FreeHead DEF Inv, TypeOK, SInv, STypeOK
<1>3. /\ uinfo' = [uinfo EXCEPT ![pos] = [active |-> TRUE, uid |-> r.uid, pid |-> r.pid]]
      /\ ret' = pos
      /\ holder' = [holder EXCEPT ![pos] = r.who]
      /\ client' = r.who
      /\ idle' = idle \ {pos}
  <2>1. New(r.uid, r.pid) /\ client' = r.who /\ idle' = idle \ {ret'}
        /\ holder' = [holder EXCEPT ![ret'] = r.who]
    BY DEF ServeNew
  <2>2. ret' = pos
        /\ uinfo' = [uinfo EXCEPT ![pos] = [active |-> TRUE, uid |-> r.uid, pid |-> r.pid]]
    BY <2>1 DEF New
  <2>3. QED BY <2>1, <2>2
<1>4. r.who \in Clients
  BY <1>1 DEF Requests
<1>5. STypeOK'
  <2>1. holder' \in [Slots -> Clients \cup {Nobody}]
    BY <1>2, <1>3, <1>4
  <2>2. QED BY <1>0, <1>1, <1>3, <1>4, <2>1 DEF SInv, STypeOK
<1>6. QueueOK' /\ KickOK'
  BY <1>0, <1>1, QueueKept, SameKick
<1>7. SlotsOK'
  BY <1>0, <1>1, <1>2, <1>3 DEF SInv, SlotsOK, ReqOK
<1>8. Listed'
  <2> SUFFICES ASSUME NEW t \in TelnetPids \ (kicked \cup clobbered)
               PROVE  /\ proc[t].st = "on" => EntryOf(t, proc[t].slot)'
                      /\ client' = t => EntryOf(t, ret)'
    BY <1>0 DEF Listed, EntryOf
  <2>1. ASSUME proc[t].st = "on" PROVE EntryOf(t, proc[t].slot)'
    <3> PICK x : x = proc[t].slot
      OBVIOUS
    <3>1. EntryOf(t, x)
      BY <2>1 DEF SInv, Listed
    <3>2. x \in Slots /\ x # pos
      BY <3>1, <1>2 DEF EntryOf
    <3>3. uinfo'[x] = uinfo[x] /\ holder'[x] = holder[x]
      BY <1>2, <1>3, <3>2
    <3>4. EntryOf(t, x)'
      BY <3>1, <3>3 DEF EntryOf
    <3>5. QED BY <1>0, <3>4 DEF EntryOf
  <2>2. ASSUME client' = t PROVE EntryOf(t, ret)'
    <3>1. r.who = t /\ r.pid = t /\ r.uid = UserOf[t]
      BY <1>1, <1>3, <2>2 DEF ReqOK
    <3>2. QED BY <1>2, <1>3, <3>1 DEF EntryOf
  <2>3. QED BY <2>1, <2>2
<1>9. QED BY <1>5, <1>6, <1>7, <1>8 DEF SInv

LEMMA ServeFullInv ==
  ASSUME SInv, ServeFull PROVE SInv'
<1> USE TableAssumption, SessionAssumption
<1>0. /\ queue # <<>> /\ client = Nobody /\ Head(queue).cmd = "new"
      /\ queue' = Tail(queue) /\ client' = Head(queue).who /\ ret' = NoSlot
      /\ UNCHANGED <<uinfo, proc, web, holder, idle, hup, kick, kicked, clobbered>>
  BY DEF ServeFull, Ready, NewFull
<1> PICK r : r = Head(queue)
  OBVIOUS
<1>1. /\ r \in Requests /\ ReqOK(r) /\ r.cmd = "new"
      /\ queue' \in Seq(Requests) /\ Elems(queue') \subseteq Elems(queue)
  BY <1>0, HeadFacts
<1>2. STypeOK'
  BY <1>0, <1>1 DEF SInv, STypeOK, Requests
<1>3. QueueOK' /\ KickOK'
  BY <1>0, <1>1, QueueKept, SameKick
<1>4. SlotsOK'
  BY <1>0, <1>1 DEF SInv, SlotsOK, ReqOK
<1>5. Listed'
  BY <1>0 DEF SInv, Listed, EntryOf
<1>6. QED BY <1>2, <1>3, <1>4, <1>5 DEF SInv

\* A step of utmpd that frees at most one entry, and no entry of a session
\* that is on or waits for its slot.
LEMMA FreeInv ==
  ASSUME SInv, STypeOK', QueueOK', NEW s \in Slots,
         \A x \in Slots : x # s => uinfo'[x] = uinfo[x],
         UNCHANGED <<proc, web, holder, kick, kicked, clobbered, client>>,
         client # Nobody => ret' = ret,
         uinfo'[s] = uinfo[s] \/
           \A t \in TelnetPids \ kicked :
             /\ uinfo[s].pid = t => proc[t].st \in {"leaving", "gone"}
  PROVE  SInv'
<1> USE TableAssumption, SessionAssumption
<1>1. KickOK'
  BY SameKick
<1>2. SlotsOK'
  BY DEF SInv, SlotsOK
<1>3. Listed'
  <2> SUFFICES ASSUME NEW t \in TelnetPids \ (kicked \cup clobbered)
               PROVE  /\ proc[t].st = "on" => EntryOf(t, proc[t].slot)'
                      /\ proc[t].st = "entering" /\ client = t /\ ret' # NoSlot
                           => EntryOf(t, ret)'
    BY DEF Listed, EntryOf
  <2>1. ASSUME NEW x, EntryOf(t, x), proc[t].st \in {"on", "entering"} PROVE EntryOf(t, x)'
    <3>1. x \in Slots /\ uinfo[x].pid = t
      BY <2>1 DEF EntryOf
    <3>2. uinfo'[x] = uinfo[x]
      BY <2>1, <3>1
    <3>3. QED BY <2>1, <3>2 DEF EntryOf
  <2>2. ASSUME proc[t].st = "on" PROVE EntryOf(t, proc[t].slot)'
    <3> PICK x : x = proc[t].slot
      OBVIOUS
    <3>1. EntryOf(t, x)'
      BY <2>1, <2>2 DEF SInv, Listed
    <3>2. QED BY <3>1 DEF EntryOf
  <2>3. ASSUME proc[t].st = "entering", client = t, ret' # NoSlot PROVE EntryOf(t, ret)'
    <3> PICK x : x = ret
      OBVIOUS
    <3>0. ret' = ret
      BY <2>3
    <3>1. EntryOf(t, x)'
      BY <2>1, <2>3, <3>0 DEF SInv, Listed
    <3>2. QED BY <3>0, <3>1 DEF EntryOf
  <2>4. QED BY <2>2, <2>3
<1>4. QED BY <1>1, <1>2, <1>3 DEF SInv

LEMMA ServeClrInv ==
  ASSUME Inv, SInv, ServeClr PROVE SInv'
<1> USE TableAssumption, SessionAssumption
<1>0. /\ queue # <<>> /\ client = Nobody /\ Head(queue).cmd = "clr"
      /\ queue' = Tail(queue)
      /\ UNCHANGED <<proc, web, client, holder, idle, hup, kick, kicked, clobbered>>
  BY DEF ServeClr, Ready
<1> PICK r : r = Head(queue)
  OBVIOUS
<1>1. /\ r \in Requests /\ ReqOK(r) /\ r.cmd = "clr"
      /\ queue' \in Seq(Requests) /\ Elems(queue') \subseteq Elems(queue)
  BY <1>0, HeadFacts
<1> PICK s : s = r.slot
  OBVIOUS
<1>2. s \in Slots
  BY <1>1 DEF ReqOK
<1>3. Clr(s, r.uid, r.pid)
  BY DEF ServeClr
<1>4. STypeOK'
  BY <1>0, <1>1 DEF SInv, STypeOK
<1>5. QueueOK'
  BY <1>0, <1>1, QueueKept
<1>6. \A x \in Slots : x # s => uinfo'[x] = uinfo[x]
  <2>1. uinfo \in [Slots -> [active : BOOLEAN, uid : Uids \cup Residue, pid : Pids]]
    BY DEF Inv, TypeOK
  <2>2. QED BY <1>2, <1>3, <2>1 DEF Clr, ClearEntry
<1>7. uinfo'[s] = uinfo[s] \/ uinfo[s].pid = r.pid
  BY <1>3 DEF Clr, ClrMatches
<1>8. \A t \in TelnetPids \ kicked : r.pid = t => proc[t].st \in {"leaving", "gone"}
  BY <1>1 DEF ReqOK
<1>9. QED BY <1>0, <1>2, <1>4, <1>5, <1>6, <1>7, <1>8, FreeInv

LEMMA SweepSInv ==
  ASSUME Inv, SInv, Sweep PROVE SInv'
<1> USE TableAssumption, SessionAssumption
<1> PICK s : s = sweep
  OBVIOUS
<1>1. s \in Slots /\ UNCHANGED svars /\ ret' = ret
  BY DEF Sweep, SweepClear, SweepSkip, Inv, TypeOK, Slots
<1>2. UNCHANGED <<proc, web, queue, client, holder, idle, hup, kick, kicked, clobbered>>
  BY <1>1 DEF svars
<1>3. STypeOK' /\ QueueOK'
  BY <1>2, QueueKept DEF SInv, STypeOK
<1>4. \A x \in Slots : x # s => uinfo'[x] = uinfo[x]
  <2>1. uinfo \in [Slots -> [active : BOOLEAN, uid : Uids \cup Residue, pid : Pids]]
    BY DEF Inv, TypeOK
  <2>2. QED BY <1>1, <2>1 DEF Sweep, SweepClear, SweepSkip, ClearEntry
<1>5. uinfo'[s] = uinfo[s] \/ \A t \in TelnetPids : uinfo[s].pid = t => proc[t].st = "gone"
  BY DEF Sweep, Sweepable, SweepSkip, WebPid
<1>6. QED BY <1>1, <1>2, <1>3, <1>4, <1>5, FreeInv

\* The answer reaches its client, if that still waits.
LEMMA HearFacts ==
  ASSUME SInv, NEW c \in Clients, NEW a \in {NoSlot} \cup Slots, Hear(c, a)
  PROVE  /\ proc' \in Procs /\ web' \in Webs
         /\ \A t \in TelnetPids :
              \/ proc'[t] = proc[t]
              \/ t = c /\ proc[t].st = "entering" /\ a = NoSlot /\ proc'[t].st = "gone"
              \/ t = c /\ proc[t].st = "entering" /\ a \in Slots
                 /\ proc'[t].st = "on" /\ proc'[t].slot = a
         /\ \A w \in Web : web'[w].st \in {"got", "on"} => web'[w].slot \in Slots
<1> USE TableAssumption, SessionAssumption
<1>1. /\ proc \in Procs /\ web \in Webs /\ NoSlot \notin Slots /\ Slots \subseteq 0..N
      /\ \A w \in Web : web[w].st \in {"got", "on"} => web[w].slot \in Slots
  BY DEF SInv, STypeOK, SlotsOK, NoSlot, Slots
<1>2. \A x : /\ a = NoSlot => Told(x, a) = [st |-> "gone", slot |-> 0]
             /\ a \in Slots /\ x \in TelnetPids => Told(x, a) = [st |-> "on", slot |-> a]
             /\ a \in Slots /\ x \in Web => Told(x, a) = [st |-> "got", slot |-> a]
  BY <1>1 DEF Told
<1>3. \A t \in TelnetPids :
        \/ proc'[t] = proc[t]
        \/ t = c /\ proc[t].st = "entering" /\ proc'[t] = Told(t, a)
  BY DEF Hear
<1>4. \A w \in Web : web'[w] = web[w] \/ web'[w] = Told(w, a)
  BY DEF Hear
<1>5. proc' \in Procs
  <2>1. \A t \in TelnetPids :
          proc'[t] \in [st : {"off", "entering", "on", "leaving", "gone"}, slot : 0..N]
    <3> SUFFICES ASSUME NEW t \in TelnetPids PROVE proc'[t] \in [st : {"off", "entering", "on", "leaving", "gone"}, slot : 0..N]
      OBVIOUS
    <3> PICK v : v = proc'[t]
      OBVIOUS
    <3>1. \/ v = proc[t]
          \/ v = [st |-> "gone", slot |-> 0]
          \/ v = [st |-> "on", slot |-> a] /\ a \in 0..N
      BY <1>1, <1>2, <1>3
    <3>2. v \in [st : {"off", "entering", "on", "leaving", "gone"}, slot : 0..N]
      <4>1. proc[t] \in [st : {"off", "entering", "on", "leaving", "gone"}, slot : 0..N]
        BY <1>1 DEF Procs
      <4>2. QED BY <3>1, <4>1
    <3>3. QED BY <3>2
  <2>2. proc' = [t \in TelnetPids |-> proc'[t]]
    BY DEF Hear
  <2>3. QED BY <2>1, <2>2 DEF Procs
<1>6. web' \in Webs
  <2>1. \A w \in Web : web'[w] \in [st : {"off", "entering", "got", "on", "gone"}, slot : 0..N]
    <3> SUFFICES ASSUME NEW w \in Web PROVE web'[w] \in [st : {"off", "entering", "got", "on", "gone"}, slot : 0..N]
      OBVIOUS
    <3> PICK v : v = web'[w]
      OBVIOUS
    <3>1. \/ v = web[w]
          \/ v = [st |-> "gone", slot |-> 0]
          \/ v = [st |-> "got", slot |-> a] /\ a \in 0..N
      BY <1>1, <1>2, <1>4
    <3>2. v \in [st : {"off", "entering", "got", "on", "gone"}, slot : 0..N]
      <4>1. web[w] \in [st : {"off", "entering", "got", "on", "gone"}, slot : 0..N]
        BY <1>1 DEF Webs
      <4>2. QED BY <3>1, <4>1
    <3>3. QED BY <3>2
  <2>2. web' = [w \in Web |-> web'[w]]
    BY DEF Hear
  <2>3. QED BY <2>1, <2>2 DEF Webs
<1>7. \A t \in TelnetPids :
        \/ proc'[t] = proc[t]
        \/ t = c /\ proc[t].st = "entering" /\ a = NoSlot /\ proc'[t].st = "gone"
        \/ t = c /\ proc[t].st = "entering" /\ a \in Slots
           /\ proc'[t].st = "on" /\ proc'[t].slot = a
  BY <1>2, <1>3
<1>8. \A w \in Web : web'[w].st \in {"got", "on"} => web'[w].slot \in Slots
  BY <1>1, <1>2, <1>4
<1>9. QED BY <1>5, <1>6, <1>7, <1>8

LEMMA ReplyInv ==
  ASSUME SInv, Reply PROVE SInv'
<1> USE TableAssumption, SessionAssumption
<1>0. /\ client \in Clients /\ ret \in {NoSlot} \cup Slots /\ Hear(client, ret)
      /\ UNCHANGED <<uinfo, ret, queue, holder, idle, hup, kick, kicked, clobbered>>
      /\ client' = Nobody
  BY DEF Reply, SInv, STypeOK, SlotsOK, tvars
<1>1. /\ proc' \in Procs /\ web' \in Webs
      /\ \A t \in TelnetPids :
           \/ proc'[t] = proc[t]
           \/ t = client /\ proc[t].st = "entering" /\ ret = NoSlot /\ proc'[t].st = "gone"
           \/ t = client /\ proc[t].st = "entering" /\ ret \in Slots
              /\ proc'[t].st = "on" /\ proc'[t].slot = ret
      /\ \A w \in Web : web'[w].st \in {"got", "on"} => web'[w].slot \in Slots
  BY <1>0, HearFacts
<1>2. STypeOK'
  BY <1>0, <1>1 DEF SInv, STypeOK
<1>3. QueueOK'
  BY <1>0, <1>1, QueueKept
<1>4. KickOK'
  BY <1>0, SameKick
<1>5. SlotsOK'
  BY <1>0, <1>1 DEF SInv, SlotsOK, Clients
<1>6. Listed'
  <2> SUFFICES ASSUME NEW t \in TelnetPids \ (kicked \cup clobbered), proc'[t].st = "on"
               PROVE  EntryOf(t, proc[t].slot)'
    BY <1>0 DEF Listed
  <2> PICK x : x = proc'[t].slot
    OBVIOUS
  <2>1. EntryOf(t, x)
    <3>1. CASE proc'[t] = proc[t]
      BY <3>1 DEF SInv, Listed
    <3>2. CASE t = client /\ proc[t].st = "entering" /\ ret \in Slots /\ proc'[t].slot = ret
      <4>1. ret # NoSlot
        BY <3>2 DEF Slots, NoSlot
      <4>2. QED BY <3>2, <4>1 DEF SInv, Listed
    <3>3. QED BY <1>1, <3>1, <3>2
  <2>2. EntryOf(t, x)'
    BY <1>0, <2>1 DEF EntryOf
  <2>3. QED BY <2>2 DEF EntryOf
<1>7. QED BY <1>2, <1>3, <1>4, <1>5, <1>6 DEF SInv

LEMMA DropInv ==
  ASSUME SInv, Drop PROVE SInv'
<1> USE TableAssumption, SessionAssumption
<1>0. /\ client = Nobody /\ queue # <<>> /\ queue' = Tail(queue)
      /\ UNCHANGED <<uinfo, ret, client, holder, idle, hup, kick, kicked, clobbered>>
      /\ Hear(Head(queue).who, NoSlot) \/ UNCHANGED <<proc, web>>
  BY DEF Drop, tvars
<1>1. /\ Head(queue).who \in Clients
      /\ queue' \in Seq(Requests) /\ Elems(queue') \subseteq Elems(queue)
  BY <1>0, HeadFacts DEF Requests
<1>2. /\ proc' \in Procs /\ web' \in Webs
      /\ \A t \in TelnetPids :
           \/ proc'[t] = proc[t]
           \/ proc[t].st = "entering" /\ proc'[t].st = "gone"
      /\ \A w \in Web : web'[w].st \in {"got", "on"} => web'[w].slot \in Slots
  <2>1. CASE Hear(Head(queue).who, NoSlot)
    <3>1. NoSlot \in {NoSlot} \cup Slots /\ NoSlot \notin Slots
      BY DEF NoSlot, Slots
    <3>2. QED BY <1>1, <2>1, <3>1, HearFacts
  <2>2. CASE UNCHANGED <<proc, web>>
    BY <2>2 DEF SInv, STypeOK, SlotsOK
  <2>3. QED BY <1>0, <2>1, <2>2
<1>3. STypeOK'
  BY <1>0, <1>1, <1>2 DEF SInv, STypeOK
<1>4. KickOK'
  BY <1>0, SameKick
<1>5. ProcStep
  BY <1>2 DEF ProcStep
<1>6. kicked \subseteq kicked' /\ \A r \in Elems(queue') : r \in Elems(queue)
  BY <1>0, <1>1
<1>7. QED BY <1>0, <1>2, <1>3, <1>4, <1>5, <1>6, Quiet

LEMMA StutterSInv ==
  ASSUME SInv, UNCHANGED allvars PROVE SInv'
<1>1. /\ UNCHANGED <<uinfo, ret, proc, web, queue, client, holder, idle, hup, kick, kicked, clobbered>>
  BY DEF allvars, svars, tvars
<1>2. STypeOK' /\ QueueOK' /\ KickOK'
  BY <1>1, QueueKept, SameKick DEF SInv, STypeOK
<1>3. SlotsOK' /\ Listed'
  BY <1>1 DEF SInv, SlotsOK, Listed, EntryOf
<1>4. QED BY <1>2, <1>3 DEF SInv

LEMMA SNextInv ==
  ASSUME Inv, SInv, [SNext]_allvars PROVE SInv'
<1>1. ASSUME NEW t \in TelnetPids, TelnetStep(t) PROVE SInv'
  BY <1>1, TelnetInv
<1>2. ASSUME NEW w \in Web, WebStep(w) PROVE SInv'
  BY <1>2, WebInv, WebSetPidInv DEF WebStep
<1>3. ASSUME NEW s \in Slots, Idle(s) PROVE SInv'
  BY <1>3, IdleInv
<1>4. ASSUME UtmpdStep PROVE SInv'
  BY <1>4, ServeNewInv, ServeFullInv, ServeClrInv, SweepSInv, ReplyInv, DropInv DEF UtmpdStep
<1>5. ASSUME NEW k \in Kickers, KickStep(k) PROVE SInv'
  BY <1>5, KickQuietInv, KickKillInv, KickClearInv DEF KickStep
<1>6. CASE UNCHANGED allvars
  BY <1>6, StutterSInv
<1>7. QED BY <1>1, <1>2, <1>3, <1>4, <1>5, <1>6 DEF SNext

\* Every step of the sessions is a step of the table, or leaves it alone.
LEMMA TableStep ==
  ASSUME SInv, [SNext]_allvars PROVE [Next]_tvars
<1> USE TableAssumption, SessionAssumption
<1>1. ASSUME NEW t \in TelnetPids, TelnetStep(t) PROVE UNCHANGED tvars
  BY <1>1 DEF TelnetStep, Enter, EnterTimeout, Leave, HangUp, Die
<1>2. ASSUME NEW w \in Web, WebStep(w) PROVE [Next]_tvars
  <2>1. CASE WebSetPid(w)
    <3>1. web[w].slot \in Slots /\ SetWebPid(web[w].slot)
      BY <2>1 DEF WebSetPid, SInv, SlotsOK
    <3>2. QED BY <3>1 DEF Next
  <2>2. CASE ~WebSetPid(w)
    <3>1. UNCHANGED tvars
      BY <1>2, <2>2 DEF WebStep, WebEnter, WebTimeout, Page, WebLeave
    <3>2. QED BY <3>1
  <2>3. QED BY <2>1, <2>2
<1>3. ASSUME NEW s \in Slots, Idle(s) PROVE UNCHANGED tvars
  BY <1>3 DEF Idle
<1>4. ASSUME UtmpdStep PROVE [Next]_tvars
  <2>1. CASE ServeNew
    <3> PICK r : r = Head(queue)
      OBVIOUS
    <3>1. r \in Requests /\ ReqOK(r) /\ r.cmd = "new"
      BY <2>1, HeadFacts DEF ServeNew, Ready
    <3>2. r.uid \in Uids /\ r.pid \in Pids \ {WebPid}
      BY <3>1 DEF Requests, ReqOK, Clients, Pids, WebPid
    <3>3. New(r.uid, r.pid)
      BY <2>1 DEF ServeNew
    <3>4. QED BY <3>2, <3>3 DEF Next
  <2>2. CASE ServeFull
    BY <2>2 DEF ServeFull, Next
  <2>3. CASE ServeClr
    <3> PICK r : r = Head(queue)
      OBVIOUS
    <3>1. r \in Requests /\ ReqOK(r) /\ r.cmd = "clr"
      BY <2>3, HeadFacts DEF ServeClr, Ready
    <3>2. r.slot \in Slots /\ r.uid \in Uids \cup Residue /\ r.pid \in Pids
      BY <3>1 DEF Requests, ReqOK
    <3>3. Clr(r.slot, r.uid, r.pid)
      BY <2>3 DEF ServeClr
    <3>4. QED BY <3>2, <3>3 DEF Next
  <2>4. CASE Sweep
    <3>1. CASE Sweepable(sweep)
      <4>1. SweepClear
        BY <2>4, <3>1 DEF Sweep
      <4>2. QED BY <4>1 DEF Next
    <3>2. CASE ~Sweepable(sweep)
      <4>1. SweepSkip
        BY <2>4, <3>2 DEF Sweep
      <4>2. QED BY <4>1 DEF Next
    <3>3. QED BY <3>1, <3>2
  <2>5. CASE Reply \/ Drop
    BY <2>5 DEF Reply, Drop
  <2>6. QED BY <1>4, <2>1, <2>2, <2>3, <2>4, <2>5 DEF UtmpdStep
<1>5. ASSUME NEW k \in Kickers, KickStep(k) PROVE UNCHANGED tvars
  BY <1>5 DEF KickStep, KickStart, KickOne, KickWalk, KickWalked, KickCheck, KickKill, KickClear, KickReturn
<1>6. CASE UNCHANGED allvars
  BY <1>6 DEF allvars
<1>7. QED BY <1>1, <1>2, <1>3, <1>4, <1>5, <1>6 DEF SNext

-----------------------------------------------------------------------------
(***************************************************************************)
(* Who an entry belongs to.  A process logs in once: while its request is  *)
(* in the backlog or being served, it waits or has given up and was told   *)
(* no slot.  So utmpd gives it one entry at most, and when it is told a    *)
(* slot, that is the entry.                                                *)
(***************************************************************************)
Sess(c) == IF c \in Web THEN web[c] ELSE proc[c]

\* The places of c's login requests in the backlog.
Asked(q, c) == {i \in 1..Len(q) : q[i].cmd = "new" /\ q[i].who = c}

OnceIn(q, c) == \A i, j \in Asked(q, c) : i = j

Waits(c) == Sess(c).st \in {"entering", "gone"} /\ Sess(c).slot = 0

AskOnce ==
  \A c \in Clients :
    /\ OnceIn(queue, c)
    /\ Asked(queue, c) # {} => Waits(c) /\ client # c
    /\ client = c => Waits(c)
    /\ Sess(c).st \in {"off", "entering"} => Sess(c).slot = 0

\* c waits for slot s, knows it, or is gone; a web session that is gone or
\* on knows of no entry whose pid it has not set.
Knows(c, s) ==
  \/ Sess(c).st = "entering"
  \/ Sess(c).st = "gone" /\ (c \in Web => Sess(c).slot = 0)
  \/ Sess(c).st \in {"on", "leaving", "got"} /\ Sess(c).slot = s /\ (c \in Web => Sess(c).st = "got")

Given(s) ==
  uinfo[s].pid # WebPid =>
    /\ holder[s] \in Clients
    /\ uinfo[s].pid = IF holder[s] \in Web THEN 0 ELSE holder[s]
    /\ Asked(queue, holder[s]) = {}
    /\ client = holder[s] => ret = s
    /\ Knows(holder[s], s)

Owned == \A s \in Active : Given(s)

OwnInv == AskOnce /\ Owned

\* How a client moves in a step that tells nobody a slot and starts no login.
Move(c) ==
  \/ Sess(c)' = Sess(c)
  \/ /\ Sess(c)'.slot = Sess(c).slot
     /\ \/ Sess(c)'.st = "gone" /\ (c \in Web => Sess(c).st \in {"entering", "on"})
        \/ c \notin Web /\ Sess(c).st = "on" /\ Sess(c)'.st = "leaving"

LEMMA AskedFacts ==
  ASSUME NEW q \in Seq(Requests), NEW c
  PROVE  /\ \A r \in Requests :
              Asked(Append(q, r), c) = IF r.cmd = "new" /\ r.who = c
                                         THEN Asked(q, c) \cup {Len(q) + 1} ELSE Asked(q, c)
         /\ q # <<>> =>
              /\ OnceIn(q, c) => OnceIn(Tail(q), c)
              /\ Asked(Tail(q), c) # {} => Asked(q, c) # {}
              /\ Head(q).cmd = "new" /\ Head(q).who = c =>
                   Asked(q, c) # {} /\ (OnceIn(q, c) => Asked(Tail(q), c) = {})
<1>1. Len(q) \in Nat
  BY LenProperties
<1>2. ASSUME NEW r \in Requests
      PROVE  Asked(Append(q, r), c) = IF r.cmd = "new" /\ r.who = c
                                        THEN Asked(q, c) \cup {Len(q) + 1} ELSE Asked(q, c)
  <2> DEFINE a == Append(q, r)
  <2>1. /\ Len(a) = Len(q) + 1 /\ a[Len(q) + 1] = r
        /\ \A i \in 1..Len(q) : a[i] = q[i]
    BY <1>1
  <2>2. 1..Len(a) = (1..Len(q)) \cup {Len(q) + 1}
    BY <1>1, <2>1
  <2> HIDE DEF a
  <2>3. QED BY <2>1, <2>2 DEF Asked, a
<1>3. ASSUME q # <<>>
      PROVE  /\ OnceIn(q, c) => OnceIn(Tail(q), c)
             /\ Asked(Tail(q), c) # {} => Asked(q, c) # {}
             /\ Head(q).cmd = "new" /\ Head(q).who = c =>
                  Asked(q, c) # {} /\ (OnceIn(q, c) => Asked(Tail(q), c) = {})
  <2> DEFINE b == Tail(q)
  <2>1. /\ Len(q) \in Nat \ {0} /\ Head(q) = q[1] /\ Len(b) = Len(q) - 1
        /\ \A i \in 1..Len(b) : b[i] = q[i + 1]
    BY <1>1, <1>3, EmptySeq, HeadTailProperties
  <2> HIDE DEF b
  <2>2. \A i \in Asked(b, c) : i + 1 \in Asked(q, c) /\ i + 1 # 1 /\ i \in Int
    BY <2>1 DEF Asked
  <2>3. OnceIn(q, c) => OnceIn(b, c)
    BY <2>2 DEF OnceIn
  <2>4. Head(q).cmd = "new" /\ Head(q).who = c => 1 \in Asked(q, c)
    BY <2>1 DEF Asked
  <2>5. QED BY <2>2, <2>3, <2>4 DEF OnceIn, b
<1>4. QED BY <1>2, <1>3

\* Nobody begins a login, and nobody is told a slot.
LEMMA QuietOwn ==
  ASSUME OwnInv, uinfo' = uinfo, ret' = ret, holder' = holder, client' = client,
         \A c \in Clients : Move(c),
         \A c \in Clients : /\ OnceIn(queue', c)
                            /\ Asked(queue', c) # {} => Asked(queue, c) # {}
  PROVE  OwnInv'
<1>1. \A c \in Clients : Sess(c).st \in {"off", "entering"} => Sess(c).slot = 0
  BY DEF OwnInv, AskOnce
<1>2. AskOnce'
  <2> SUFFICES ASSUME NEW c \in Clients
               PROVE  /\ Asked(queue', c) # {} => Waits(c)' /\ client' # c
                      /\ client' = c => Waits(c)'
                      /\ Sess(c)'.st \in {"off", "entering"} => Sess(c)'.slot = 0
    BY DEF AskOnce
  <2>1. Waits(c) => Waits(c)'
    BY DEF Waits, Move
  <2>2. QED BY <1>1, <2>1 DEF OwnInv, AskOnce, Move
<1>3. ASSUME NEW c \in Clients, NEW s, Knows(c, s) PROVE Knows(c, s)'
  BY <1>1, <1>3 DEF Knows, Move
<1>4. Owned'
  <2> SUFFICES ASSUME NEW s \in Active, uinfo[s].pid # WebPid PROVE Given(s)'
    BY DEF Owned, Active, Given
  <2>1. /\ holder[s] \in Clients
        /\ uinfo[s].pid = IF holder[s] \in Web THEN 0 ELSE holder[s]
        /\ Asked(queue, holder[s]) = {}
        /\ client = holder[s] => ret = s
        /\ Knows(holder[s], s)
    BY DEF OwnInv, Owned, Given
  <2>2. Knows(holder[s], s)'
    <3> PICK c : c = holder[s]
      OBVIOUS
    <3>1. Knows(c, s)'
      BY <1>3, <2>1
    <3>2. QED BY <3>1 DEF Knows, Sess
  <2>3. Asked(queue', holder[s]) = {}
    BY <2>1
  <2>4. QED BY <2>1, <2>2, <2>3 DEF Given
<1>5. QED BY <1>2, <1>4 DEF OwnInv

\* The requests of such a step: none, or a logout.
LEMMA NoLogin ==
  ASSUME STypeOK, OwnInv,
         \/ queue' = queue
         \/ \E r \in Requests : r.cmd = "clr" /\ queue' = Append(queue, r)
  PROVE  \A c \in Clients : /\ OnceIn(queue', c)
                            /\ Asked(queue', c) # {} => Asked(queue, c) # {}
<1>1. \A c \in Clients : Asked(queue', c) = Asked(queue, c)
  <2>1. CASE queue' = queue
    BY <2>1
  <2>2. ASSUME NEW r \in Requests, r.cmd = "clr", queue' = Append(queue, r), NEW c \in Clients
        PROVE  Asked(queue', c) = Asked(queue, c)
    <3>1. queue \in Seq(Requests)
      BY DEF STypeOK
    <3>2. Asked(Append(queue, r), c) = Asked(queue, c)
      BY <2>2, <3>1, AskedFacts
    <3>3. QED BY <2>2, <3>2
  <2>3. QED BY <2>1, <2>2
<1>2. QED BY <1>1 DEF OwnInv, AskOnce, OnceIn

LEMMA TelnetMove ==
  ASSUME STypeOK, NEW t \in TelnetPids, NEW x \in {"gone", "leaving"},
         proc' = [proc EXCEPT ![t].st = x], web' = web, x = "leaving" => proc[t].st = "on"
  PROVE  \A c \in Clients : Move(c)
<1> USE SessionAssumption
<1>1. \A y \in TelnetPids : /\ y # t => proc'[y] = proc[y]
                            /\ y = t => proc'[y].st = x /\ proc'[y].slot = proc[y].slot
  BY DEF STypeOK, Procs
<1>2. QED BY <1>1 DEF Move, Sess, Clients

LEMMA WebMove ==
  ASSUME STypeOK, NEW w \in Web, web' = [web EXCEPT ![w].st = "gone"], proc' = proc,
         web[w].st \in {"entering", "on"}
  PROVE  \A c \in Clients : Move(c)
<1> USE SessionAssumption
<1>1. \A v \in Web : /\ v # w => web'[v] = web[v]
                     /\ v = w => web'[v].st = "gone" /\ web'[v].slot = web[v].slot
  BY DEF STypeOK, Webs
<1>2. QED BY <1>1 DEF Move, Sess, Clients

LEMMA NoMove ==
  ASSUME proc' = proc, web' = web
  PROVE  \A c \in Clients : Move(c)
BY DEF Move, Sess

LEMMA ExitMove ==
  ASSUME SInv, NEW t \in TelnetPids, ExitOf(t), web' = web
  PROVE  /\ \A c \in Clients : Move(c)
         /\ \/ queue' = queue
            \/ \E r \in Requests : r.cmd = "clr" /\ queue' = Append(queue, r)
<1> USE TableAssumption, SessionAssumption
<1>0. STypeOK
  BY DEF SInv
<1>1. CASE proc[t].st = "on"
  <2> PICK r : r = ClrReq(t, proc[t].slot, UserOf[t], t)
    OBVIOUS
  <2>1. proc' = [proc EXCEPT ![t].st = "leaving"] /\ queue' = Append(queue, r)
    BY <1>1 DEF ExitOf, Send
  <2>2. r \in Requests /\ r.cmd = "clr"
    BY <1>1 DEF ClrReq, Requests, Clients, Pids, SInv, SlotsOK, Slots
  <2>3. \A c \in Clients : Move(c)
    BY <1>0, <1>1, <2>1, TelnetMove
  <2>4. QED BY <2>1, <2>2, <2>3
<1>2. CASE proc[t].st # "on"
  <2>1. proc' = [proc EXCEPT ![t].st = "gone"] /\ queue' = queue
    BY <1>2 DEF ExitOf
  <2>2. QED BY <1>0, <2>1, TelnetMove
<1>3. QED BY <1>1, <1>2

\* A login begins.
LEMMA LoginOwn ==
  ASSUME SInv, OwnInv, NEW c \in Clients, Sess(c).st = "off",
         Sess(c)'.st = "entering", Sess(c)'.slot = Sess(c).slot,
         \A d \in Clients \ {c} : Sess(d)' = Sess(d),
         uinfo' = uinfo, ret' = ret, holder' = holder, client' = client,
         NEW r \in Requests, r.cmd = "new", r.who = c, queue' = Append(queue, r)
  PROVE  OwnInv'
<1>1. queue \in Seq(Requests) /\ Len(queue) \in Nat
  BY LenProperties DEF SInv, STypeOK
<1>2. \A d \in Clients : Asked(queue', d) = IF d = c THEN Asked(queue, d) \cup {Len(queue) + 1}
                                            ELSE Asked(queue, d)
  BY <1>1, AskedFacts
<1>3. Asked(queue, c) = {} /\ client # c /\ Sess(c).slot = 0
  BY DEF OwnInv, AskOnce, Waits
<1>4. AskOnce'
  <2> SUFFICES ASSUME NEW d \in Clients
               PROVE  /\ OnceIn(queue', d)
                      /\ Asked(queue', d) # {} => Waits(d)' /\ client' # d
                      /\ client' = d => Waits(d)'
                      /\ Sess(d)'.st \in {"off", "entering"} => Sess(d)'.slot = 0
    BY DEF AskOnce
  <2>1. CASE d = c
    BY <1>2, <1>3, <2>1 DEF OnceIn, Waits
  <2>2. CASE d # c
    BY <1>2, <2>2 DEF OwnInv, AskOnce, OnceIn, Waits
  <2>3. QED BY <2>1, <2>2
<1>5. Owned'
  <2> SUFFICES ASSUME NEW s \in Active, uinfo[s].pid # WebPid PROVE Given(s)'
    BY DEF Owned, Active, Given
  <2> PICK d : d = holder[s]
    OBVIOUS
  <2>1. /\ d \in Clients /\ uinfo[s].pid = IF d \in Web THEN 0 ELSE d
        /\ Asked(queue, d) = {} /\ (client = d => ret = s) /\ Knows(d, s)
    BY DEF OwnInv, Owned, Given
  <2>2. d # c
    BY <2>1 DEF Knows
  <2>3. Knows(d, s)' /\ Asked(queue', d) = {}
    BY <1>2, <2>1, <2>2 DEF Knows
  <2>4. Knows(holder[s], s)'
    BY <2>3 DEF Knows, Sess
  <2>5. QED BY <2>1, <2>3, <2>4 DEF Given
<1>6. QED BY <1>4, <1>5 DEF OwnInv

LEMMA TelnetOwn ==
  ASSUME SInv, OwnInv, NEW t \in TelnetPids, TelnetStep(t)
  PROVE  OwnInv'
<1> USE TableAssumption, SessionAssumption
<1>0. STypeOK /\ t \in Clients /\ t \notin Web
  BY DEF SInv, Clients
<1>1. CASE Enter(t)
  <2> PICK r : r = NewReq(t, UserOf[t], t)
    OBVIOUS
  <2>1. /\ proc' = [proc EXCEPT ![t].st = "entering"] /\ queue' = Append(queue, r)
        /\ proc[t].st = "off" /\ web' = web
        /\ uinfo' = uinfo /\ ret' = ret /\ holder' = holder /\ client' = client
    BY <1>1 DEF Enter, Send, tvars
  <2>2. r \in Requests /\ r.cmd = "new" /\ r.who = t
    BY DEF NewReq, Requests, Clients, Pids
  <2>3. \A y \in TelnetPids :
          /\ y # t => proc'[y] = proc[y]
          /\ y = t => proc'[y].st = "entering" /\ proc'[y].slot = proc[y].slot
    BY <1>0, <2>1 DEF STypeOK, Procs
  <2>4. /\ Sess(t).st = "off" /\ Sess(t)'.st = "entering" /\ Sess(t)'.slot = Sess(t).slot
        /\ \A d \in Clients \ {t} : Sess(d)' = Sess(d)
    BY <1>0, <2>1, <2>3 DEF Sess, Clients
  <2>5. QED BY <1>0, <2>1, <2>2, <2>4, LoginOwn
<1>2. CASE EnterTimeout(t)
  BY <1>0, <1>2, TelnetMove, NoLogin, QuietOwn DEF EnterTimeout, tvars
<1>3. CASE Leave(t)
  BY <1>0, <1>3, ExitMove, NoLogin, QuietOwn DEF Leave, tvars
<1>4. CASE HangUp(t)
  BY <1>0, <1>4, ExitMove, NoLogin, QuietOwn DEF HangUp, tvars
<1>5. CASE Die(t)
  BY <1>0, <1>5, TelnetMove, NoLogin, QuietOwn DEF Die, tvars
<1>6. QED BY <1>1, <1>2, <1>3, <1>4, <1>5 DEF TelnetStep

LEMMA WebOwn ==
  ASSUME SInv, OwnInv, NEW w \in Web, WebEnter(w) \/ WebTimeout(w) \/ Page(w) \/ WebLeave(w)
  PROVE  OwnInv'
<1> USE TableAssumption, SessionAssumption
<1>0. STypeOK /\ w \in Clients
  BY DEF SInv, Clients
<1>1. CASE WebEnter(w)
  <2> PICK r : r = NewReq(w, WebUser[w], 0)
    OBVIOUS
  <2>1. /\ web' = [web EXCEPT ![w].st = "entering"] /\ queue' = Append(queue, r)
        /\ web[w].st = "off" /\ proc' = proc
        /\ uinfo' = uinfo /\ ret' = ret /\ holder' = holder /\ client' = client
    BY <1>1 DEF WebEnter, Send, tvars
  <2>2. r \in Requests /\ r.cmd = "new" /\ r.who = w
    BY DEF NewReq, Requests, Clients, Pids
  <2>3. \A v \in Web :
          /\ v # w => web'[v] = web[v]
          /\ v = w => web'[v].st = "entering" /\ web'[v].slot = web[v].slot
    BY <1>0, <2>1 DEF STypeOK, Webs
  <2>4. /\ Sess(w).st = "off" /\ Sess(w)'.st = "entering" /\ Sess(w)'.slot = Sess(w).slot
        /\ \A d \in Clients \ {w} : Sess(d)' = Sess(d)
    BY <2>1, <2>3 DEF Sess
  <2>5. QED BY <1>0, <2>1, <2>2, <2>4, LoginOwn
<1>2. CASE WebTimeout(w)
  BY <1>0, <1>2, WebMove, NoLogin, QuietOwn DEF WebTimeout, tvars
<1>3. CASE Page(w)
  BY <1>0, <1>3, NoMove, NoLogin, QuietOwn DEF Page, tvars
<1>4. CASE WebLeave(w)
  <2> PICK r : r = ClrReq(w, web[w].slot, WebUser[w], WebPid)
    OBVIOUS
  <2>1. web[w].slot \in Slots /\ web[w].st = "on"
    BY <1>4 DEF WebLeave, PageOK, SInv, SlotsOK
  <2>2. r \in Requests /\ r.cmd = "clr"
    BY <2>1 DEF ClrReq, Requests, Clients, Pids, Slots
  <2>3. /\ web' = [web EXCEPT ![w].st = "gone"] /\ queue' = Append(queue, r) /\ proc' = proc
        /\ uinfo' = uinfo /\ ret' = ret /\ holder' = holder /\ client' = client
    BY <1>4 DEF WebLeave, Send, tvars
  <2>4. QED BY <1>0, <2>1, <2>2, <2>3, WebMove, NoLogin, QuietOwn
<1>5. QED BY <1>1, <1>2, <1>3, <1>4

LEMMA KickOwn ==
  ASSUME SInv, OwnInv, NEW k \in Kickers, KickStep(k)
  PROVE  OwnInv'
<1> USE TableAssumption, SessionAssumption
<1>0. STypeOK /\ k \in TelnetPids
  BY DEF SInv
<1>1. CASE \/ \E u \in Uids, sig \in Signals : KickStart(k, u, sig)
           \/ \E u \in (Uids \cup Residue) \ {0}, s \in Slots : KickOne(k, u, s)
           \/ KickWalk(k) \/ KickWalked(k) \/ KickCheck(k) \/ KickReturn(k)
  <2>1. UNCHANGED <<tvars, proc, web, queue, client, holder>>
    BY <1>1 DEF KickStart, KickOne, KickWalk, KickWalked, KickCheck, KickReturn
  <2>2. QED BY <1>0, <2>1, NoMove, NoLogin, QuietOwn DEF tvars
<1>2. CASE KickKill(k)
  <2>1. UNCHANGED <<tvars, web, client, holder>>
    BY <1>2 DEF KickKill
  <2> PICK hit : hit = IF uinfo[kick[k].todo[1][1]].pid = 0 THEN Group[k]
                       ELSE {uinfo[kick[k].todo[1][1]].pid} \cap TelnetPids
    OBVIOUS
  <2>0. hit \in SUBSET TelnetPids
    BY GroupAssumption
  <2>2. \/ UNCHANGED <<proc, queue>>
        \/ Killed(hit) /\ UNCHANGED queue
        \/ ExitOf(k)
    BY <1>2, ZenonT(30) DEF KickKill, Killed
  <2>3. CASE UNCHANGED <<proc, queue>>
    BY <1>0, <2>1, <2>3, NoMove, NoLogin, QuietOwn DEF tvars
  <2>4. CASE Killed(hit) /\ UNCHANGED queue
    <3>1. \A c \in Clients : Move(c)
      <4>1. proc \in Procs
        BY <1>0 DEF STypeOK
      <4>2. \A t \in TelnetPids :
              IF t \in hit THEN proc'[t].st = "gone" /\ proc'[t].slot = proc[t].slot
              ELSE proc'[t] = proc[t]
        BY <2>0, <2>4, <4>1, KilledFacts
      <4>3. QED BY <2>1, <4>2 DEF Move, Sess, Clients
    <3>2. QED BY <1>0, <2>1, <2>4, <3>1, NoLogin, QuietOwn DEF tvars
  <2>5. CASE ExitOf(k)
    BY <1>0, <2>1, <2>5, ExitMove, NoLogin, QuietOwn DEF tvars
  <2>6. QED BY <2>2, <2>3, <2>4, <2>5
<1>3. CASE KickClear(k)
  <2> PICK c : c = kick[k]
    OBVIOUS
  <2>1. /\ c \in Kicks /\ KickFine(c) /\ c.pc = "clear" /\ c.todo \in Seq(Saved)
    BY <1>3 DEF KickClear, Kicks, SInv, STypeOK, KickOK
  <2>2. c.todo # <<>> /\ c.uid \in Uids \cup Residue
    BY <2>1 DEF KickFine, Kicks
  <2>3. c.todo[1] \in Saved
    BY <2>1, <2>2, ElemsFacts
  <2> PICK r : r = ClrReq(k, c.todo[1][1], c.uid, c.todo[1][2])
    OBVIOUS
  <2>4. r \in Requests /\ r.cmd = "clr"
    BY <2>2, <2>3 DEF ClrReq, Requests, Clients, Slots, Saved
  <2>5. queue' = Append(queue, r) /\ UNCHANGED <<tvars, proc, web, client, holder>>
    BY <1>3 DEF KickClear, Send
  <2>6. QED BY <1>0, <2>4, <2>5, NoMove, NoLogin, QuietOwn DEF tvars
<1>4. QED BY <1>1, <1>2, <1>3 DEF KickStep

(***************************************************************************)
(* utmpd, and the write of a web login into its entry.                     *)
(***************************************************************************)
LEMMA ServedOwn ==
  ASSUME SInv, OwnInv, queue # <<>>, queue' = Tail(queue)
  PROVE  \A c \in Clients : /\ OnceIn(queue', c)
                            /\ Asked(queue', c) # {} => Asked(queue, c) # {}
                            /\ Head(queue).cmd = "new" /\ Head(queue).who = c =>
                                 Asked(queue, c) # {} /\ Asked(queue', c) = {}
<1>1. queue \in Seq(Requests)
  BY DEF SInv, STypeOK
<1>2. QED BY <1>1, AskedFacts DEF OwnInv, AskOnce

LEMMA ServeNewOwn ==
  ASSUME Inv, SInv, OwnInv, ServeNew PROVE OwnInv'
<1> USE TableAssumption, SessionAssumption
<1>0. /\ queue # <<>> /\ client = Nobody /\ Head(queue).cmd = "new" /\ queue' = Tail(queue)
      /\ proc' = proc /\ web' = web
  BY DEF ServeNew, Ready
<1> PICK r : r = Head(queue)
  OBVIOUS
<1> PICK pos : pos = hashhead[0]
  OBVIOUS
<1>1. r \in Requests /\ ReqOK(r) /\ r.cmd = "new" /\ r.who \in Clients
  BY <1>0, HeadFacts DEF Requests
<1>2. /\ pos \in Slots /\ ~uinfo[pos].active
      /\ uinfo \in [Slots -> [active : BOOLEAN, uid : Uids \cup Residue, pid : Pids]]
      /\ holder \in [Slots -> Clients \cup {Nobody}]
  <2>1. pos # 0 /\ ~stray
    BY DEF ServeNew, New
  <2>2. QED BY <2>1, FreeHead DEF Inv, TypeOK, SInv, STypeOK
<1>3. /\ uinfo' = [uinfo EXCEPT ![pos] = [active |-> TRUE, uid |-> r.uid, pid |-> r.pid]]
      /\ ret' = pos /\ client' = r.who /\ holder' = [holder EXCEPT ![pos] = r.who]
  <2>1. New(r.uid, r.pid) /\ client' = r.who /\ holder' = [holder EXCEPT ![ret'] = r.who]
    BY DEF ServeNew
  <2>2. /\ ret' = pos
        /\ uinfo' = [uinfo EXCEPT ![pos] = [active |-> TRUE, uid |-> r.uid, pid |-> r.pid]]
    BY <2>1 DEF New
  <2>3. QED BY <2>1, <2>2
<1>4. \A c \in Clients : /\ OnceIn(queue', c)
                         /\ Asked(queue', c) # {} => Asked(queue, c) # {}
                         /\ c = r.who => Asked(queue, c) # {} /\ Asked(queue', c) = {}
  BY <1>0, <1>1, ServedOwn
<1>5. Waits(r.who)
  BY <1>1, <1>4 DEF OwnInv, AskOnce
<1>6. AskOnce'
  <2> SUFFICES ASSUME NEW c \in Clients
               PROVE  /\ Asked(queue', c) # {} => Waits(c) /\ client' # c
                      /\ client' = c => Waits(c)
                      /\ Sess(c).st \in {"off", "entering"} => Sess(c).slot = 0
    BY <1>0, <1>4 DEF AskOnce, Waits, Sess
  <2>1. QED BY <1>3, <1>4, <1>5 DEF OwnInv, AskOnce
<1>7. Owned'
  <2> SUFFICES ASSUME NEW s \in Active', uinfo'[s].pid # WebPid PROVE Given(s)'
    BY DEF Owned, Given
  <2>0. s \in Slots /\ uinfo'[s].active
    BY DEF Active
  <2>1. CASE s = pos
    <3>1. holder'[s] = r.who /\ uinfo'[s].pid = r.pid /\ ret' = s
      BY <1>2, <1>3, <2>1
    <3>2. r.pid = IF r.who \in Web THEN 0 ELSE r.who
      BY <1>1 DEF ReqOK, Clients
    <3>3. Knows(r.who, s)'
      BY <1>0, <1>5 DEF Waits, Knows, Sess
    <3>4. Knows(holder[s], s)'
      BY <3>1, <3>3 DEF Knows, Sess
    <3>5. QED BY <1>1, <1>4, <3>1, <3>2, <3>4 DEF Given, Knows, Sess
  <2>2. CASE s # pos
    <3>1. uinfo'[s] = uinfo[s] /\ holder'[s] = holder[s]
      BY <1>2, <1>3, <2>0, <2>2
    <3> PICK d : d = holder[s]
      OBVIOUS
    <3>2. /\ d \in Clients /\ uinfo[s].pid = IF d \in Web THEN 0 ELSE d
          /\ Asked(queue, d) = {} /\ Knows(d, s)
      BY <2>0, <3>1 DEF OwnInv, Owned, Given, Active
    <3>3. d # r.who /\ Asked(queue', d) = {} /\ client' # d
      BY <1>3, <1>4, <3>2
    <3>4. Knows(d, s)'
      BY <1>0, <3>2 DEF Knows, Sess
    <3>5. QED BY <3>1, <3>2, <3>3, <3>4 DEF Given, Knows, Sess
  <2>3. QED BY <2>1, <2>2
<1>8. QED BY <1>6, <1>7 DEF OwnInv

LEMMA ServeFullOwn ==
  ASSUME SInv, OwnInv, ServeFull PROVE OwnInv'
<1>0. /\ queue # <<>> /\ Head(queue).cmd = "new" /\ queue' = Tail(queue)
      /\ client' = Head(queue).who /\ client = Nobody
      /\ UNCHANGED <<uinfo, proc, web, holder>>
  BY DEF ServeFull, Ready, NewFull
<1> PICK r : r = Head(queue)
  OBVIOUS
<1>1. r.who \in Clients
  BY <1>0, HeadFacts DEF Requests
<1>2. \A c \in Clients : /\ OnceIn(queue', c)
                         /\ Asked(queue', c) # {} => Asked(queue, c) # {}
                         /\ c = r.who => Asked(queue, c) # {} /\ Asked(queue', c) = {}
  BY <1>0, <1>1, ServedOwn
<1>3. AskOnce'
  <2> SUFFICES ASSUME NEW c \in Clients
               PROVE  /\ Asked(queue', c) # {} => Waits(c) /\ client' # c
                      /\ client' = c => Waits(c)
                      /\ Sess(c).st \in {"off", "entering"} => Sess(c).slot = 0
    BY <1>0, <1>2 DEF AskOnce, Waits, Sess
  <2>1. QED BY <1>0, <1>2 DEF OwnInv, AskOnce
<1>4. Owned'
  <2> SUFFICES ASSUME NEW s \in Active, uinfo[s].pid # WebPid PROVE Given(s)'
    BY <1>0 DEF Owned, Active, Given
  <2> PICK d : d = holder[s]
    OBVIOUS
  <2>1. /\ d \in Clients /\ uinfo[s].pid = IF d \in Web THEN 0 ELSE d
        /\ Asked(queue, d) = {} /\ Knows(d, s)
    BY DEF OwnInv, Owned, Given
  <2>2. d # r.who /\ Asked(queue', d) = {} /\ client' # d
    BY <1>0, <1>2, <2>1
  <2>3. QED BY <1>0, <2>1, <2>2 DEF Given, Knows, Sess
<1>5. QED BY <1>3, <1>4 DEF OwnInv

\* Entries are freed at most, and the answer under way stays as it is.
LEMMA FreeOwn ==
  ASSUME OwnInv, UNCHANGED <<proc, web, holder, client>>, client # Nobody => ret' = ret,
         \A s \in Active' : s \in Active /\ uinfo'[s] = uinfo[s],
         \A c \in Clients : /\ OnceIn(queue', c)
                            /\ Asked(queue', c) # {} => Asked(queue, c) # {}
  PROVE  OwnInv'
<1> USE SessionAssumption
<1>1. AskOnce'
  <2> SUFFICES ASSUME NEW c \in Clients
               PROVE  /\ Asked(queue', c) # {} => Waits(c) /\ client # c
                      /\ client = c => Waits(c)
                      /\ Sess(c).st \in {"off", "entering"} => Sess(c).slot = 0
    BY DEF AskOnce, Waits, Sess
  <2>1. QED BY DEF OwnInv, AskOnce
<1>2. Owned'
  <2> SUFFICES ASSUME NEW s \in Active', uinfo'[s].pid # WebPid PROVE Given(s)'
    BY DEF Owned, Given
  <2> PICK d : d = holder[s]
    OBVIOUS
  <2>1. /\ d \in Clients /\ uinfo[s].pid = IF d \in Web THEN 0 ELSE d
        /\ Asked(queue, d) = {} /\ Knows(d, s) /\ (client = d => ret = s)
    BY DEF OwnInv, Owned, Given
  <2>2. client = d => client # Nobody
    BY <2>1 DEF Clients
  <2>3. QED BY <2>1, <2>2 DEF Given, Knows, Sess
<1>3. QED BY <1>1, <1>2 DEF OwnInv

\* clear_utmp2 empties one entry.
LEMMA ClearedOnly ==
  ASSUME Inv, NEW s \in Slots, ClearEntry(s)
  PROVE  \A x \in Active' : x \in Active /\ uinfo'[x] = uinfo[x]
<1>1. uinfo \in [Slots -> [active : BOOLEAN, uid : Uids \cup Residue, pid : Pids]]
  BY DEF Inv, TypeOK
<1>2. QED BY <1>1 DEF ClearEntry, Active

LEMMA ServeClrOwn ==
  ASSUME Inv, SInv, OwnInv, ServeClr PROVE OwnInv'
<1>0. /\ queue # <<>> /\ client = Nobody /\ Head(queue).cmd = "clr" /\ queue' = Tail(queue)
      /\ UNCHANGED <<proc, web, holder, client>>
  BY DEF ServeClr, Ready
<1> PICK r : r = Head(queue)
  OBVIOUS
<1> PICK s : s = r.slot
  OBVIOUS
<1>1. s \in Slots
  BY <1>0, HeadFacts DEF ReqOK
<1>2. Clr(s, r.uid, r.pid)
  BY DEF ServeClr
<1>3. \A x \in Active' : x \in Active /\ uinfo'[x] = uinfo[x]
  <2>1. CASE ClrMatches(s, r.uid, r.pid)
    BY <1>1, <1>2, <2>1, ClearedOnly DEF Clr
  <2>2. CASE ~ClrMatches(s, r.uid, r.pid)
    BY <1>2, <2>2 DEF Clr, Active
  <2>3. QED BY <2>1, <2>2
<1>4. QED BY <1>0, <1>3, ServedOwn, FreeOwn

LEMMA SweepOwn ==
  ASSUME Inv, SInv, OwnInv, Sweep PROVE OwnInv'
<1>1. /\ UNCHANGED <<proc, web, holder, client, queue>> /\ ret' = ret
      /\ SweepClear \/ SweepSkip
  BY DEF Sweep, svars, SweepClear, SweepSkip
<1>2. \A x \in Active' : x \in Active /\ uinfo'[x] = uinfo[x]
  <2>1. CASE SweepClear
    <3> PICK s : s = sweep
      OBVIOUS
    <3>1. s \in Slots /\ ClearEntry(s)
      BY <2>1, TableAssumption DEF SweepClear, Inv, TypeOK, Slots
    <3>2. QED BY <3>1, ClearedOnly
  <2>2. CASE SweepSkip
    BY <2>2 DEF SweepSkip, Active
  <2>3. QED BY <1>1, <2>1, <2>2
<1>3. QED BY <1>1, <1>2, FreeOwn DEF OwnInv, AskOnce

LEMMA HearSess ==
  ASSUME NEW c, NEW a, Hear(c, a), NEW d \in Clients
  PROVE  Sess(d)' = IF d = c /\ Sess(d).st = "entering" THEN Told(d, a) ELSE Sess(d)
BY SessionAssumption DEF Hear, Sess, Clients

LEMMA ReplyOwn ==
  ASSUME SInv, OwnInv, Reply PROVE OwnInv'
<1> USE TableAssumption, SessionAssumption
<1>0. /\ client \in Clients /\ Hear(client, ret) /\ client' = Nobody
      /\ UNCHANGED <<uinfo, ret, queue, holder>>
      /\ ret \in {NoSlot} \cup Slots
  BY DEF Reply, SInv, STypeOK, SlotsOK, tvars
<1>1. Asked(queue, client) = {} /\ Waits(client)
  BY <1>0 DEF OwnInv, AskOnce
<1>2. \A d \in Clients :
        \/ Sess(d)' = Sess(d)
        \/ d = client /\ Sess(d).st = "entering" /\ Sess(d)' = Told(d, ret)
  BY <1>0, HearSess
<1>3. Told(client, ret).st \in {"gone", "got", "on"}
  BY DEF Told
<1>4. AskOnce'
  <2> SUFFICES ASSUME NEW c \in Clients
               PROVE  /\ OnceIn(queue, c)
                      /\ Asked(queue, c) # {} => Waits(c)'
                      /\ Sess(c)'.st \in {"off", "entering"} => Sess(c)'.slot = 0
    BY <1>0 DEF AskOnce, Clients
  <2>1. CASE Sess(c)' = Sess(c)
    BY <2>1 DEF OwnInv, AskOnce, Waits
  <2>2. CASE c = client /\ Sess(c)' = Told(client, ret)
    BY <1>1, <1>3, <2>2 DEF OwnInv, AskOnce
  <2>3. QED BY <1>2, <2>1, <2>2
<1>5. Owned'
  <2> SUFFICES ASSUME NEW s \in Active, uinfo[s].pid # WebPid PROVE Given(s)'
    BY <1>0 DEF Owned, Active, Given
  <2> PICK d : d = holder[s]
    OBVIOUS
  <2>1. /\ d \in Clients /\ uinfo[s].pid = IF d \in Web THEN 0 ELSE d
        /\ Asked(queue, d) = {} /\ Knows(d, s) /\ (client = d => ret = s)
    BY DEF OwnInv, Owned, Given
  <2>2. Knows(d, s)'
    <3>1. CASE Sess(d)' = Sess(d)
      BY <2>1, <3>1 DEF Knows
    <3>2. CASE d = client /\ Sess(d)' = Told(d, ret)
      <4>1. s \in Slots /\ ret = s
        BY <2>1, <3>2 DEF Active
      <4>2. ret # NoSlot
        BY <4>1 DEF Slots, NoSlot
      <4>3. Sess(d)' = [st |-> IF d \in Web THEN "got" ELSE "on", slot |-> s]
        BY <3>2, <4>1, <4>2 DEF Told
      <4>4. QED BY <4>3 DEF Knows
    <3>3. QED BY <1>2, <2>1, <3>1, <3>2
  <2>3. client' # d /\ holder'[s] = d /\ uinfo'[s] = uinfo[s] /\ queue' = queue
    BY <1>0, <2>1 DEF Clients
  <2>4. Knows(holder[s], s)'
    BY <2>2, <2>3 DEF Knows, Sess
  <2>5. QED BY <2>1, <2>3, <2>4 DEF Given, Knows, Sess
<1>6. QED BY <1>4, <1>5 DEF OwnInv

LEMMA DropOwn ==
  ASSUME SInv, OwnInv, Drop PROVE OwnInv'
<1>0. /\ client = Nobody /\ queue # <<>> /\ queue' = Tail(queue)
      /\ UNCHANGED <<uinfo, ret, client, holder>>
      /\ Hear(Head(queue).who, NoSlot) \/ UNCHANGED <<proc, web>>
  BY DEF Drop, tvars
<1>1. \A c \in Clients : Move(c)
  <2>1. CASE Hear(Head(queue).who, NoSlot)
    <3> SUFFICES ASSUME NEW c \in Clients PROVE Move(c)
      OBVIOUS
    <3>1. \/ Sess(c)' = Sess(c)
          \/ Sess(c).st = "entering" /\ Sess(c)' = Told(c, NoSlot)
      BY <2>1, HearSess
    <3>2. Sess(c).st = "entering" => Sess(c).slot = 0
      BY DEF OwnInv, AskOnce
    <3>3. Told(c, NoSlot).st = "gone" /\ Told(c, NoSlot).slot = 0
      BY DEF Told
    <3>4. QED BY <3>1, <3>2, <3>3 DEF Move
  <2>2. CASE UNCHANGED <<proc, web>>
    BY <2>2, NoMove
  <2>3. QED BY <1>0, <2>1, <2>2
<1>2. QED BY <1>0, <1>1, ServedOwn, QuietOwn

LEMMA WebSetPidOwn ==
  ASSUME Inv, SInv, OwnInv, NEW w \in Web, WebSetPid(w) PROVE OwnInv'
<1> USE TableAssumption, SessionAssumption
<1>0. /\ web \in Webs /\ web[w].st = "got"
      /\ uinfo \in [Slots -> [active : BOOLEAN, uid : Uids \cup Residue, pid : Pids]]
  BY DEF SInv, STypeOK, WebSetPid, Inv, TypeOK
<1> PICK x : x = web[w].slot
  OBVIOUS
<1>1. /\ web' = [web EXCEPT ![w].st = "on"]
      /\ uinfo' = [uinfo EXCEPT ![x].pid = WebPid]
      /\ UNCHANGED <<ret, proc, queue, client, holder>>
  BY DEF WebSetPid, SetWebPid
<1>2. /\ \A d \in Clients \ {w} : Sess(d)' = Sess(d)
      /\ Sess(w)'.st = "on" /\ Sess(w).st = "got" /\ Sess(w).slot = x /\ w \in Clients
  BY <1>0, <1>1 DEF Sess, Clients, Webs
<1>3. AskOnce'
  <2> SUFFICES ASSUME NEW c \in Clients
               PROVE  /\ OnceIn(queue, c)
                      /\ Asked(queue, c) # {} => Waits(c)' /\ client # c
                      /\ client = c => Waits(c)'
                      /\ Sess(c)'.st \in {"off", "entering"} => Sess(c)'.slot = 0
    BY <1>1 DEF AskOnce
  <2>1. CASE c = w
    BY <1>2, <2>1 DEF OwnInv, AskOnce, Waits
  <2>2. CASE c # w
    BY <1>2, <2>2 DEF OwnInv, AskOnce, Waits
  <2>3. QED BY <2>1, <2>2
<1>4. Owned'
  <2> SUFFICES ASSUME NEW s \in Active', uinfo'[s].pid # WebPid PROVE Given(s)'
    BY DEF Owned, Given
  <2>1. s \in Slots /\ s # x /\ uinfo'[s] = uinfo[s]
    BY <1>0, <1>1 DEF Active
  <2> PICK d : d = holder[s]
    OBVIOUS
  <2>2. /\ d \in Clients /\ uinfo[s].pid = IF d \in Web THEN 0 ELSE d
        /\ Asked(queue, d) = {} /\ Knows(d, s) /\ (client = d => ret = s)
    BY <2>1 DEF OwnInv, Owned, Given, Active
  <2>3. d # w
    BY <1>2, <2>1, <2>2 DEF Knows
  <2>4. Knows(d, s)'
    BY <1>2, <2>2, <2>3 DEF Knows
  <2>5. Knows(holder[s], s)'
    BY <1>1, <2>4 DEF Knows, Sess
  <2>6. QED BY <1>1, <2>1, <2>2, <2>5 DEF Given, Knows, Sess
<1>5. QED BY <1>3, <1>4 DEF OwnInv

LEMMA OwnInit == SInit => OwnInv
<1> SUFFICES ASSUME SInit PROVE OwnInv
  OBVIOUS
<1> USE SessionAssumption
<1>1. \A c : Asked(queue, c) = {}
  <2>1. Len(queue) = 0
    BY EmptySeq DEF SInit
  <2>2. QED BY <2>1 DEF Asked
<1>2. \A c \in Clients : Sess(c) = [st |-> "off", slot |-> 0] /\ client # c
  BY DEF SInit, Sess, Clients
<1>3. Active = {}
  BY DEF SInit, Init, Active
<1>4. QED BY <1>1, <1>2, <1>3 DEF OwnInv, AskOnce, OnceIn, Owned

LEMMA OwnNext ==
  ASSUME Inv, SInv, OwnInv, [SNext]_allvars PROVE OwnInv'
<1>1. ASSUME NEW t \in TelnetPids, TelnetStep(t) PROVE OwnInv'
  BY <1>1, TelnetOwn
<1>2. ASSUME NEW w \in Web, WebStep(w) PROVE OwnInv'
  BY <1>2, WebOwn, WebSetPidOwn DEF WebStep
<1>3. ASSUME UNCHANGED <<tvars, proc, web, queue, client, holder>> PROVE OwnInv'
  BY <1>3, NoMove, NoLogin, QuietOwn DEF SInv, tvars
<1>4. ASSUME NEW s \in Slots, Idle(s) PROVE OwnInv'
  BY <1>3, <1>4 DEF Idle
<1>5. ASSUME UtmpdStep PROVE OwnInv'
  BY <1>5, ServeNewOwn, ServeFullOwn, ServeClrOwn, SweepOwn, ReplyOwn, DropOwn DEF UtmpdStep
<1>6. ASSUME NEW k \in Kickers, KickStep(k) PROVE OwnInv'
  BY <1>6, KickOwn
<1>7. CASE UNCHANGED allvars
  BY <1>3, <1>7 DEF allvars, svars
<1>8. QED BY <1>1, <1>2, <1>4, <1>5, <1>6, <1>7 DEF SNext

-----------------------------------------------------------------------------
(***************************************************************************)
(* The inductive invariant: that of the table, and that of the sessions.   *)
(***************************************************************************)
THEOREM SessionInvariant == SSpec => [](Inv /\ SInv)
<1>1. SInit => Inv /\ SInv
  BY InitInv, SInitInv DEF SInit
<1>2. ASSUME Inv, SInv, [SNext]_allvars PROVE Inv' /\ SInv'
  <2>1. [Next]_tvars
    BY <1>2, TableStep
  <2>2. Inv'
    BY <1>2, <2>1, NextInv
  <2>3. SInv'
    BY <1>2, SNextInv
  <2>4. QED BY <2>2, <2>3
<1>3. QED BY <1>1, <1>2, PTL DEF SSpec

(***************************************************************************)
(* Whatever the sessions, kickers and clean-ups do, at whatever moment a   *)
(* client gives up or dies, they use the table only as utmpd does; so all  *)
(* that UtmpTable_proofs shows of Spec holds of the running system.        *)
(***************************************************************************)
THEOREM SessionsUseTable == SSpec => TableSpec
<1>1. SInit => Init
  BY DEF SInit
<1>2. SInv /\ [SNext]_allvars => [Next]_tvars
  BY TableStep
<1>3. QED BY SessionInvariant, <1>1, <1>2, PTL DEF SSpec, TableSpec, Spec

\* Clients, requests and kickers stay in the states their programs have, and
\* name only slots of the table (STypeOK).
THEOREM SessionTypeCorrect == SSpec => []STypeOK
<1>1. Inv /\ SInv => STypeOK
  BY DEF SInv
<1>2. QED BY SessionInvariant, <1>1, PTL

(***************************************************************************)
(* A session that is on, that nobody kicked and that no late web login     *)
(* overwrote is in the table under the slot it was told (OnlineListed).    *)
(***************************************************************************)
THEOREM OnlineStaysListed == SSpec => []OnlineListed
<1>1. Inv /\ SInv => OnlineListed
  BY DEF SInv, Listed, OnlineListed, EntryOf
<1>2. QED BY SessionInvariant, <1>1, PTL

LEMMA OwnHolds == SSpec => []OwnInv
<1>1. Inv /\ SInv /\ OwnInv /\ [SNext]_allvars => OwnInv'
  BY OwnNext
<1>2. QED BY <1>1, OwnInit, SessionInvariant, PTL DEF SSpec

(***************************************************************************)
(* No entry of a telnet session is lost for good: its process knows the    *)
(* slot, still waits for it, or is gone so that the clean-up frees it      *)
(* (Reclaimable).                                                          *)
(***************************************************************************)
THEOREM EntriesReclaimable == SSpec => []Reclaimable
<1>1. OwnInv => Reclaimable
  <2> SUFFICES ASSUME OwnInv, NEW s \in Active, uinfo[s].pid \in TelnetPids
               PROVE  \/ proc[uinfo[s].pid].st \in {"entering", "gone"}
                      \/ proc[uinfo[s].pid].slot = s
    BY DEF Reclaimable
  <2> USE TableAssumption, SessionAssumption
  <2>1. uinfo[s].pid # WebPid /\ uinfo[s].pid # 0 /\ uinfo[s].pid \notin Web
    BY DEF WebPid
  <2>2. uinfo[s].pid = holder[s] /\ Knows(holder[s], s)
    BY <2>1 DEF OwnInv, Owned, Given
  <2>3. QED BY <2>1, <2>2 DEF Knows, Sess
<1>2. QED BY <1>1, OwnHolds, PTL

(***************************************************************************)
(* An entry keeps pid 0, at which the clean-up never looks, only while the *)
(* web login it belongs to is under way or never got its answer            *)
(* (PidZeroUnanswered).                                                    *)
(***************************************************************************)
THEOREM PidZeroOnlyUnanswered == SSpec => []PidZeroUnanswered
<1>1. OwnInv => PidZeroUnanswered
  <2> SUFFICES ASSUME OwnInv, NEW s \in Active, uinfo[s].pid = 0
               PROVE  \/ web[holder[s]].st \in {"entering", "got"}
                      \/ web[holder[s]].slot = 0
    BY DEF PidZeroUnanswered
  <2> USE TableAssumption, SessionAssumption
  <2>1. /\ holder[s] \in Clients /\ Knows(holder[s], s)
        /\ uinfo[s].pid = IF holder[s] \in Web THEN 0 ELSE holder[s]
    BY DEF OwnInv, Owned, Given, WebPid
  <2>2. holder[s] \in Web
    BY <2>1 DEF Clients
  <2>3. QED BY <2>1, <2>2 DEF Knows, Sess
<1>2. QED BY <1>1, OwnHolds, PTL
=============================================================================
