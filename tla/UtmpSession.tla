---------------------------- MODULE UtmpSession ----------------------------
(***************************************************************************)
(* The processes around the session table: telnet and ssh sessions (u_enter *)
(* and u_exit of src/newmain_single.c), web sessions (www_user_login and    *)
(* www_user_logoff of php/bbslib.c), kick_user_utmp of libBBS/utmp.c, and   *)
(* the loop of utmpd, which serves their requests one at a time.  A client  *)
(* waits five seconds for the answer and then carries on without it, so a   *)
(* request can be served after its client has given up or died.             *)
(*                                                                         *)
(* A process is known by its pid and logs in once; pids are not reused.     *)
(* clear_utmp ignores the answer, so its callers are free to go on as soon  *)
(* as the request is sent.  When a clear request has met a slot that is not *)
(* in use (stray), utmpd serves nothing more in this model.                 *)
(***************************************************************************)
EXTENDS UtmpTable, Sequences

CONSTANTS
  UserOf,   \* the user a telnet process logs in as
  Web,      \* web sessions
  WebUser,  \* and their users
  Kickers,  \* the telnet processes that run kick_user_utmp
  Group,    \* the process group of each process: for telnet itself (setsid)
  MaxKick,  \* size of the arrays in struct kickuser_save (10)
  Signals,  \* the signals they send: "hup", or "kill"
  Backlog,  \* connections that wait for utmpd's accept (listen(m_socket, 5))
  Nobody

ASSUME SessionAssumption ==
  /\ UserOf \in [TelnetPids -> Uids]
  /\ WebUser \in [Web -> Uids]
  /\ Kickers \subseteq TelnetPids
  /\ MaxKick \in Nat \ {0}
  /\ Signals \subseteq {"hup", "kill"}
  /\ Backlog \in Nat \ {0}
  /\ Web \cap TelnetPids = {}
  /\ Nobody \notin Web \cup TelnetPids

ASSUME GroupAssumption ==
  /\ Group \in [TelnetPids -> SUBSET TelnetPids]
  /\ \A t \in TelnetPids : t \in Group[t]

VARIABLES
  proc,      \* telnet process: st and, once it is told, slot
  web,       \* web session: the same
  queue,     \* connections utmpd has not accepted yet, oldest first
  client,    \* whose UTMP_NEW utmpd is working on
  holder,    \* the session a slot was last given to; stands for utmpkey
  idle,      \* web slots whose freshtime is IDLE_TIMEOUT ago
  hup,       \* telnet processes with a SIGHUP pending
  kick,      \* the call of kick_user_utmp each kicker is in
  kicked,    \* history: processes that a kicker saved or signalled
  clobbered  \* history: processes whose entry a late web login wrote its pid into

svars == <<proc, web, queue, client, holder, idle, hup, kick, kicked, clobbered>>
allvars == <<tvars, svars>>

Clients == TelnetPids \cup Web
Saved   == Slots \X Pids    \* an entry and the pid it had

Procs == [TelnetPids -> [st : {"off", "entering", "on", "leaving", "gone"}, slot : 0..N]]
Webs  == [Web -> [st : {"off", "entering", "got", "on", "gone"}, slot : 0..N]]

Requests == [cmd : {"new", "clr"}, who : Clients, uid : Uids \cup Residue, pid : Pids, slot : 0..N]
Kicks    == [pc : {"idle", "walk", "check", "kill", "clear", "done"}, uid : Uids \cup Residue,
             sig : {"hup", "kill"}, at : 0..N, todo : Seq(Saved), count : Nat,
             own : Seq(Saved)]

\* connect, which waits while the backlog is full, and write.
Send(r) == Len(queue) < Backlog /\ queue' = Append(queue, r)

NewReq(c, u, p)    == [cmd |-> "new", who |-> c, uid |-> u, pid |-> p, slot |-> 0]
ClrReq(c, s, u, p) == [cmd |-> "clr", who |-> c, uid |-> u, pid |-> p, slot |-> s]
NoKick == [pc |-> "idle", uid |-> 0, sig |-> "hup", at |-> 0, todo |-> <<>>,
           count |-> 0, own |-> <<>>]
KickCall(u, sig, a) == [pc |-> "walk", uid |-> u, sig |-> sig, at |-> a, todo |-> <<>>,
                        count |-> 0, own |-> <<>>]

SInit ==
  /\ Init
  /\ proc      = [t \in TelnetPids |-> [st |-> "off", slot |-> 0]]
  /\ web       = [w \in Web |-> [st |-> "off", slot |-> 0]]
  /\ queue     = <<>>
  /\ client    = Nobody
  /\ holder    = [s \in Slots |-> Nobody]
  /\ idle      = {}
  /\ hup       = {}
  /\ kick      = [k \in Kickers |-> NoKick]
  /\ kicked    = {}
  /\ clobbered = {}

Kicking(t) == t \in Kickers /\ kick[t].pc # "idle"

-----------------------------------------------------------------------------
(* Telnet processes. *)

\* u_enter: getnewutmpent sends UTMP_NEW and waits.
Enter(t) ==
  /\ proc[t].st = "off"
  /\ ~Kicking(t)
  /\ proc'  = [proc EXCEPT ![t].st = "entering"]
  /\ Send(NewReq(t, UserOf[t], t))
  /\ UNCHANGED <<tvars, web, client, holder, idle, hup, kick, kicked, clobbered>>

\* Mutant of EnterTimeout: the login is tried again with the same pid.
MutRetry(t) ==
  /\ proc[t].st = "entering"
  /\ proc' = [proc EXCEPT ![t].st = "off"]
  /\ UNCHANGED <<tvars, web, queue, client, holder, idle, hup, kick, kicked, clobbered>>

\* sendutmpreq has waited five seconds: u_enter gets -1 and exits.
EnterTimeout(t) ==
  /\ proc[t].st = "entering"
  /\ proc' = [proc EXCEPT ![t].st = "gone"]
  /\ UNCHANGED <<tvars, web, queue, client, holder, idle, hup, kick, kicked, clobbered>>

\* abort_bbs, the handler of SIGHUP, and the ways out of the menus.  A
\* process that has not started, or is past u_exit's SIG_DFL, just dies.
ExitOf(t) ==
  IF proc[t].st = "on"
    THEN /\ proc'  = [proc EXCEPT ![t].st = "leaving"]
         /\ Send(ClrReq(t, proc[t].slot, UserOf[t], t))
    ELSE /\ proc'  = [proc EXCEPT ![t].st = "gone"]
         /\ UNCHANGED queue

StopKick(t) == kick' = [k \in Kickers |-> IF k = t THEN NoKick ELSE kick[k]]

\* Mutant of Leave: the process clears its entry in the shared memory itself.
MutLeaveDirect(t) ==
  /\ proc[t].st = "on"
  /\ ~Kicking(t)
  /\ ExitOf(t)
  /\ uinfo' = [uinfo EXCEPT ![proc[t].slot] = [active |-> FALSE, uid |-> 0, pid |-> 0]]
  /\ UNCHANGED <<links, number, sweep, ret, stray>>
  /\ UNCHANGED <<web, client, holder, idle, hup, kick, kicked, clobbered>>

\* u_exit on a logout.
Leave(t) ==
  /\ proc[t].st = "on"
  /\ ~Kicking(t)
  /\ ExitOf(t)
  /\ UNCHANGED <<tvars, web, client, holder, idle, hup, kick, kicked, clobbered>>

HangUp(t) ==
  /\ t \in hup
  /\ hup' = hup \ {t}
  /\ ExitOf(t)
  /\ StopKick(t)
  /\ UNCHANGED <<tvars, web, client, holder, idle, kicked, clobbered>>

\* The process ends: after clear_utmp has returned, or because it crashed.
Die(t) ==
  /\ proc[t].st \in {"on", "leaving"}
  /\ proc' = [proc EXCEPT ![t].st = "gone"]
  /\ hup'  = hup \ {t}
  /\ StopKick(t)
  /\ UNCHANGED <<tvars, web, queue, client, holder, idle, kicked, clobbered>>

-----------------------------------------------------------------------------
(* Web sessions. *)

WebEnter(w) ==
  /\ web[w].st = "off"
  /\ web'   = [web EXCEPT ![w].st = "entering"]
  /\ Send(NewReq(w, WebUser[w], 0))
  /\ UNCHANGED <<tvars, proc, client, holder, idle, hup, kick, kicked, clobbered>>

WebTimeout(w) ==
  /\ web[w].st = "entering"
  /\ web' = [web EXCEPT ![w].st = "gone"]
  /\ UNCHANGED <<tvars, proc, queue, client, holder, idle, hup, kick, kicked, clobbered>>

\* Mutant of WebSetPid: the pid is not set.
MutNoPid(w) ==
  /\ web[w].st = "got"
  /\ web' = [web EXCEPT ![w].st = "on"]
  /\ UNCHANGED <<tvars, proc, queue, client, holder, idle, hup, kick, kicked, clobbered>>

\* u->pid = 1, some time after the answer came.
WebSetPid(w) ==
  /\ web[w].st = "got"
  /\ SetWebPid(web[w].slot)
  /\ web' = [web EXCEPT ![w].st = "on"]
  /\ clobbered' = clobbered \cup ({holder[web[w].slot]} \cap TelnetPids)
  /\ UNCHANGED <<proc, queue, client, holder, idle, hup, kick, kicked>>

\* www_user_init accepts the slot and key that the browser sends.
PageOK(w) ==
  /\ web[w].st = "on"
  /\ holder[web[w].slot] = w
  /\ uinfo[web[w].slot].active
  /\ uinfo[web[w].slot].pid = WebPid

Page(w) ==
  /\ PageOK(w)
  /\ idle' = idle \ {web[w].slot}
  /\ UNCHANGED <<tvars, proc, web, queue, client, holder, hup, kick, kicked, clobbered>>

Idle(s) ==
  /\ uinfo[s].pid = WebPid
  /\ s \notin idle
  /\ idle' = idle \cup {s}
  /\ UNCHANGED <<tvars, proc, web, queue, client, holder, hup, kick, kicked, clobbered>>

\* www_user_logoff, after www_user_init let the request in.
WebLeave(w) ==
  /\ PageOK(w)
  /\ web'   = [web EXCEPT ![w].st = "gone"]
  /\ Send(ClrReq(w, web[w].slot, WebUser[w], WebPid))
  /\ idle'  = idle \ {web[w].slot}
  /\ UNCHANGED <<tvars, proc, client, holder, hup, kick, kicked, clobbered>>

-----------------------------------------------------------------------------
(* utmpd. *)

Ready(cmd) == client = Nobody /\ queue # <<>> /\ Head(queue).cmd = cmd

ServeNew ==
  /\ Ready("new")
  /\ LET r == Head(queue)
     IN  /\ New(r.uid, r.pid)
         /\ holder' = [holder EXCEPT ![ret'] = r.who]
         /\ client' = r.who
  /\ idle'  = idle \ {ret'}
  /\ queue' = Tail(queue)
  /\ UNCHANGED <<proc, web, hup, kick, kicked, clobbered>>

ServeFull ==
  /\ Ready("new")
  /\ NewFull
  /\ client' = Head(queue).who
  /\ queue'  = Tail(queue)
  /\ UNCHANGED <<proc, web, holder, idle, hup, kick, kicked, clobbered>>

ServeClr ==
  /\ Ready("clr")
  /\ LET r == Head(queue) IN Clr(r.slot, r.uid, r.pid)
  /\ queue' = Tail(queue)
  /\ UNCHANGED <<proc, web, client, holder, idle, hup, kick, kicked, clobbered>>

\* Mutant of Sweepable: nobody asks whether the process is still there.
MutSweepAll(s) == uinfo[s].active /\ uinfo[s].pid # 0

\* kill(pid, 0) fails, or a web session has been idle for too long.
Sweepable(s) ==
  /\ uinfo[s].active
  /\ \/ uinfo[s].pid \in TelnetPids /\ proc[uinfo[s].pid].st = "gone"
     \/ uinfo[s].pid = WebPid /\ s \in idle

Sweep ==
  /\ sweep # 0
  /\ IF Sweepable(sweep) THEN SweepClear ELSE SweepSkip
  /\ UNCHANGED svars

\* Mutant of Told: the answer -1 is taken for a slot.
MutTold(c, a) == [st |-> IF c \in Web THEN "got" ELSE "on", slot |-> a]

\* What its client makes of the answer a, when it still waits for it.
Told(c, a) == IF a = NoSlot THEN [st |-> "gone", slot |-> 0]
              ELSE [st |-> IF c \in Web THEN "got" ELSE "on", slot |-> a]

Hear(c, a) ==
  /\ proc' = [t \in TelnetPids |-> IF t = c /\ proc[t].st = "entering" THEN Told(t, a)
                                   ELSE proc[t]]
  /\ web'  = [w \in Web |-> IF w = c /\ web[w].st = "entering" THEN Told(w, a) ELSE web[w]]

\* putrequest, once getnewutmpent2 and its clean-up loop are done.
Reply ==
  /\ client # Nobody
  /\ sweep = 0
  /\ Hear(client, ret)
  /\ client' = Nobody
  /\ UNCHANGED <<tvars, queue, holder, idle, hup, kick, kicked, clobbered>>

\* getutmprequest gives a connection up when its request does not come
\* within a second; the client reads nothing and takes it for -1.
Drop ==
  /\ client = Nobody
  /\ queue # <<>>
  /\ IF Head(queue).cmd = "new" THEN Hear(Head(queue).who, NoSlot) ELSE UNCHANGED <<proc, web>>
  /\ queue' = Tail(queue)
  /\ UNCHANGED <<tvars, client, holder, idle, hup, kick, kicked, clobbered>>

-----------------------------------------------------------------------------
(* kick_user_utmp, run by k. *)

\* kick_user_utmp(u, NULL, sig): all sessions of user u.
KickStart(k, u, sig) ==
  /\ proc[k].st \in {"off", "on"}
  /\ kick[k].pc = "idle"
  /\ kick' = [kick EXCEPT ![k] = KickCall(u, sig, hashhead[HashOf[u]])]
  /\ UNCHANGED <<tvars, proc, web, queue, client, holder, idle, hup, kicked, clobbered>>

\* kick_user_utmp(u, uentp, 0): the one session in slot s, which k found there
\* when it last looked; whoever is there now is the one that is remembered.
KickOne(k, u, s) ==
  /\ proc[k].st \in {"off", "on"}
  /\ kick[k].pc = "idle"
  /\ LET p == uinfo[s].pid
     IN  /\ kick'   = [kick EXCEPT ![k] = [NoKick EXCEPT !.pc = "check", !.uid = u,
                                             !.todo = <<<<s, p>>>>, !.count = 1]]
         /\ kicked' = kicked \cup ({p} \cap TelnetPids)
  /\ UNCHANGED <<tvars, proc, web, queue, client, holder, idle, hup, clobbered>>

\* One turn of the loop of apply_utmp, with kickuser_count, without a lock.
KickWalk(k) ==
  /\ kick[k].pc = "walk"
  /\ kick[k].at # 0
  /\ LET c     == kick[k]
         e     == uinfo[c.at]
         match == e.active /\ e.uid = c.uid
         quit  == match /\ c.count + 1 >= MaxKick
     IN  /\ kick' = [kick EXCEPT ![k] =
              [c EXCEPT !.todo  = IF match THEN Append(@, <<c.at, e.pid>>) ELSE @,
                        !.count = IF match THEN @ + 1 ELSE @,
                        !.at    = IF quit THEN 0 ELSE next[c.at]]]
         /\ kicked' = IF match THEN kicked \cup ({e.pid} \cap TelnetPids) ELSE kicked
  /\ UNCHANGED <<tvars, proc, web, queue, client, holder, idle, hup, clobbered>>

KickWalked(k) ==
  /\ kick[k].pc = "walk"
  /\ kick[k].at = 0
  /\ kick' = [kick EXCEPT ![k].pc = "check"]
  /\ UNCHANGED <<tvars, proc, web, queue, client, holder, idle, hup, kicked, clobbered>>

\* Mutant of KickCheck: the kicker's own entry is put off again and again.
MutKickCheck(k) ==
  /\ kick[k].pc = "check"
  /\ LET c == kick[k]
     IN  kick' = [kick EXCEPT ![k] =
           IF c.todo = <<>>
             THEN IF c.own = <<>> THEN [c EXCEPT !.pc = "done"]
                  ELSE [c EXCEPT !.todo = c.own, !.own = <<>>]
           ELSE IF ~uinfo[c.todo[1][1]].active THEN [c EXCEPT !.todo = Tail(@)]
           ELSE IF uinfo[c.todo[1][1]].pid = k
             THEN [c EXCEPT !.todo = Tail(@), !.own = <<c.todo[1]>>]
           ELSE [c EXCEPT !.pc = "kill"]]
  /\ UNCHANGED <<tvars, proc, web, queue, client, holder, idle, hup, kicked, clobbered>>

\* The test of enp->active; the kicker's own entry is put off to the end.
KickCheck(k) ==
  /\ kick[k].pc = "check"
  /\ LET c == kick[k]
     IN  kick' = [kick EXCEPT ![k] =
           IF c.todo = <<>>
             THEN IF c.own = <<>> THEN [c EXCEPT !.pc = "done"]
                  ELSE [c EXCEPT !.todo = c.own, !.own = <<>>, !.count = 1]
           ELSE IF ~uinfo[c.todo[1][1]].active THEN [c EXCEPT !.todo = Tail(@)]
           ELSE IF uinfo[c.todo[1][1]].pid = k /\ c.count > 1
             THEN [c EXCEPT !.todo = Tail(@), !.own = <<c.todo[1]>>]
           ELSE [c EXCEPT !.pc = "kill"]]
  /\ UNCHANGED <<tvars, proc, web, queue, client, holder, idle, hup, kicked, clobbered>>

\* kill(enp->pid, signal), with the pid that is there now, be it another
\* session's than the one remembered.  kill(0, signal) is for the process
\* group of k, and a SIGHUP to itself is taken at once.
KickKill(k) ==
  /\ kick[k].pc = "kill"
  /\ LET c    == kick[k]
         p    == uinfo[c.todo[1][1]].pid
         hit  == IF p = 0 THEN Group[k] ELSE {p} \cap TelnetPids
         live == {t \in hit : proc[t].st # "gone"}
         goOn == [kick EXCEPT ![k].pc = "clear"]
     IN  \/ /\ c.sig = "kill"
            /\ proc' = [t \in TelnetPids |-> IF t \in hit THEN [proc[t] EXCEPT !.st = "gone"]
                                             ELSE proc[t]]
            /\ hup'  = hup \ hit
            /\ kick' = [j \in Kickers |-> IF j \in hit THEN NoKick ELSE goOn[j]]
            /\ UNCHANGED queue
         \/ /\ c.sig = "hup"
            /\ k \in hit
            /\ ExitOf(k)
            /\ hup' = (hup \cup live) \ {k}
            /\ StopKick(k)
         \/ /\ c.sig = "hup"
            /\ k \notin hit
            /\ hup'  = hup \cup live
            /\ kick' = goOn
            /\ UNCHANGED <<proc, queue>>
  /\ UNCHANGED <<tvars, web, client, holder, idle, kicked, clobbered>>

\* clear_utmp, with the pid that was there when the entry was saved.
KickClear(k) ==
  /\ kick[k].pc = "clear"
  /\ LET c == kick[k]
     IN  /\ Send(ClrReq(k, c.todo[1][1], c.uid, c.todo[1][2]))
         /\ kick'  = [kick EXCEPT ![k].pc = "check", ![k].todo = Tail(@)]
  /\ UNCHANGED <<tvars, proc, web, client, holder, idle, hup, kicked, clobbered>>

KickReturn(k) ==
  /\ kick[k].pc = "done"
  /\ StopKick(k)
  /\ UNCHANGED <<tvars, proc, web, queue, client, holder, idle, hup, kicked, clobbered>>

-----------------------------------------------------------------------------
TelnetStep(t) == Enter(t) \/ EnterTimeout(t) \/ Leave(t) \/ HangUp(t) \/ Die(t)
WebStep(w)    == WebEnter(w) \/ WebTimeout(w) \/ WebSetPid(w) \/ Page(w) \/ WebLeave(w)
UtmpdStep     == ServeNew \/ ServeFull \/ ServeClr \/ Sweep \/ Reply \/ Drop
KickStep(k)   ==
  \/ \E u \in Uids, sig \in Signals : KickStart(k, u, sig)
  \/ \E u \in (Uids \cup Residue) \ {0}, s \in Slots : KickOne(k, u, s)
  \/ KickWalk(k) \/ KickWalked(k) \/ KickCheck(k) \/ KickKill(k) \/ KickClear(k)
  \/ KickReturn(k)

SNext ==
  \/ \E t \in TelnetPids : TelnetStep(t)
  \/ \E w \in Web : WebStep(w)
  \/ \E s \in Slots : Idle(s)
  \/ UtmpdStep
  \/ \E k \in Kickers : KickStep(k)

SSpec == SInit /\ [][SNext]_allvars

\* utmpd works as long as there is something to do; Drop is the fault of the
\* client whose request does not come, and nothing to rely on.
UtmpdServes == ServeNew \/ ServeFull \/ ServeClr \/ Sweep \/ Reply

\* A call of kick_user_utmp, once begun, runs when it can.
KickRuns(k) ==
  KickWalk(k) \/ KickWalked(k) \/ KickCheck(k) \/ KickKill(k) \/ KickClear(k) \/ KickReturn(k)

\* No fairness of the sessions: none of them has to log in, out, or time out.
\* KickClear waits for room in the backlog, which others may take first.
FairSpec ==
  /\ SSpec
  /\ WF_allvars(UtmpdServes)
  /\ \A k \in Kickers : WF_allvars(KickRuns(k)) /\ SF_allvars(KickClear(k))

-----------------------------------------------------------------------------
\* Every client is in a state its program has, with a slot it was told, and
\* what the kicker saved are entries of the table.
STypeOK ==
  /\ proc \in Procs
  /\ web \in Webs
  /\ queue \in Seq(Requests)
  /\ client \in Clients \cup {Nobody}
  /\ holder \in [Slots -> Clients \cup {Nobody}]
  /\ idle \subseteq Slots
  /\ hup \cup kicked \cup clobbered \subseteq TelnetPids
  /\ kick \in [Kickers -> Kicks]

(***************************************************************************)
(* A user who is logged in stays in the table under the slot u_enter was   *)
(* told, whatever requests of other sessions, of kickers and of processes  *)
(* that timed out or died are still under way, unless somebody kicked this *)
(* very process or a late web login wrote its pid over the entry.  It says *)
(* that no other session's clear request is obeyed; a SIGHUP or SIGKILL    *)
(* meant for the former session in the slot makes its target leave, which  *)
(* then is no longer on.                                                   *)
(***************************************************************************)
OnlineListed ==
  \A t \in TelnetPids \ (kicked \cup clobbered) :
    proc[t].st = "on" =>
      uinfo[proc[t].slot] = [active |-> TRUE, uid |-> UserOf[t], pid |-> t]

(***************************************************************************)
(* No entry of a telnet session is lost for good: it belongs to a process  *)
(* that knows the slot and will clear it, or that still waits for it, or   *)
(* the process is gone and the next clean-up finds that out.               *)
(***************************************************************************)
Reclaimable ==
  \A s \in Active :
    LET p == uinfo[s].pid
    IN  p \in TelnetPids =>
          \/ proc[p].st \in {"entering", "gone"}
          \/ proc[p].slot = s

(***************************************************************************)
(* A web entry keeps pid 0, which the clean-up passes over for ever, only  *)
(* while its login is under way or when the login never got the answer.    *)
(***************************************************************************)
PidZeroUnanswered ==
  \A s \in Active :
    uinfo[s].pid = 0 =>
      \/ web[holder[s]].st \in {"entering", "got"}
      \/ web[holder[s]].slot = 0

(***************************************************************************)
(* Whoever waits for utmpd hears from it, without the help of his time-out: *)
(* no order of requests, clean-ups, signals and deaths stops its loop, and *)
(* each request gets its turn although those of the dead are ahead of it.  *)
(* It is not known what becomes of utmpd after a stray clear.              *)
(***************************************************************************)
Answered ==
  /\ \A t \in TelnetPids : proc[t].st = "entering" ~> (proc[t].st # "entering" \/ stray)
  /\ \A w \in Web : web[w].st = "entering" ~> (web[w].st # "entering" \/ stray)

(***************************************************************************)
(* kick_user_utmp comes to an end although it follows next without a lock  *)
(* while utmpd relinks the entries it stands on, or utmpd is stray and     *)
(* takes no more of its requests.                                          *)
(***************************************************************************)
KickEnds ==
  \A k \in Kickers : kick[k].pc \in {"walk", "check", "kill", "clear", "done"}
                        ~> (kick[k].pc = "idle" \/ stray)

\* The sessions, their timeouts and crashes included, use the table only as
\* utmpd does.
TableSpec == Spec
=============================================================================
