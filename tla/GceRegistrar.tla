---------------------------- MODULE GceRegistrar ----------------------------
(***************************************************************************)
(* GceRegistrar over LeasedNodeRegistry: each process registers its node   *)
(* once its listener is ready, renews the lease on a timer, finds its row  *)
(* again after a lost answer, cleans up what others left behind, and       *)
(* withdraws its lease when it is closed.  A registrar is a client of the  *)
(* registry with a handle of its own, and has at most one operation under  *)
(* way; close() aborts that operation and waits for it.  A process may     *)
(* crash at any moment; a later process may speak for the same node.       *)
(***************************************************************************)
EXTENDS LeasedNodeRegistry

CONSTANTS
  Derived,    \* registrars that derive their node from instance metadata
  Mortal,     \* registrars that may be closed or crash
  MaxFaults   \* bound: storage failures, expired deadlines and failed metadata reads

ASSUME RegistrarAssumption ==
  Derived \subseteq Clients /\ Mortal \subseteq Clients /\ MaxFaults \in Nat

VARIABLES
  phase,      \* what the registrar is doing
  confirmed,  \* #confirmed
  resolved,   \* registrars whose node is known
  fenced,     \* #closed
  faults      \* failures so far

registrarVars == <<phase, confirmed, resolved, fenced>>
vars == <<registryVars, registrarVars, faults>>

Phases == {"new", "startResolve", "startRegister", "waiting", "resolve", "renew", "lookup",
           "register", "cleanup", "remove", "closed", "crashed"}

Init ==
  /\ RegistryInit
  /\ phase = [c \in Clients |-> "new"]
  /\ confirmed = {}
  /\ resolved = Clients \ Derived
  /\ fenced = {}
  /\ faults = 0

-----------------------------------------------------------------------------
Goes(c, p) == phase' = [phase EXCEPT ![c] = p]

\* #confirmed becomes yes.
Confirms(c, yes) == confirmed' = IF yes THEN confirmed \union {c} ELSE confirmed \ {c}

\* Mutant: only a confirmed registration is withdrawn.
WithdrawConfirmed(c) ==
  IF c \in confirmed
  THEN Goes(c, "remove") /\ Remove(c)
  ELSE Goes(c, "closed") /\ UNCHANGED registryVars

\* The end of close(): the row of this registrar is removed, if it has a node.
Withdraw(c) ==
  IF c \in resolved
  THEN Goes(c, "remove") /\ Remove(c)
  ELSE Goes(c, "closed") /\ UNCHANGED registryVars

\* Work ends: the next tick is scheduled, or close() goes on.
EndWork(c) ==
  IF c \in fenced THEN Withdraw(c) ELSE Goes(c, "waiting") /\ UNCHANGED registryVars

\* An operation of the registrar follows, unless close() aborted its signal.
Proceed(c, p, call) == IF c \in fenced THEN EndWork(c) ELSE Goes(c, p) /\ call

ConfirmOrRenew(c) ==
  IF c \in confirmed THEN Proceed(c, "renew", Renew(c)) ELSE Proceed(c, "lookup", Lookup(c))

-----------------------------------------------------------------------------
Start(c) ==
  /\ phase[c] = "new"
  /\ IF c \in resolved THEN Goes(c, "startRegister") /\ Register(c)
     ELSE Goes(c, "startResolve") /\ UNCHANGED registryVars
  /\ UNCHANGED <<confirmed, resolved, fenced, faults>>

\* The instance metadata arrive, or cannot be read.
MetadataAnswers(c) ==
  /\ phase[c] \in {"startResolve", "resolve"}
  /\ resolved' = resolved \union {c}
  /\ IF c \in fenced THEN Goes(c, "remove") /\ Remove(c)
     ELSE IF phase[c] = "resolve" THEN ConfirmOrRenew(c)
     ELSE Proceed(c, "startRegister", Register(c))
  /\ UNCHANGED <<confirmed, fenced, faults>>

MetadataFails(c) ==
  /\ phase[c] \in {"startResolve", "resolve"}
  /\ c \in fenced \/ faults < MaxFaults
  /\ faults' = IF c \in fenced THEN faults ELSE faults + 1
  /\ EndWork(c)
  /\ UNCHANGED <<confirmed, resolved, fenced>>

\* Mutant: a first registration that was answered counts as made.
StartedSettled(c) ==
  /\ phase[c] = "startRegister" /\ op[c].kind = "none"
  /\ Confirms(c, answer[c] # "failed")
  /\ EndWork(c)
  /\ UNCHANGED <<resolved, fenced, faults>>

\* The end of start(): an attempt that failed leaves the registrar unconfirmed.
Started(c) ==
  /\ phase[c] = "startRegister" /\ op[c].kind = "none"
  /\ Confirms(c, answer[c] = "true")
  /\ EndWork(c)
  /\ UNCHANGED <<resolved, fenced, faults>>

TimerFires(c) ==
  /\ phase[c] = "waiting"
  /\ IF c \in resolved THEN ConfirmOrRenew(c) ELSE Goes(c, "resolve") /\ UNCHANGED registryVars
  /\ UNCHANGED <<confirmed, resolved, fenced, faults>>

\* renew() or register() of a tick has answered: clean up, or leave on failure.
Renewed(c) ==
  /\ phase[c] \in {"renew", "register"} /\ op[c].kind = "none"
  /\ IF answer[c] = "failed" THEN EndWork(c) /\ UNCHANGED confirmed
     ELSE /\ Confirms(c, answer[c] = "true")
          /\ Proceed(c, "cleanup", Cleanup(c))
  /\ UNCHANGED <<resolved, fenced, faults>>

\* The unconfirmed registrar has looked for its row.
LookedUp(c) ==
  /\ phase[c] = "lookup" /\ op[c].kind = "none"
  /\ IF answer[c] = "failed" THEN EndWork(c) /\ UNCHANGED confirmed
     ELSE /\ Confirms(c, answer[c] = "true")
          /\ IF answer[c] = "true" THEN Proceed(c, "cleanup", Cleanup(c))
             ELSE Proceed(c, "register", Register(c))
  /\ UNCHANGED <<resolved, fenced, faults>>

\* Mutant: a failed cleanup ends the schedule.
CleanedUpOnce(c) ==
  /\ phase[c] = "cleanup" /\ op[c].kind = "none"
  /\ answer[c] = "true" \/ c \in fenced
  /\ EndWork(c)
  /\ UNCHANGED <<confirmed, resolved, fenced, faults>>

CleanedUp(c) ==
  /\ phase[c] = "cleanup" /\ op[c].kind = "none"
  /\ EndWork(c)
  /\ UNCHANGED <<confirmed, resolved, fenced, faults>>

\* close(): no tick follows; the operation under way is aborted and joined.
Close(c) ==
  /\ c \in Mortal \ fenced /\ phase[c] # "crashed"
  /\ fenced' = fenced \union {c}
  /\ IF phase[c] \in {"new", "waiting"} THEN Withdraw(c)
     ELSE /\ UNCHANGED phase
          /\ IF op[c].kind # "none" /\ c \notin aborted THEN Abort(c) ELSE UNCHANGED registryVars
  /\ UNCHANGED <<confirmed, resolved, faults>>

Removed(c) ==
  /\ phase[c] = "remove" /\ op[c].kind = "none"
  /\ Goes(c, "closed")
  /\ UNCHANGED <<registryVars, confirmed, resolved, fenced, faults>>

\* The process is gone, and with it what it had started.
Crash(c) ==
  /\ c \in Mortal /\ phase[c] \notin {"closed", "crashed"}
  /\ Goes(c, "crashed")
  /\ op' = [op EXCEPT ![c] = Idle]
  /\ orphans' = [orphans EXCEPT ![HandleOf[c]] = {}]
  /\ UNCHANGED <<time, rows, answer, aborted, cursor, handle, snapshot, lapsed, ends,
                 confirmed, resolved, fenced, faults>>

\* The storage goes on with an operation, fails it, or its deadline passes.
StorageStep(c) == Continue(c) /\ UNCHANGED <<registrarVars, faults>>

Fault(c) ==
  /\ faults < MaxFaults /\ faults' = faults + 1
  /\ Fails(c) \/ Abort(c)
  /\ UNCHANGED registrarVars

Orphan(c) == OrphanEnds(HandleOf[c]) /\ UNCHANGED <<registrarVars, faults>>

Advance(c) ==
  \/ MetadataAnswers(c) \/ Started(c) \/ TimerFires(c) \/ Renewed(c) \/ LookedUp(c)
  \/ CleanedUp(c) \/ Removed(c) \/ StorageStep(c)

Step(c) ==
  Start(c) \/ Advance(c) \/ MetadataFails(c) \/ Close(c) \/ Crash(c) \/ Fault(c) \/ Orphan(c)

Clocks == Tick /\ UNCHANGED <<registrarVars, faults>>

Next == (\E c \in Clients : Step(c)) \/ Clocks

Spec == Init /\ [][Next]_vars

\* Timers fire, storage and metadata answer, started work is continued, time
\* passes, and who lives is started; nobody is obliged to close or crash.
Fairness ==
  /\ WF_vars(Clocks)
  /\ \A c \in Clients : WF_vars(Advance(c))
  /\ \A c \in Clients \ Mortal : WF_vars(Start(c))

FairSpec == Spec /\ Fairness

-----------------------------------------------------------------------------
(* Properties.                                                             *)

\* A registrar that has been closed, and whose removal did not fail, leaves no
\* row behind: not by an initial registration whose answer was lost or that
\* close() interrupted, and not by a renewal or a tick that was under way
\* (close, #enqueue).
ClosedLeavesNoRow ==
  \A c \in Clients :
    phase[c] = "closed" /\ answer[c] # "failed" => ~ Owns(c)

\* A registrar that believes it is registered once had a row, and has it
\* still unless the lease it last stored has run out on some clock; only then
\* may another process have taken its place (#confirmed).
ConfirmedIsListed ==
  \A c \in confirmed \ fenced :
    phase[c] # "crashed" => Owns(c) \/ ends[c] \in 0 .. time + Skew

\* Once close() has ended, the registrar has no registry operation under way
\* and starts none: no timer, and no answer to earlier work, revives it (close).
DeadIsSilent ==
  [][\A c \in Clients : phase[c] = "closed" => op[c].kind = "none" /\ op'[c].kind = "none"]_vars

\* An expired row does not stay, whoever left it and wherever in the order of
\* the rows it is: some registrar that lives removes it, or its owner renews
\* it (cleanup, #cleanupAfter).
ExpiredIsReclaimed ==
  \A n \in Nodes :
    rows[n] # None /\ rows[n].expires <= time
      ~> rows[n] = None \/ rows[n].expires > time

\* A registrar that was started and lives gets its row, also when its process
\* replaces one that crashed, when its first answers are lost, or when its
\* lease ran out and another process took the node; the other one's lease may
\* only outlast the explored time.
LivingIsListed ==
  \A c \in Clients \ Mortal :
    phase[c] = "waiting" ~> rows[NodeOf[c]] # None
                             /\ (rows[NodeOf[c]].by = c \/ rows[NodeOf[c]].expires > MaxTime)

=============================================================================
