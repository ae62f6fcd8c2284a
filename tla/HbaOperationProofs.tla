-------------------------- MODULE HbaOperationProofs --------------------------
(***************************************************************************)
(* HbaOperation for any number of operations.                              *)
(*                                                                         *)
(* NothingUnaccounted is not inductive: what a late script may still do    *)
(* depends on the revision it carries, that on what the registry was when  *)
(* its process read it, and that on who holds the journal.  IInv adds the  *)
(* three: a script that could still land carries the registry's revision   *)
(* and belongs to the pending operation, whose authority is not revoked    *)
(* yet (SentInv); what a process has read is the registry unless the       *)
(* revision moved (SeenInv); and from its authority's end to the unlink of *)
(* its journal an operation has no script left that could land, so what    *)
(* the settlement observed stays true (SettleInv).                         *)
(***************************************************************************)
EXTENDS HbaOperation, TLAPS

Before == {"fresh", "initializing", "ready", "idle", "snapshot"}
Owned == {"begun", "registering", "registered", "permitted", "applying", "applied", "verified"}
Awaiting == {"initializing", "registering", "applying", "retiring"}
Closed == {"confirmed", "observed", "persisting", "persisted"}
Settling == {"retire", "retiring", "retired"} \cup Closed
Step == {"none", "prepared"} \cup Before \cup Owned \cup Settling

Ops == [Token -> {"none", "active", "revoked"}]
Registry == [rev : Nat, ops : Ops]
Proc == [at : Step, token : 0 .. MaxOp, base : 0 .. MaxOp, seen : Registry,
         kind : {"none", "baseline", "applied"}, observed : 0 .. MaxOp]
Script == [kind : {"init", "update", "apply"}, rev : Nat, base : 0 .. MaxOp, ops : Ops,
           token : 0 .. MaxOp, client : BOOLEAN]
TypeInv == TypeOK /\ proc \in Proc /\ sent \subseteq Script

\* The journal names the operation of the process that has the locks.
JournalInv ==
  /\ journal.state # "none" => journal.token <= used /\ journal.base < journal.token
  /\ proc.at \in Before => journal.state = "none" /\ used < MaxOp
  /\ proc.at = "prepared" =>
       /\ proc.token = used /\ proc.base < proc.token /\ journal.state # "whole"
       /\ journal.state = "torn" => journal.token = proc.token /\ journal.base = proc.base
  /\ proc.at \in Owned \cup Settling =>
       journal = [state |-> "whole", token |-> proc.token, base |-> proc.base]

\* An operation that was not journaled whole has left nothing.
Fresh(t) ==
  /\ registry.ops[t] = "none" /\ hba # t /\ outcome[t] = "none"
  /\ \A s \in sent : s.kind # "init" => s.token # t
Unjournaled(t) ==
  \/ t > used
  \/ journal.state = "torn" /\ journal.token = t
  \/ proc.at \in {"prepared", "begun"} /\ proc.token = t
FreshInv ==
  /\ hba <= used
  /\ registry.rev = 0 => \A t \in Token : registry.ops[t] = "none"
  /\ \A t \in Token : Unjournaled(t) => Fresh(t)

\* What a process has read is still so while the revision is the same.
SeenInv ==
  /\ proc.seen.rev <= registry.rev
  /\ proc.seen.rev = registry.rev => proc.seen.ops = registry.ops
  /\ proc.at = "permitted" => proc.seen.ops[proc.token] = "active"

\* A script that carries the registry's revision is the pending operation's.
Current(s) == s.kind # "init" /\ s.rev = registry.rev
SentInv ==
  /\ \A s \in sent : s.kind # "init" => s.token # 0 /\ s.rev <= registry.rev
  /\ \A s \in sent : s.kind = "init" => s.token = 0 /\ s.ops = [t \in Token |-> "none"]
  /\ \A s \in sent : Current(s) => Pending(s.token) /\ registry.ops[s.token] # "revoked"
  /\ \A s \in sent : Current(s) /\ s.kind = "update" =>
       \E x \in {"active", "revoked"} : s.ops = [registry.ops EXCEPT ![s.token] = x]
  /\ \A s \in sent : Current(s) /\ s.kind = "apply" => registry.ops[s.token] = "active"

\* A process waits for one script at a time.
ClientInv ==
  /\ \A s \in sent : s.client => proc.at \in Awaiting
  /\ \A r, s \in sent : r.client /\ s.client => r = s

SettleInv ==
  /\ proc.at \in Settling => proc.kind \in {"baseline", "applied"}
  /\ proc.at \in Closed => registry.ops[proc.token] = "revoked"
  /\ proc.at = "observed" => proc.observed = hba
  /\ proc.at \in {"persisting", "persisted"} /\ proc.kind = "baseline" => hba # proc.token
  /\ proc.at = "persisted" => outcome[proc.token] = proc.kind

\* NothingUnaccounted without the scripts, which SentInv answers for.
Accounted ==
  \A t \in Token :
    registry.ops[t] # "none" \/ hba = t \/ outcome[t] # "none" => Pending(t) \/ Over(t)

IInv ==
  /\ TypeInv /\ JournalInv /\ FreshInv /\ SeenInv /\ SentInv /\ ClientInv /\ SettleInv
  /\ Accounted

-------------------------------------------------------------------------------
LEMMA InitIInv == Init => IInv
BY OpAssumption DEF Init, IInv, TypeInv, TypeOK, JournalInv, FreshInv, SeenInv, SentInv, ClientInv, SettleInv,
   Accounted, Unjournaled, Fresh, Current, Proc, Registry, Ops, Step, Before, Owned, Settling, Closed, File,
   Token, NoJournal, Idle

LEMMA ScriptsAccounted == IInv => NothingUnaccounted
<1> SUFFICES ASSUME IInv, NEW t \in Token, NEW s \in sent, s.token = t, Unchanged(s)
             PROVE  Pending(t)
  BY DEF IInv, Accounted, NothingUnaccounted
<1>1. s.kind # "init" /\ s \in Script
  BY DEF IInv, SentInv, TypeInv, Token
<1>2. s.rev = registry.rev
  <2>1. CASE s.kind = "update"
    BY <2>1, <1>1 DEF Unchanged
  <2>2. CASE s.kind = "apply"
    BY <2>2, <1>1 DEF Unchanged
  <2> QED
    BY <2>1, <2>2, <1>1 DEF Script
<1> QED
  BY <1>1, <1>2 DEF IInv, SentInv, Current

-------------------------------------------------------------------------------
(* What a step does to the scripts in the container. *)

\* Every script that is left was there before, with or without its client.
Descend == \A s \in sent' : \E r \in sent : s = [r EXCEPT !.client = s.client]

LEMMA DescendType ==
  ASSUME TypeInv, Descend
  PROVE  \A s \in sent' : \E r \in sent : /\ s.kind = r.kind /\ s.rev = r.rev /\ s.base = r.base
                                         /\ s.ops = r.ops /\ s.token = r.token
BY DEF Descend, TypeInv, Script

LEMMA EndsDescend == ASSUME TypeInv, Ends PROVE Descend /\ (\A s \in sent' : ~s.client)
BY DEF Ends, Descend, TypeInv, Script

LEMMA SubsetDescend == ASSUME TypeInv, sent' \subseteq sent PROVE Descend
BY DEF Descend, TypeInv, Script

\* A step that sends nothing and leaves registry and journal alone.
LEMMA SentKept ==
  ASSUME IInv, Descend, UNCHANGED <<registry, journal>>
  PROVE  SentInv'
BY DescendType DEF IInv, SentInv, Current, Pending

\* A step that touches neither container nor journal and makes no operation unjournaled.
LEMMA Quiet ==
  ASSUME IInv, UNCHANGED <<container, journal, outcome, used>>,
         \A t \in Token : Unjournaled(t)' => Unjournaled(t)
  PROVE  FreshInv' /\ SentInv' /\ Accounted'
<1>1. SentInv'
  BY SentKept, SubsetDescend DEF IInv, container
<1>2. FreshInv' /\ Accounted'
  BY DEF IInv, container, FreshInv, Fresh, Accounted, Pending, Over
<1> QED
  BY <1>1, <1>2

-------------------------------------------------------------------------------
(* The steps that only look at the container, or write evidence. *)

USE OpAssumption DEF Token, Step, Before, Owned, Awaiting, Closed, Settling, Goes

LEMMA AcquireKeeps == ASSUME IInv, Acquire PROVE IInv'
<1>1. TypeInv' /\ JournalInv' /\ UNCHANGED <<container, journal, outcome, used>>
  BY DEF IInv, Acquire, TypeInv, TypeOK, JournalInv, Proc, Registry, Ops, File, container, files, evidence
<1>2. \A t \in Token : Unjournaled(t)' => Unjournaled(t)
  BY <1>1 DEF Acquire, Unjournaled
<1>3. SeenInv' /\ ClientInv' /\ SettleInv'
  BY <1>1 DEF IInv, Acquire, SeenInv, ClientInv, SettleInv, TypeInv, TypeOK, Proc, JournalInv, Registry,
     Ops, container
<1> QED
  BY <1>1, <1>2, <1>3, Quiet DEF IInv

LEMMA PinOpensKeeps == ASSUME IInv, PinOpens PROVE IInv'
<1>1. TypeInv' /\ JournalInv' /\ UNCHANGED <<container, journal, outcome, used>>
  BY DEF IInv, PinOpens, TypeInv, TypeOK, JournalInv, Proc, Registry, Ops, File, container, evidence
<1>2. \A t \in Token : Unjournaled(t)' => Unjournaled(t)
  BY <1>1 DEF PinOpens, Unjournaled
<1>3. SeenInv' /\ ClientInv' /\ SettleInv'
  BY <1>1 DEF IInv, PinOpens, SeenInv, ClientInv, SettleInv, TypeInv, TypeOK, Proc, JournalInv, Registry,
     Ops, container
<1> QED
  BY <1>1, <1>2, <1>3, Quiet DEF IInv

LEMMA read_idleKeeps == ASSUME IInv, read_idle PROVE IInv'
<1>1. TypeInv' /\ JournalInv' /\ UNCHANGED <<container, journal, outcome, used>>
  BY DEF IInv, read_idle, TypeInv, TypeOK, JournalInv, Proc, Registry, Ops, File, container, files, evidence
<1>2. \A t \in Token : Unjournaled(t)' => Unjournaled(t)
  BY <1>1 DEF read_idle, Unjournaled
<1>3. SeenInv' /\ ClientInv' /\ SettleInv'
  BY <1>1 DEF IInv, read_idle, SeenInv, ClientInv, SettleInv, TypeInv, TypeOK, Proc, JournalInv, Registry,
     Ops, container
<1> QED
  BY <1>1, <1>2, <1>3, Quiet DEF IInv

LEMMA SnapshotKeeps == ASSUME IInv, Snapshot PROVE IInv'
<1>1. TypeInv' /\ JournalInv' /\ UNCHANGED <<container, journal, outcome, used>>
  BY DEF IInv, Snapshot, TypeInv, TypeOK, JournalInv, Proc, Registry, Ops, File, container, files, evidence
<1>2. \A t \in Token : Unjournaled(t)' => Unjournaled(t)
  BY <1>1 DEF Snapshot, Unjournaled
<1>3. SeenInv' /\ ClientInv' /\ SettleInv'
  BY <1>1 DEF IInv, Snapshot, SeenInv, ClientInv, SettleInv, TypeInv, TypeOK, Proc, JournalInv, Registry,
     Ops, container
<1> QED
  BY <1>1, <1>2, <1>3, Quiet DEF IInv

LEMMA authorizeKeeps == ASSUME IInv, authorize PROVE IInv'
<1>1. TypeInv' /\ JournalInv' /\ UNCHANGED <<container, journal, outcome, used>>
  BY DEF IInv, authorize, TypeInv, TypeOK, JournalInv, Proc, Registry, Ops, File, container, files, evidence
<1>2. \A t \in Token : Unjournaled(t)' => Unjournaled(t)
  BY <1>1 DEF authorize, Unjournaled
<1>3. SeenInv' /\ ClientInv' /\ SettleInv'
  BY <1>1 DEF IInv, authorize, SeenInv, ClientInv, SettleInv, TypeInv, TypeOK, Proc, JournalInv, Registry,
     Ops, container
<1> QED
  BY <1>1, <1>2, <1>3, Quiet DEF IInv

LEMMA AttemptPublishedKeeps == ASSUME IInv, AttemptPublished PROVE IInv'
<1>1. TypeInv' /\ JournalInv' /\ UNCHANGED <<container, journal, outcome, used>>
  BY DEF IInv, AttemptPublished, Published, TypeInv, TypeOK, JournalInv, Proc, Registry, Ops, File,
     container
<1>2. \A t \in Token : Unjournaled(t)' => Unjournaled(t)
  BY <1>1 DEF AttemptPublished, Published, Unjournaled
<1>3. SeenInv' /\ ClientInv' /\ SettleInv'
  BY <1>1 DEF IInv, AttemptPublished, Published, SeenInv, ClientInv, SettleInv, TypeInv, TypeOK, Proc,
     JournalInv, Registry, Ops, container
<1> QED
  BY <1>1, <1>2, <1>3, Quiet DEF IInv

LEMMA VerifiedKeeps == ASSUME IInv, Verified PROVE IInv'
<1>1. TypeInv' /\ JournalInv' /\ UNCHANGED <<container, journal, outcome, used>>
  BY DEF IInv, Verified, TypeInv, TypeOK, JournalInv, Proc, Registry, Ops, File, container, files, evidence
<1>2. \A t \in Token : Unjournaled(t)' => Unjournaled(t)
  BY <1>1 DEF Verified, Unjournaled
<1>3. SeenInv' /\ ClientInv' /\ SettleInv'
  BY <1>1 DEF IInv, Verified, SeenInv, ClientInv, SettleInv, TypeInv, TypeOK, Proc, JournalInv, Registry,
     Ops, container
<1> QED
  BY <1>1, <1>2, <1>3, Quiet DEF IInv

LEMMA CompletionPublishedKeeps == ASSUME IInv, CompletionPublished PROVE IInv'
<1>1. TypeInv' /\ JournalInv' /\ UNCHANGED <<container, journal, outcome, used>>
  BY DEF IInv, CompletionPublished, Published, TypeInv, TypeOK, JournalInv, Proc, Registry, Ops, File,
     container
<1>2. \A t \in Token : Unjournaled(t)' => Unjournaled(t)
  BY <1>1 DEF CompletionPublished, Published, Unjournaled
<1>3. SeenInv' /\ ClientInv' /\ SettleInv'
  BY <1>1 DEF IInv, CompletionPublished, Published, SeenInv, ClientInv, SettleInv, TypeInv, TypeOK, Proc,
     JournalInv, Registry, Ops, container
<1> QED
  BY <1>1, <1>2, <1>3, Quiet DEF IInv

LEMMA complete_ownedKeeps == ASSUME IInv, complete_owned PROVE IInv'
<1>1. TypeInv' /\ JournalInv' /\ UNCHANGED <<container, journal, outcome, used>>
  BY DEF IInv, complete_owned, TypeInv, TypeOK, JournalInv, Proc, Registry, Ops, File, container, files,
     evidence
<1>2. \A t \in Token : Unjournaled(t)' => Unjournaled(t)
  BY <1>1 DEF complete_owned, Unjournaled
<1>3. SeenInv' /\ ClientInv' /\ SettleInv'
  BY <1>1 DEF IInv, complete_owned, SeenInv, ClientInv, SettleInv, TypeInv, TypeOK, Proc, JournalInv,
     Registry, Ops, container
<1> QED
  BY <1>1, <1>2, <1>3, Quiet DEF IInv

LEMMA ConfirmKeeps == ASSUME IInv, Confirm PROVE IInv'
<1>1. TypeInv' /\ JournalInv' /\ UNCHANGED <<container, journal, outcome, used>>
  BY DEF IInv, Confirm, Revoked, TypeInv, TypeOK, JournalInv, Proc, Registry, Ops, File, container, files,
     evidence
<1>2. \A t \in Token : Unjournaled(t)' => Unjournaled(t)
  BY <1>1 DEF Confirm, Revoked, Unjournaled
<1>3. SeenInv' /\ ClientInv' /\ SettleInv'
  BY <1>1 DEF IInv, Confirm, Revoked, SeenInv, ClientInv, SettleInv, TypeInv, TypeOK, Proc, JournalInv,
     Registry, Ops, container
<1> QED
  BY <1>1, <1>2, <1>3, Quiet DEF IInv

LEMMA ObserveKeeps == ASSUME IInv, Observe PROVE IInv'
<1>1. TypeInv' /\ JournalInv' /\ UNCHANGED <<container, journal, outcome, used>>
  BY DEF IInv, Observe, TypeInv, TypeOK, JournalInv, Proc, Registry, Ops, File, container, files, evidence
<1>2. \A t \in Token : Unjournaled(t)' => Unjournaled(t)
  BY <1>1 DEF Observe, Unjournaled
<1>3. SeenInv' /\ ClientInv' /\ SettleInv'
  BY <1>1 DEF IInv, Observe, SeenInv, ClientInv, SettleInv, TypeInv, TypeOK, Proc, JournalInv, Registry,
     Ops, container
<1> QED
  BY <1>1, <1>2, <1>3, Quiet DEF IInv

LEMMA RecoverKeeps ==
  ASSUME IInv, NEW kind \in {"baseline", "applied"}, Recover(kind)
  PROVE  IInv'
<1>1. /\ journal \in [state : File, token : 0 .. MaxOp, base : 0 .. MaxOp] /\ journal.state = "whole"
      /\ Idle \in Proc /\ registry \in Registry
  BY DEF IInv, TypeInv, TypeOK, Recover, Idle, Proc, Registry, Ops
<1>2. /\ proc' \in Proc /\ proc'.at = "retire" /\ proc'.kind = kind /\ proc'.seen = Idle.seen
      /\ proc'.token = journal.token /\ proc'.base = journal.base
  BY <1>1 DEF Recover, Proc
<1>3. TypeInv' /\ JournalInv' /\ UNCHANGED <<container, journal, outcome, used>>
  BY <1>1, <1>2 DEF IInv, Recover, TypeInv, TypeOK, JournalInv, Registry, Ops, File, container, files,
     evidence
<1>4. \A t \in Token : Unjournaled(t)' => Unjournaled(t)
  BY <1>2, <1>3 DEF Unjournaled
<1>5. SeenInv' /\ ClientInv' /\ SettleInv'
  <2>1. SeenInv'
    BY <1>1, <1>2, <1>3 DEF IInv, SeenInv, FreshInv, Idle, Registry, Ops, container
  <2>2. ClientInv' /\ SettleInv'
    BY <1>1, <1>2, <1>3 DEF IInv, ClientInv, SettleInv, Recover, container
  <2> QED
    BY <2>1, <2>2
<1> QED
  BY <1>3, <1>4, <1>5, Quiet DEF IInv

-------------------------------------------------------------------------------
(* The steps that send a script. *)

LEMMA DispatchSends ==
  ASSUME IInv, NEW kind \in {"init", "update", "apply"}, NEW rev \in Nat, NEW base \in 0 .. MaxOp,
         NEW ops \in Ops, NEW token \in 0 .. MaxOp, dispatch(kind, rev, base, ops, token),
         proc.at \notin Awaiting, proc'.at \in Awaiting
  PROVE  /\ sent' \subseteq Script /\ ClientInv'
         /\ \A s \in sent' \ sent : /\ s.kind = kind /\ s.rev = rev /\ s.base = base /\ s.ops = ops
                                    /\ s.token = token
<1> DEFINE new == [kind |-> kind, rev |-> rev, base |-> base, ops |-> ops, token |-> token, client |-> TRUE]
<1>1. new \in Script /\ sent' = sent \cup {new}
  BY DEF dispatch, Script
<1>2. \A s \in sent : ~s.client
  BY DEF IInv, ClientInv, TypeInv, Script
<1>3. new.kind = kind /\ new.rev = rev /\ new.base = base /\ new.ops = ops /\ new.token = token
  OBVIOUS
<1> HIDE DEF new
<1> QED
  BY <1>1, <1>2, <1>3 DEF IInv, TypeInv, ClientInv

\* What a new script needs for SentInv to go on.
MaySend(s) ==
  \/ s.kind = "init" /\ s.token = 0 /\ s.ops = [t \in Token |-> "none"]
  \/ /\ s.kind # "init" /\ s.token # 0 /\ s.rev <= registry.rev
     /\ Current(s) =>
          /\ Pending(s.token) /\ registry.ops[s.token] # "revoked"
          /\ s.kind = "update" =>
               \E x \in {"active", "revoked"} : s.ops = [registry.ops EXCEPT ![s.token] = x]
          /\ s.kind = "apply" => registry.ops[s.token] = "active"

LEMMA SentGrows ==
  ASSUME IInv, UNCHANGED <<registry, journal>>, \A s \in sent' \ sent : MaySend(s)
  PROVE  SentInv'
BY ZenonT(60) DEF IInv, SentInv, Current, Pending, MaySend

LEMMA initializeKeeps == ASSUME IInv, initialize PROVE IInv'
<1> DEFINE nothing == [t \in Token |-> "none"]
<1>1. sent' \subseteq Script /\ ClientInv' /\ \A s \in sent' \ sent : s.kind = "init" /\ s.token = 0 /\ s.ops = nothing
  <2>1. /\ nothing \in Ops /\ proc.at \notin Awaiting /\ proc'.at \in Awaiting
        /\ dispatch("init", 0, 0, nothing, 0)
    BY DEF initialize, IInv, TypeInv, Proc, Ops
  <2> HIDE DEF nothing
  <2> QED
    BY <2>1, DispatchSends
<1>2. SentInv'
  BY <1>1, SentGrows DEF initialize, MaySend
<1>3. TypeInv'
  BY <1>1 DEF IInv, initialize, TypeInv, TypeOK, Proc, Registry, Ops, File, evidence
<1>4. JournalInv' /\ SeenInv' /\ SettleInv'
  BY DEF IInv, initialize, JournalInv, SeenInv, SettleInv, TypeInv, Proc, evidence
<1>5. FreshInv' /\ Accounted'
  BY <1>1 DEF IInv, initialize, FreshInv, Fresh, Unjournaled, Accounted, Pending, Over, TypeInv, Proc,
     evidence
<1> QED
  BY <1>1, <1>2, <1>3, <1>4, <1>5 DEF IInv

\* The operation of the process, which is the journal's.
LEMMA ProcToken ==
  ASSUME IInv, proc.at \in Owned \cup Settling
  PROVE  proc.token \in Token /\ Pending(proc.token) /\ journal.token = proc.token /\ proc.base < proc.token
BY DEF IInv, TypeInv, TypeOK, JournalInv, Pending, Proc

LEMMA RegisterKeeps == ASSUME IInv, Register PROVE IInv'
<1> DEFINE t == proc.token  ops == [proc.seen.ops EXCEPT ![t] = "active"]
<1>1. t \in Token /\ Pending(t) /\ proc.seen \in Registry /\ Fresh(t)
  BY ProcToken DEF Register, IInv, TypeInv, Proc, FreshInv, Unjournaled
<1>2. /\ sent' \subseteq Script /\ ClientInv'
      /\ \A s \in sent' \ sent : s.kind = "update" /\ s.rev = proc.seen.rev /\ s.token = t /\ s.ops = ops
  <2>1. /\ ops \in Ops /\ proc.at \notin Awaiting /\ proc'.at \in Awaiting
        /\ proc.seen.rev \in Nat /\ dispatch("update", proc.seen.rev, 0, ops, t)
    BY <1>1 DEF Register, update, IInv, TypeInv, Proc, Ops, Registry
  <2> HIDE DEF ops
  <2> QED
    BY <1>1, <2>1, DispatchSends
<1>3. SentInv'
  <2>1. proc.seen.rev = registry.rev => ops = [registry.ops EXCEPT ![t] = "active"]
    BY DEF IInv, SeenInv
  <2>2. \A s \in sent' \ sent : /\ s.kind = "update" /\ s.token = t /\ t # 0 /\ s.rev <= registry.rev
                                /\ Current(s) => s.ops = [registry.ops EXCEPT ![t] = "active"]
    BY <1>1, <1>2, <2>1 DEF IInv, SeenInv, Current
  <2>3. Pending(t) /\ registry.ops[t] # "revoked" /\ UNCHANGED <<registry, journal>>
    BY <1>1 DEF Register, Fresh, files
  <2>4. ASSUME NEW s \in sent' \ sent PROVE MaySend(s)
    <3> HIDE DEF t, ops
    <3> QED
      BY <2>2, <2>3 DEF MaySend
  <2> QED
    BY <2>3, <2>4, SentGrows
<1>4. TypeInv'
  BY <1>2 DEF IInv, Register, TypeInv, TypeOK, Proc, Registry, Ops, files, evidence
<1>5. JournalInv' /\ SeenInv' /\ SettleInv'
  BY DEF IInv, Register, JournalInv, SeenInv, SettleInv, TypeInv, Proc, files
<1>6. FreshInv' /\ Accounted'
  <2>1. \A u \in Token : Unjournaled(u)' => Unjournaled(u) /\ u # t
    BY <1>1 DEF IInv, Register, Unjournaled, JournalInv, TypeInv, TypeOK, Proc, files, Pending
  <2> QED
    BY <1>2, <2>1 DEF IInv, Register, FreshInv, Fresh, Accounted, Pending, Over, files, evidence
<1> QED
  BY <1>2, <1>3, <1>4, <1>5, <1>6 DEF IInv

LEMMA applyKeeps == ASSUME IInv, apply PROVE IInv'
<1> DEFINE t == proc.token
<1>1. t \in Token /\ Pending(t) /\ proc.seen \in Registry
  BY ProcToken DEF apply, IInv, TypeInv, Proc
<1>2. /\ sent' \subseteq Script /\ ClientInv'
      /\ \A s \in sent' \ sent : s.kind = "apply" /\ s.rev = proc.seen.rev /\ s.token = t
  <2>1. /\ registry.ops \in Ops /\ proc.at \notin Awaiting /\ proc'.at \in Awaiting
        /\ proc.seen.rev \in Nat /\ proc.base \in 0 .. MaxOp
        /\ dispatch("apply", proc.seen.rev, proc.base, registry.ops, t)
    BY <1>1 DEF apply, IInv, TypeInv, TypeOK, Proc, Ops, Registry
  <2> QED
    BY <1>1, <2>1, DispatchSends
<1>3. SentInv'
  <2>1. \A s \in sent' \ sent : /\ s.kind = "apply" /\ s.token = t /\ t # 0 /\ s.rev <= registry.rev
                                /\ Current(s) => registry.ops[t] = "active"
    BY <1>1, <1>2 DEF apply, IInv, SeenInv, Current
  <2>2. Pending(t) /\ UNCHANGED <<registry, journal>>
    BY <1>1 DEF apply, files
  <2>3. ASSUME NEW s \in sent' \ sent PROVE MaySend(s)
    <3> HIDE DEF t
    <3> QED
      BY <2>1, <2>2 DEF MaySend
  <2> QED
    BY <2>2, <2>3, SentGrows
<1>4. TypeInv'
  BY <1>2 DEF IInv, apply, TypeInv, TypeOK, Proc, Registry, Ops, files, evidence
<1>5. JournalInv' /\ SeenInv' /\ SettleInv'
  BY DEF IInv, apply, JournalInv, SeenInv, SettleInv, TypeInv, Proc, files
<1>6. FreshInv' /\ Accounted'
  <2>1. \A u \in Token : Unjournaled(u)' => Unjournaled(u) /\ u # t
    BY <1>1 DEF IInv, apply, Unjournaled, JournalInv, TypeInv, TypeOK, Proc, files, Pending
  <2> QED
    BY <1>2, <2>1 DEF IInv, apply, FreshInv, Fresh, Accounted, Pending, Over, files, evidence
<1> QED
  BY <1>2, <1>3, <1>4, <1>5, <1>6 DEF IInv

LEMMA retireKeeps == ASSUME IInv, retire PROVE IInv'
<1> DEFINE t == proc.token  ops == [registry.ops EXCEPT ![t] = "revoked"]
<1>1. t \in Token /\ Pending(t) /\ registry \in Registry
  BY ProcToken DEF retire, IInv, TypeInv, TypeOK, Registry, Ops
<1>2. /\ sent' \subseteq Script /\ ClientInv'
      /\ \A s \in sent' \ sent : /\ s.kind = "update" /\ s.rev = registry.rev /\ s.token = t /\ s.ops = ops
                                 /\ registry.ops[t] # "revoked"
  <2>1. CASE Revoked(registry, t)
    BY <2>1 DEF retire, IInv, TypeInv, ClientInv, Proc
  <2>2. CASE ~Revoked(registry, t)
    <3>1. /\ ops \in Ops /\ proc.at \notin Awaiting /\ proc'.at \in Awaiting /\ registry.rev \in Nat
          /\ dispatch("update", registry.rev, 0, ops, t) /\ registry.ops[t] # "revoked"
      BY <1>1, <2>2 DEF retire, update, Revoked, IInv, TypeInv, Proc, Ops, Registry
    <3> HIDE DEF ops
    <3> QED
      BY <1>1, <3>1, DispatchSends
  <2> QED
    BY <2>1, <2>2
<1>3. SentInv'
  <2>1. \A s \in sent' \ sent : /\ s.kind = "update" /\ s.token = t /\ t # 0 /\ s.rev <= registry.rev
                                /\ s.ops = [registry.ops EXCEPT ![t] = "revoked"]
    BY <1>1, <1>2 DEF Registry
  <2> QED
    BY <1>1, <1>2, <2>1, SentGrows DEF retire, files, MaySend
<1>4. \E a \in {"retired", "retiring"} : proc' = [proc EXCEPT !.at = a]
  BY DEF retire
<1>5. TypeInv' /\ JournalInv' /\ SeenInv' /\ SettleInv'
  <2>1. TypeInv'
    BY <1>2, <1>4 DEF IInv, retire, TypeInv, TypeOK, Proc, Registry, Ops, files, evidence
  <2>2. JournalInv' /\ SeenInv' /\ SettleInv'
    BY <1>4 DEF IInv, retire, JournalInv, SeenInv, SettleInv, TypeInv, Proc, files
  <2> QED
    BY <2>1, <2>2
<1>6. FreshInv' /\ Accounted'
  <2>1. \A u \in Token : Unjournaled(u)' => Unjournaled(u) /\ u # t
    BY <1>1, <1>4 DEF IInv, retire, Unjournaled, JournalInv, TypeInv, TypeOK, Proc, files, Pending
  <2> QED
    BY <1>2, <2>1 DEF IInv, retire, FreshInv, Fresh, Accounted, Pending, Over, files, evidence
<1> QED
  BY <1>2, <1>3, <1>5, <1>6 DEF IInv

-------------------------------------------------------------------------------
(* The steps of the journal and of the settlement's outcome. *)

LEMMA prepareKeeps == ASSUME IInv, prepare PROVE IInv'
<1>1. /\ used < MaxOp /\ journal.state = "none" /\ proc.base \in 0 .. MaxOp
      /\ proc' = [proc EXCEPT !.at = "prepared", !.base = hba, !.token = used + 1] /\ used' = used + 1
      /\ UNCHANGED <<container, journal, outcome>>
  BY DEF IInv, prepare, JournalInv, TypeInv, TypeOK, Proc, files, evidence
<1>2. TypeInv' /\ JournalInv'
  <2>1. /\ used + 1 \in 0 .. MaxOp /\ hba \in 0 .. MaxOp /\ hba < used + 1
        /\ proc' \in Proc /\ proc'.at = "prepared" /\ proc'.token = used + 1 /\ proc'.base = hba
    <3>1. used + 1 \in 0 .. MaxOp /\ hba \in 0 .. MaxOp /\ hba < used + 1
      BY <1>1 DEF IInv, TypeInv, TypeOK, FreshInv
    <3>2. proc \in Proc /\ "prepared" \in Step
      BY DEF IInv, TypeInv
    <3> HIDE DEF Step
    <3> QED
      BY <1>1, <3>1, <3>2 DEF Proc
  <2>2. TypeInv'
    BY <1>1, <2>1 DEF IInv, prepare, TypeInv, TypeOK, container, files, evidence
  <2>3. JournalInv'
    BY <1>1, <2>1 DEF JournalInv
  <2> QED
    BY <2>2, <2>3
<1>3. FreshInv'
  BY <1>1 DEF IInv, FreshInv, Fresh, Unjournaled, TypeInv, TypeOK, Proc, container
<1>4. SentInv'
  BY <1>1, SentKept, SubsetDescend DEF IInv, container
<1>5. SeenInv' /\ ClientInv' /\ SettleInv' /\ Accounted'
  BY <1>1 DEF IInv, prepare, SeenInv, ClientInv, SettleInv, Accounted, Pending, Over, TypeInv, Proc,
     container
<1> QED
  BY <1>2, <1>3, <1>4, <1>5 DEF IInv

\* A journal opened, and then written whole: no script is current meanwhile.
LEMMA JournalGrows ==
  ASSUME IInv, journal.state # "whole", UNCHANGED container
  PROVE  SentInv'
BY DEF IInv, SentInv, Current, Pending, container

LEMMA JournalOpensKeeps == ASSUME IInv, JournalOpens PROVE IInv'
<1>1. SentInv'
  BY JournalGrows DEF JournalOpens
<1>2. TypeInv' /\ JournalInv'
  BY DEF IInv, JournalOpens, TypeInv, TypeOK, JournalInv, Proc, Registry, Ops, File, container, evidence
<1>3. FreshInv' /\ Accounted'
  BY DEF IInv, JournalOpens, FreshInv, Fresh, Unjournaled, Accounted, Pending, Over, TypeInv, Proc,
     container, evidence
<1>4. SeenInv' /\ ClientInv' /\ SettleInv'
  BY DEF IInv, JournalOpens, SeenInv, ClientInv, SettleInv, container, evidence
<1> QED
  BY <1>1, <1>2, <1>3, <1>4 DEF IInv

LEMMA beginKeeps == ASSUME IInv, begin PROVE IInv'
<1>1. SentInv'
  BY JournalGrows DEF begin
<1>2. TypeInv' /\ JournalInv'
  BY DEF IInv, begin, TypeInv, TypeOK, JournalInv, Proc, Registry, Ops, File, container, evidence
<1>3. FreshInv' /\ Accounted'
  BY DEF IInv, begin, FreshInv, Fresh, Unjournaled, Accounted, Pending, Over, JournalInv, TypeInv, TypeOK,
     Proc, container, evidence
<1>4. SeenInv' /\ ClientInv' /\ SettleInv'
  BY DEF IInv, begin, SeenInv, ClientInv, SettleInv, TypeInv, Proc, container, evidence
<1> QED
  BY <1>1, <1>2, <1>3, <1>4 DEF IInv

\* An outcome of the pending operation, which alone has one written.
LEMMA OutcomeKept ==
  ASSUME IInv, proc.at \in Settling, UNCHANGED <<container, journal, used>>, proc'.at \in Settling,
         outcome' = outcome \/ \E x : outcome' = [outcome EXCEPT ![proc.token] = x]
  PROVE  FreshInv' /\ SentInv' /\ Accounted'
<1>1. SentInv'
  BY SentKept, SubsetDescend DEF IInv, container
<1>2. Accounted'
  BY ProcToken DEF IInv, Accounted, Pending, Over, TypeInv, TypeOK, container
<1>3. \A t \in Token : Unjournaled(t)' => Unjournaled(t) /\ t # proc.token
  BY ProcToken DEF IInv, Unjournaled, TypeInv, TypeOK, JournalInv, Pending
<1>4. FreshInv'
  BY <1>3 DEF IInv, FreshInv, Fresh, TypeInv, TypeOK, container
<1> QED
  BY <1>1, <1>2, <1>4

LEMMA persistKeeps == ASSUME IInv, persist PROVE IInv'
<1>1. /\ \E a \in {"persisting", "persisted"} : proc' = [proc EXCEPT !.at = a]
      /\ outcome' = outcome \/ outcome' = [outcome EXCEPT ![proc.token] = "torn"]
      /\ UNCHANGED <<container, journal, used>>
  BY DEF persist
<1>2. TypeInv'
  <2>1. proc' \in Proc
    BY <1>1 DEF IInv, TypeInv, Proc
  <2>2. outcome' \in [Token -> {"none", "torn", "baseline", "applied"}]
    BY <1>1 DEF IInv, TypeInv, TypeOK
  <2> QED
    BY <1>1, <2>1, <2>2 DEF IInv, persist, TypeInv, TypeOK, container
<1>3. proc'.token = proc.token /\ proc'.kind = proc.kind /\ proc'.base = proc.base /\ proc'.seen = proc.seen
  BY <1>1 DEF IInv, TypeInv, Proc
<1>4. proc'.at \in {"persisting", "persisted"} /\ (proc'.at = "persisted" => outcome'[proc.token] = proc.kind)
  BY <1>1 DEF IInv, persist, TypeInv, Proc
<1>5. JournalInv' /\ SeenInv' /\ ClientInv'
  BY <1>1, <1>3, <1>4 DEF IInv, persist, JournalInv, SeenInv, ClientInv, container
<1>6. SettleInv'
  BY <1>1, <1>3, <1>4, ProcToken DEF IInv, persist, Fits, SettleInv, TypeInv, TypeOK, Proc, container
<1> QED
  BY <1>1, <1>2, <1>4, <1>5, <1>6, OutcomeKept DEF IInv, persist

LEMMA PersistEndsKeeps == ASSUME IInv, PersistEnds PROVE IInv'
<1>1. TypeInv'
  BY DEF IInv, PersistEnds, TypeInv, TypeOK, SettleInv, Proc, Registry, Ops, container
<1>2. JournalInv' /\ SeenInv' /\ ClientInv' /\ SettleInv' /\ proc'.at \in Settling
  BY ProcToken DEF IInv, PersistEnds, JournalInv, SeenInv, ClientInv, SettleInv, TypeInv, TypeOK, Proc,
     container
<1> QED
  BY <1>1, <1>2, OutcomeKept DEF IInv, PersistEnds

LEMMA UnlinkKeeps == ASSUME IInv, Unlink PROVE IInv'
<1> DEFINE t == proc.token
<1>1. /\ t \in Token /\ Pending(t) /\ registry.ops[t] = "revoked"
      /\ outcome[t] = "applied" \/ (outcome[t] = "baseline" /\ hba # t)
  BY ProcToken DEF IInv, Unlink, SettleInv
<1>2. \A s \in sent : ~Current(s)
  BY <1>1 DEF IInv, SentInv, Pending
<1>3. SentInv'
  BY <1>2 DEF IInv, Unlink, SentInv, Current, container
<1>4. Accounted'
  BY <1>1 DEF IInv, Unlink, Accounted, Pending, Over, container, evidence
<1>5. TypeInv' /\ JournalInv'
  BY DEF IInv, Unlink, NoJournal, Idle, TypeInv, TypeOK, JournalInv, Proc, Registry, Ops, File, container,
     evidence
<1>6. FreshInv' /\ SeenInv'
  BY DEF IInv, Unlink, NoJournal, Idle, FreshInv, Fresh, Unjournaled, SeenInv, TypeInv, TypeOK, container,
     evidence
<1>7. ClientInv' /\ SettleInv'
  BY DEF IInv, Unlink, Idle, ClientInv, SettleInv, container
<1> QED
  BY <1>3, <1>4, <1>5, <1>6, <1>7 DEF IInv

-------------------------------------------------------------------------------
(* The end of a process, and what lands without it. *)

LEMMA IdleType == IInv => Idle \in Proc /\ Idle.at = "none" /\ Idle.seen = [rev |-> 0, ops |-> [t \in Token |-> "none"]]
BY DEF Idle, Proc, Registry, Ops

LEMMA ExitsKeeps == ASSUME IInv, Exits PROVE IInv'
<1>1. Descend /\ (\A s \in sent' : ~s.client) /\ proc' = Idle
  BY EndsDescend DEF IInv, Exits, Ends
<1>2. sent' \subseteq Script
  BY DEF IInv, Exits, Ends, TypeInv, Script
<1>3. SentInv'
  BY <1>1, SentKept DEF Exits, files
<1>4. TypeInv' /\ JournalInv' /\ SeenInv' /\ ClientInv' /\ SettleInv'
  BY <1>1, <1>2, IdleType DEF IInv, Exits, TypeInv, TypeOK, JournalInv, FreshInv, SeenInv, ClientInv,
     SettleInv, files, evidence, Registry, Ops
<1>5. FreshInv' /\ Accounted'
  <2>1. \A t \in Token : Unjournaled(t)' => Unjournaled(t)
    BY <1>1, IdleType DEF Exits, Unjournaled, files
  <2> QED
    BY <1>1, <2>1, DescendType DEF IInv, Exits, FreshInv, Fresh, Accounted, Pending, Over, files, evidence
<1> QED
  BY <1>3, <1>4, <1>5 DEF IInv

\* Where the process is after its script's answer, or after the answer of a script nobody waits for.
AnswerStep(s) ==
  \/ ~s.client /\ proc' = proc
  \/ s.client /\ proc' = Idle
  \/ s.client /\ \E a \in {"ready", "registered", "applied", "retired"} :
       /\ proc' = [proc EXCEPT !.at = a]
       /\ a = "ready" => proc.at = "initializing"
       /\ a = "registered" => proc.at = "registering"
       /\ a = "applied" => proc.at = "applying"
       /\ a = "retired" => proc.at = "retiring"

LEMMA AnswerLands == ASSUME IInv, NEW s \in sent, Land(s) \/ Refused(s) PROVE AnswerStep(s)
<1>1. CASE s.client
  <2>1. proc.at \in Awaiting
    BY <1>1 DEF IInv, ClientInv
  <2> QED
    BY <1>1, <2>1 DEF Land, Refused, AnswerStep, Answered
<1>2. CASE ~s.client
  BY <1>2 DEF Land, Refused, AnswerStep
<1> QED
  BY <1>1, <1>2

\* The process alone: everything IInv says of it but what it has read.
LEMMA AnswerKeeps ==
  ASSUME IInv, NEW s \in sent, AnswerStep(s), sent' = sent \ {s}, UNCHANGED <<files, used>>
  PROVE  /\ proc' \in Proc /\ JournalInv' /\ ClientInv'
         /\ \A t \in Token : Unjournaled(t)' => Unjournaled(t)
         /\ proc'.at \in Closed \/ proc'.at = "permitted" => ~s.client /\ proc' = proc
         /\ proc'.at \in Settling => proc'.kind \in {"baseline", "applied"}
         /\ proc'.seen = proc.seen \/ proc'.seen = Idle.seen
<1>1. CASE ~s.client /\ proc' = proc
  BY <1>1 DEF IInv, TypeInv, JournalInv, ClientInv, SettleInv, Unjournaled, files
<1>2. CASE s.client /\ proc' = Idle
  BY <1>2, IdleType DEF IInv, TypeInv, JournalInv, ClientInv, Unjournaled, files
<1>3. ASSUME s.client, NEW a \in {"ready", "registered", "applied", "retired"}, proc' = [proc EXCEPT !.at = a],
             a = "ready" => proc.at = "initializing", a = "registered" => proc.at = "registering",
             a = "applied" => proc.at = "applying", a = "retired" => proc.at = "retiring"
      PROVE  /\ proc' \in Proc /\ JournalInv' /\ ClientInv'
             /\ \A t \in Token : Unjournaled(t)' => Unjournaled(t)
             /\ proc'.at = a /\ proc'.kind = proc.kind /\ proc'.seen = proc.seen
  BY <1>3 DEF IInv, TypeInv, Proc, JournalInv, ClientInv, Unjournaled, files
<1> QED
  BY <1>1, <1>2, <1>3 DEF AnswerStep, IInv, SettleInv

LEMMA AnswerSeen ==
  ASSUME IInv, NEW s \in sent, AnswerStep(s), sent' = sent \ {s}, UNCHANGED <<registry, files, used>>
  PROVE  SeenInv'
<1>1. /\ proc'.seen = proc.seen \/ proc'.seen = Idle.seen
      /\ proc'.at = "permitted" => proc' = proc
  BY AnswerKeeps
<1>2. registry.rev \in Nat /\ registry.ops \in Ops
  BY DEF IInv, TypeInv, TypeOK, Ops
<1>3. CASE proc'.seen = proc.seen
  BY <1>1, <1>3 DEF IInv, SeenInv
<1>4. CASE proc'.seen = Idle.seen /\ proc' # proc
  BY <1>1, <1>2, <1>4, IdleType DEF IInv, SeenInv, FreshInv, Ops
<1> QED
  BY <1>1, <1>3, <1>4

LEMMA AnswerSettles ==
  ASSUME IInv, NEW s \in sent, AnswerStep(s), sent' = sent \ {s}, UNCHANGED <<files, used>>,
         proc'.at \in Closed => registry'.ops[proc.token] = "revoked" /\ hba' = hba
  PROVE  SettleInv'
BY AnswerKeeps DEF IInv, SettleInv, files, evidence

LEMMA RefusedKeeps == ASSUME IInv, NEW s \in sent, Refused(s) PROVE IInv'
<1>1. sent' = sent \ {s} /\ UNCHANGED <<hba, registry, files, used>> /\ AnswerStep(s)
  BY AnswerLands DEF Refused
<1>2. SentInv'
  BY <1>1, SentKept, SubsetDescend DEF IInv, files
<1>3. TypeInv' /\ JournalInv' /\ ClientInv'
  BY <1>1, AnswerKeeps DEF IInv, TypeInv, TypeOK, files, evidence
<1>4. SeenInv' /\ SettleInv'
  BY <1>1, AnswerKeeps, AnswerSeen, AnswerSettles DEF IInv, SettleInv
<1>5. FreshInv' /\ Accounted'
  BY <1>1, AnswerKeeps DEF IInv, FreshInv, Fresh, Accounted, Pending, Over, files, evidence
<1> QED
  BY <1>2, <1>3, <1>4, <1>5 DEF IInv

\* The registry that a script writes: the one before with one operation more or one revoked.
LEMMA LandsInRegistry ==
  ASSUME IInv, NEW s \in sent, Land(s), s.kind # "apply"
  PROVE  /\ registry' \in Registry /\ registry'.rev = registry.rev + 1 /\ registry'.ops = s.ops /\ hba' = hba
         /\ \A r \in sent : r.kind # "init" => r.rev < registry'.rev
         /\ \/ s.kind = "init" /\ registry.rev = 0 /\ s.ops = registry.ops
            \/ /\ s.kind = "update" /\ s.token \in Token /\ Pending(s.token) /\ registry.ops[s.token] # "revoked"
               /\ \E x \in {"active", "revoked"} : s.ops = [registry.ops EXCEPT ![s.token] = x]
<1>1. s \in Script /\ registry.rev \in Nat /\ registry.ops \in Ops
  BY DEF IInv, TypeInv, TypeOK, Ops
<1>2. registry' \in Registry /\ registry'.rev = registry.rev + 1 /\ registry'.ops = s.ops /\ hba' = hba
  BY <1>1 DEF Land, Script, Registry
<1>3. \A r \in sent : r.kind # "init" => r.rev < registry'.rev
  BY <1>1, <1>2 DEF IInv, SentInv, TypeInv, Script
<1>4. CASE s.kind = "init"
  <2>1. registry.rev = 0
    BY <1>4 DEF Land, Unchanged
  <2>2. s.ops = registry.ops
    BY <2>1, <1>1, <1>4 DEF IInv, SentInv, FreshInv, Ops
  <2> QED
    BY <1>1, <1>2, <1>3, <1>4, <2>1, <2>2 DEF Script
<1>5. CASE s.kind = "update"
  <2>1. Current(s)
    BY <1>5 DEF Land, Unchanged, Current
  <2> QED
    <3>1. s.token \in Token /\ Pending(s.token) /\ registry.ops[s.token] # "revoked"
      BY <1>1, <1>5, <2>1 DEF IInv, SentInv, Script
    <3>2. \E x \in {"active", "revoked"} : s.ops = [registry.ops EXCEPT ![s.token] = x]
      BY <1>5, <2>1 DEF IInv, SentInv
    <3> QED
      BY <1>2, <1>3, <1>5, <3>1, <3>2
<1> QED
  BY <1>1, <1>4, <1>5 DEF Script

LEMMA RegistryLandKeeps == ASSUME IInv, NEW s \in sent, Land(s), s.kind # "apply" PROVE IInv'
<1>1. sent' = sent \ {s} /\ UNCHANGED <<hba, files, used>> /\ AnswerStep(s)
  BY AnswerLands, LandsInRegistry DEF Land
<1>2. /\ registry' \in Registry /\ registry'.rev = registry.rev + 1 /\ registry'.ops = s.ops
      /\ registry.rev \in Nat /\ registry.ops \in Ops
      /\ \A r \in sent : r.kind # "init" => r.rev < registry'.rev
  BY LandsInRegistry DEF IInv, TypeInv, TypeOK, Ops
<1>3. SentInv'
  <2>1. \A r \in sent' : r \in sent /\ ~Current(r)'
    BY <1>1, <1>2 DEF IInv, TypeInv, Script, Current
  <2> QED
    BY <1>2, <2>1 DEF IInv, SentInv, TypeInv, Script
<1>4. TypeInv' /\ JournalInv' /\ ClientInv'
  BY <1>1, <1>2, AnswerKeeps DEF IInv, TypeInv, TypeOK, Registry, Ops, files, evidence
<1>5. SeenInv'
  BY SMTT(30), <1>1, <1>2, AnswerKeeps, IdleType DEF IInv, SeenInv, TypeInv, Proc, Registry
<1>6. \A t \in Token : registry.ops[t] # registry'.ops[t] => t = s.token /\ Pending(t) /\ registry.ops[t] # "revoked"
                                                          /\ s.kind = "update"
  <2>1. CASE s.kind = "init"
    BY <1>2, <2>1, LandsInRegistry
  <2>2. CASE s.kind # "init"
    <3>1. PICK x \in {"active", "revoked"} : s.ops = [registry.ops EXCEPT ![s.token] = x]
      BY <2>2, LandsInRegistry
    <3> QED
      BY <1>2, <2>2, <3>1, LandsInRegistry DEF Ops
  <2> QED
    BY <2>1, <2>2
<1>7. SettleInv'
  <2>1. ASSUME proc'.at \in Closed
        PROVE  registry'.ops[proc.token] = "revoked"
    <3>1. proc.at \in Closed /\ proc.token \in Token /\ registry.ops[proc.token] = "revoked"
      BY <1>1, <2>1, AnswerKeeps, ProcToken DEF IInv, SettleInv
    <3> QED
      BY <1>6, <3>1
  <2> QED
    BY <1>1, <2>1, AnswerSettles
<1>8. FreshInv' /\ Accounted'
  <2>1. Accounted'
    BY <1>1, <1>6 DEF IInv, Accounted, Pending, Over, files, evidence
  <2>2. s.kind = "update" => ~Fresh(s.token)
    BY DEF Fresh
  <2>3. \A t \in Token : Unjournaled(t)' => Fresh(t) /\ registry'.ops[t] = registry.ops[t]
    BY <1>1, <1>6, <2>2, AnswerKeeps DEF IInv, FreshInv
  <2>4. FreshInv'
    BY <1>1, <1>2, <2>3 DEF IInv, FreshInv, Fresh, files, evidence
  <2> QED
    BY <2>1, <2>4
<1> QED
  BY <1>3, <1>4, <1>5, <1>7, <1>8 DEF IInv

\* Rules that land are the pending operation's, whose authority holds.
LEMMA ApplyLandKeeps == ASSUME IInv, NEW s \in sent, Land(s), s.kind = "apply" PROVE IInv'
<1>1. sent' = sent \ {s} /\ UNCHANGED <<registry, files, used>> /\ hba' = s.token /\ AnswerStep(s)
  BY AnswerLands DEF Land
<1>2. s.token \in Token /\ Pending(s.token) /\ registry.ops[s.token] = "active"
  <2>1. Current(s)
    BY DEF Land, Unchanged, Current
  <2> QED
    BY <2>1 DEF IInv, SentInv, TypeInv, Script
<1>3. SentInv'
  BY <1>1, SentKept, SubsetDescend DEF IInv, files
<1>4. TypeInv' /\ JournalInv' /\ ClientInv'
  BY <1>1, <1>2, AnswerKeeps DEF IInv, TypeInv, TypeOK, files, evidence
<1>5. SeenInv' /\ SettleInv'
  <2>1. proc'.at \notin Closed
    BY <1>1, <1>2, AnswerKeeps, ProcToken DEF IInv, SettleInv, Pending
  <2> QED
    BY <1>1, <2>1, AnswerSeen, AnswerSettles
<1>6. FreshInv' /\ Accounted'
  <2>1. ~Fresh(s.token) /\ s.token <= used
    BY <1>2 DEF IInv, Fresh, JournalInv, Pending
  <2>2. \A t \in Token : Unjournaled(t) => t # s.token
    BY <2>1 DEF IInv, FreshInv
  <2> QED
    BY <1>1, <1>2, <2>1, <2>2, AnswerKeeps DEF IInv, FreshInv, Fresh, Accounted, Pending, Over, files,
       evidence
<1> QED
  BY <1>3, <1>4, <1>5, <1>6 DEF IInv

-------------------------------------------------------------------------------
LEMMA StepKeeps == IInv /\ [Next]_vars => IInv'
<1> SUFFICES ASSUME IInv, [Next]_vars PROVE IInv'
  OBVIOUS
<1>1. CASE OwnerStep
  BY <1>1, AcquireKeeps, PinOpensKeeps, initializeKeeps, read_idleKeeps, SnapshotKeeps, prepareKeeps,
     JournalOpensKeeps, beginKeeps, RegisterKeeps, authorizeKeeps, AttemptPublishedKeeps, applyKeeps,
     VerifiedKeeps, CompletionPublishedKeeps, complete_ownedKeeps DEF OwnerStep
<1>2. CASE RecoveryStep
  BY <1>2, RecoverKeeps, retireKeeps, ConfirmKeeps, ObserveKeeps, persistKeeps, PersistEndsKeeps,
     UnlinkKeeps DEF RecoveryStep
<1>3. CASE \E s \in sent : Land(s) \/ Refused(s)
  BY <1>3, RegistryLandKeeps, ApplyLandKeeps, RefusedKeeps
<1>4. CASE Exits
  BY <1>4, ExitsKeeps
<1>5. CASE UNCHANGED vars
  <2>1. /\ UNCHANGED <<hba, registry, sent, pin, journal, attempt, completion, outcome, proc, used>>
        /\ UNCHANGED <<container, journal, outcome, used>>
    BY <1>5 DEF vars, container, files, evidence
  <2>2. FreshInv' /\ SentInv' /\ Accounted'
    BY <2>1, Quiet DEF Unjournaled
  <2>3. TypeInv'
    BY <2>1 DEF IInv, TypeInv, TypeOK
  <2>4. JournalInv' /\ SeenInv' /\ ClientInv' /\ SettleInv'
    BY <2>1 DEF IInv, JournalInv, SeenInv, ClientInv, SettleInv
  <2> QED
    BY <2>2, <2>3, <2>4 DEF IInv
<1> QED
  BY <1>1, <1>2, <1>3, <1>4, <1>5 DEF Next

\* Every reachable state of the journal protocol, for any number of operations, satisfies the
\* inductive invariant (lab/hba_journal.py, lab/hba_authority.py, lab/hba_settlement.py).
THEOREM Inductive == Spec => []IInv
BY InitIInv, StepKeeps, PTL DEF Spec

\* Whatever a change of the access rules left in the container, an authority, its rules or a script
\* that could still land, is named by the pending journal or is over (lab/hba_reconcile.py retire_locked).
THEOREM ChangesAccounted == Spec => []NothingUnaccounted
BY Inductive, ScriptsAccounted, PTL

\* Every variable keeps its type.
THEOREM TypeCorrect == Spec => []TypeOK
<1>1. IInv => TypeOK
  BY DEF IInv, TypeInv
<1> QED
  BY <1>1, Inductive, PTL

===============================================================================
