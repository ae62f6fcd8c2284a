----------------------------- MODULE HbaOperation -----------------------------
(***************************************************************************)
(* One change of the database's access rules (pg_hba.conf) as an operation *)
(* with an owner: lab/hba_startup.py, lab/hba_runtime.py,                  *)
(* lab/hba_journal.py, lab/hba_apply.py, lab/hba_reconcile.py and          *)
(* lab/hba_settlement.py over the registry of lab/hba_authority.py.        *)
(*                                                                         *)
(* The three locks (worker, effect, operation) admit one process at a time *)
(* (`proc'), an owner or a recovery; it may die between any two steps.     *)
(* What it sent into the container does not die with it: a script in       *)
(* `sent' may land long after, or never. Rules are named by the operation  *)
(* that wrote them (each carries a revision line of its own), 0 the first. *)
(***************************************************************************)
EXTENDS Naturals

CONSTANT MaxOp   \* how many operations are begun, a bound of the model

ASSUME OpAssumption == MaxOp \in Nat \ {0}

Token == 1 .. MaxOp
File == {"none", "torn", "whole"}

VARIABLES
    hba,         \* the rules in pg_hba.conf
    registry,    \* operations and their authority; rev 0: not initialized
    sent,        \* scripts in the container, and whether a client waits
    pin,         \* hba-generation.json
    journal,     \* hba-operation.json
    attempt, completion, outcome,   \* the evidence of each operation
    proc,        \* the process that has the locks
    used         \* operations begun

container == <<hba, registry, sent>>
evidence == <<attempt, completion, outcome>>
files == <<pin, journal, evidence>>
vars == <<container, files, proc, used>>

NoJournal == [state |-> "none", token |-> 0, base |-> 0]
Idle == [at |-> "none", token |-> 0, base |-> 0, seen |-> [rev |-> 0, ops |-> [t \in Token |-> "none"]],
         kind |-> "none", observed |-> 0]

Init ==
    /\ hba = 0
    /\ registry = [rev |-> 0, ops |-> [t \in Token |-> "none"]]
    /\ sent = {}
    /\ pin = "none" /\ journal = NoJournal
    /\ attempt = [t \in Token |-> "none"] /\ completion = [t \in Token |-> "none"]
    /\ outcome = [t \in Token |-> "none"]
    /\ proc = Idle /\ used = 0

---------------------------------------------------------------------------
(* A process and what it sends *)

Goes(a) == proc' = [proc EXCEPT !.at = a]

\* A process that ends, by an error or by dying: its scripts go on alone.
Ends ==
    /\ proc' = Idle
    /\ sent' = {[s EXCEPT !.client = FALSE] : s \in sent}

\* What a read of the registry says.
OthersActive(r, t) == \E u \in Token \ {t} : r.ops[u] = "active"
\* A bug: the operation is taken for retired when the registry does not know it yet.
Revoked_OrAbsent(r, t) == r.ops[t] # "active"
Revoked(r, t) == r.ops[t] = "revoked"

dispatch(kind, rev, base, ops, token) ==
    sent' = sent \union {[kind |-> kind, rev |-> rev, base |-> base, ops |-> ops,
                          token |-> token, client |-> TRUE]}

\* The whole new registry is made from the snapshot and sent with its digest.
update(r, t, state) == dispatch("update", r.rev, 0, [r.ops EXCEPT ![t] = state], t)

\* Where a client goes on after its script's success.
Answered(at) ==
    CASE at = "initializing" -> "ready"
      [] at = "registering" -> "registered"
      [] at = "applying" -> "applied"
      [] at = "retiring" -> "retired"

\* What a script compares under the lock before it replaces its target.
Unchanged(s) ==
    CASE s.kind = "init" -> registry.rev = 0
      [] s.kind = "update" -> s.rev = registry.rev
      [] s.kind = "apply" -> s.rev = registry.rev /\ s.base = hba

\* Its success may be lost on the way to its client, who then takes it for an error.
Land(s) ==
    /\ Unchanged(s)
    /\ IF s.kind = "apply"
         THEN hba' = s.token /\ UNCHANGED registry
         ELSE registry' = [rev |-> registry.rev + 1, ops |-> s.ops] /\ UNCHANGED hba
    /\ sent' = sent \ {s}
    /\ IF s.client THEN Goes(Answered(proc.at)) \/ proc' = Idle ELSE UNCHANGED proc
    /\ UNCHANGED <<files, used>>

\* The lock was busy, a digest differs, the input was cut short, the container restarted.
Refused(s) ==
    /\ sent' = sent \ {s}
    /\ IF s.client THEN proc' = Idle ELSE UNCHANGED proc
    /\ UNCHANGED <<hba, registry, files, used>>

---------------------------------------------------------------------------
(* The owner: the installation's start, or a provisioning run *)

\* Nobody begins over a journal, torn or whole.
Acquire ==
    /\ proc.at = "none" /\ used < MaxOp
    /\ journal.state = "none"
    /\ pin # "torn"
    /\ Goes(IF pin = "none" THEN "fresh" ELSE "ready")
    /\ UNCHANGED <<container, files, used>>

\* A database that was just created: the pin first, then its registry.
PinOpens ==
    /\ proc.at = "fresh" /\ pin = "none"
    /\ pin' = "torn"
    /\ UNCHANGED <<container, journal, evidence, proc, used>>

initialize ==
    /\ proc.at = "fresh" /\ pin = "torn"
    /\ pin' = "whole"
    /\ dispatch("init", 0, 0, [t \in Token |-> "none"], 0)
    /\ Goes("initializing")
    /\ UNCHANGED <<hba, registry, journal, evidence, used>>

read_idle ==
    /\ proc.at = "ready" /\ registry.rev > 0
    /\ ~OthersActive(registry, 0)
    /\ Goes("idle")
    /\ UNCHANGED <<container, files, used>>

\* A worker builds for a while between its preflight and the rules.
Snapshot ==
    /\ proc.at = "idle"
    /\ proc' = [proc EXCEPT !.at = "snapshot", !.seen = registry]
    /\ UNCHANGED <<container, files, used>>

prepare ==
    /\ proc.at = "snapshot"
    /\ used' = used + 1
    /\ proc' = [proc EXCEPT !.at = "prepared", !.base = hba, !.token = used + 1]
    /\ UNCHANGED <<container, files>>

JournalOpens ==
    /\ proc.at = "prepared" /\ journal.state = "none"
    /\ journal' = [state |-> "torn", token |-> proc.token, base |-> proc.base]
    /\ UNCHANGED <<container, pin, evidence, proc, used>>

begin ==
    /\ proc.at = "prepared" /\ journal.state = "torn"
    /\ journal' = [journal EXCEPT !.state = "whole"]
    /\ Goes("begun")
    /\ UNCHANGED <<container, pin, evidence, used>>

Register ==
    /\ proc.at = "begun"
    /\ ~OthersActive(proc.seen, proc.token)
    /\ update(proc.seen, proc.token, "active")
    /\ Goes("registering")
    /\ UNCHANGED <<hba, registry, files, used>>

authorize ==
    /\ proc.at = "registered"
    /\ registry.ops[proc.token] = "active"
    /\ proc' = [proc EXCEPT !.at = "permitted", !.seen = registry]
    /\ UNCHANGED <<container, files, used>>

\* Evidence is created and then written; a torn file is never replaced.
Published(file) == [file EXCEPT ![proc.token] = IF @ = "none" THEN "torn" ELSE "whole"]

AttemptPublished ==
    /\ proc.at = "permitted"
    /\ attempt[proc.token] # "whole"
    /\ attempt' = Published(attempt)
    /\ UNCHANGED <<container, pin, journal, completion, outcome, proc, used>>

apply ==
    /\ proc.at = "permitted"
    /\ attempt[proc.token] = "whole"
    /\ dispatch("apply", proc.seen.rev, proc.base, registry.ops, proc.token)
    /\ Goes("applying")
    /\ UNCHANGED <<hba, registry, files, used>>

\* The bytes, the parser, the reload's acknowledgement, the bytes and the authority
\* again; rules the parser refuses end the process here.
Verified ==
    /\ proc.at = "applied"
    /\ hba = proc.token
    /\ registry.ops[proc.token] = "active"
    /\ Goes("verified")
    /\ UNCHANGED <<container, files, used>>

CompletionPublished ==
    /\ proc.at = "verified"
    /\ completion[proc.token] # "whole"
    /\ completion' = Published(completion)
    /\ UNCHANGED <<container, pin, journal, attempt, outcome, proc, used>>

complete_owned ==
    /\ proc.at = "verified"
    /\ completion[proc.token] = "whole"
    /\ proc' = [proc EXCEPT !.at = "retire", !.kind = "applied"]
    /\ UNCHANGED <<container, files, used>>

---------------------------------------------------------------------------
(* Recovery, under fresh locks; and the settlement both share *)

read_completion(t) == attempt[t] = "whole" /\ completion[t] = "whole"

\* cancel_baseline and complete_applied.
Recover(kind) ==
    /\ proc.at = "none"
    /\ journal.state = "whole"
    /\ kind = "applied" => read_completion(journal.token)
    /\ proc' = [Idle EXCEPT !.at = "retire", !.kind = kind, !.token = journal.token,
                            !.base = journal.base]
    /\ UNCHANGED <<container, files, used>>

retire ==
    /\ proc.at = "retire"
    /\ ~OthersActive(registry, proc.token)
    /\ IF Revoked(registry, proc.token)
         THEN Goes("retired") /\ UNCHANGED sent
         ELSE update(registry, proc.token, "revoked") /\ Goes("retiring")
    /\ UNCHANGED <<hba, registry, files, used>>

Confirm ==
    /\ proc.at = "retired"
    /\ ~OthersActive(registry, proc.token)
    /\ Revoked(registry, proc.token)
    /\ Goes("confirmed")
    /\ UNCHANGED <<container, files, used>>

\* The bytes are looked at after the authority is gone.
Observe ==
    /\ proc.at = "confirmed"
    /\ proc' = [proc EXCEPT !.at = "observed", !.observed = hba]
    /\ UNCHANGED <<container, files, used>>

\* The bytes an outcome of this kind needs.
Fits == proc.observed = IF proc.kind = "applied" THEN proc.token ELSE proc.base

\* An outcome that is there already must be the same; a torn one never is.
persist ==
    /\ proc.at = "observed"
    /\ Fits
    /\ \/ outcome[proc.token] = "none"
          /\ outcome' = [outcome EXCEPT ![proc.token] = "torn"]
          /\ Goes("persisting")
       \/ outcome[proc.token] = proc.kind
          /\ Goes("persisted") /\ UNCHANGED outcome
    /\ UNCHANGED <<container, pin, journal, attempt, completion, used>>

PersistEnds ==
    /\ proc.at = "persisting"
    /\ outcome' = [outcome EXCEPT ![proc.token] = proc.kind]
    /\ Goes("persisted")
    /\ UNCHANGED <<container, pin, journal, attempt, completion, used>>

Unlink ==
    /\ proc.at = "persisted"
    /\ journal' = NoJournal
    /\ proc' = Idle
    /\ UNCHANGED <<container, pin, evidence, used>>

---------------------------------------------------------------------------
\* Killed, or stopped by any check that does not hold.
Exits ==
    /\ proc.at # "none"
    /\ Ends
    /\ UNCHANGED <<hba, registry, files, used>>

OwnerStep ==
    \/ Acquire \/ PinOpens \/ initialize \/ read_idle \/ Snapshot \/ prepare
    \/ JournalOpens \/ begin \/ Register \/ authorize \/ AttemptPublished \/ apply
    \/ Verified \/ CompletionPublished \/ complete_owned

RecoveryStep ==
    \/ \E kind \in {"baseline", "applied"} : Recover(kind)
    \/ retire \/ Confirm \/ Observe \/ persist \/ PersistEnds \/ Unlink

Next ==
    \/ OwnerStep
    \/ RecoveryStep
    \/ \E s \in sent : Land(s) \/ Refused(s)
    \/ Exits

Spec == Init /\ [][Next]_vars

---------------------------------------------------------------------------
(* Properties *)

\* Types of the variables.
TypeOK ==
    /\ hba \in 0 .. MaxOp /\ used \in 0 .. MaxOp
    /\ registry \in [rev : Nat, ops : [Token -> {"none", "active", "revoked"}]]
    /\ pin \in File
    /\ journal \in [state : File, token : 0 .. MaxOp, base : 0 .. MaxOp]
    /\ attempt \in [Token -> File] /\ completion \in [Token -> File]
    /\ outcome \in [Token -> {"none", "torn", "baseline", "applied"}]

Pending(t) == journal.state = "whole" /\ journal.token = t

\* An operation is over: archived, its authority revoked, and what the archive says of the
\* rules is true: rules that were found in place of those of the operation never become its.
Over(t) ==
    /\ registry.ops[t] = "revoked"
    /\ \/ outcome[t] = "applied"
       \/ outcome[t] = "baseline" /\ hba # t

\* An operation that left anything in the container, an authority, its rules, or a
\* script that could still land, is named by the pending journal or is over. However late a
\* registration or an apply arrives, it cannot block or change a database nobody is told of
\* (lab/hba_journal.py begin, lab/hba_reconcile.py retire_locked, lab/hba_settlement.py).
NothingUnaccounted ==
    \A t \in Token :
        (\/ registry.ops[t] # "none"
         \/ hba = t
         \/ outcome[t] # "none"
         \/ \E s \in sent : s.token = t /\ Unchanged(s)) =>
        Pending(t) \/ Over(t)
===============================================================================
