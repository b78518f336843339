----------------------------- MODULE CreditFlow -----------------------------
(***************************************************************************)
(* Flow control from the page to the guest (vm/protocol/README.md 7): the  *)
(* host's CreditedSender in web/vm/vm_protocol.js, the agent's counting in *)
(* vm/agent/src/agent.rs, and the two things that cut across them: the     *)
(* snapshot (vm/tools/build-state.mjs saves it after PARKED, the page      *)
(* restores it) and an agent that dies and is respawned.                   *)
(*                                                                         *)
(* Positions are offsets into the bytes the host has sent since the last   *)
(* restore.  A frame is the offset of its end, so the queue is a set of    *)
(* offsets: the frames leave in the order of the numbers, and the length   *)
(* of one is its distance to the one before it.  A CREDIT is likewise the  *)
(* offset up to which it reports; its `bytes` is the distance to the       *)
(* CREDIT before it.                                                       *)
(*                                                                         *)
(*   available   CreditedSender.#available                                 *)
(*   queue       CreditedSender.#queue                                     *)
(*   written     the bytes written to the guest's tty                      *)
(*   taken       those the agent has read from it                          *)
(*   reported    those it has reported: #unreported is taken - reported    *)
(*   credits     the CREDIT frames on their way, the agent's outbox        *)
(*               included                                                  *)
(*   granted     the bytes whose CREDIT the host has applied               *)
(*   lost        the bytes a dead agent took with it: read or flushed, and *)
(*               never to be reported                                      *)
(*   phase       "build", "parked" (PARKED is sent), then "page"           *)
(*   snapshot    the unreported bytes of the agent in the saved machine    *)
(***************************************************************************)
EXTENDS Integers

CONSTANTS
  Window,     \* CREDIT_WINDOW: 16384
  Step,       \* CREDIT_STEP: 4096
  MaxFrame,   \* the longest frame to the agent on the wire: 4096 and some 30 bytes
  MaxTaken,   \* the buffer the agent reads into: 4096
  MaxSent     \* bound: the bytes sent between two restores

ASSUME CreditAssumption ==
  /\ Window \in Nat /\ Step \in 1 .. Window /\ MaxTaken \in Nat /\ MaxSent \in Nat
  /\ MaxFrame \in Nat /\ MaxFrame <= Window - Step + 1

VARIABLES available, queue, written, taken, reported, credits, granted, lost, phase, snapshot

host == << available, queue >>
agent == << taken, reported, credits >>
creditVars == << available, queue, written, taken, reported, credits, granted, lost, phase, snapshot >>

Smaller(a, b) == IF a <= b THEN a ELSE b

CreditInit ==
  /\ available = Window /\ queue = {}
  /\ written = 0 /\ taken = 0 /\ reported = 0 /\ granted = 0 /\ lost = 0
  /\ credits = {}
  /\ phase = "build" /\ snapshot = 0

-----------------------------------------------------------------------------
(* The host.                                                               *)

(* Mutant: a frame is written while there is any credit.                   *)
DrainSome(frames, credit) ==
  \E last \in {written} \cup frames :
    /\ last # written => credit > 0
    /\ \A end \in frames : credit > 0 => end <= last
    /\ written' = last
    /\ available' = credit - (last - written)
    /\ queue' = {end \in frames : end > last}

(* #drain(): every frame the credit covers, with those ahead of it.        *)
Drain(frames, credit) ==
  LET fits == {end \in frames : end - written <= credit} IN
  \E last \in {written} \cup fits :
    /\ \A end \in fits : end <= last
    /\ written' = last
    /\ available' = credit - (last - written)
    /\ queue' = {end \in frames : end > last}

(* send(frame), of any length a frame has.                                 *)
Send ==
  /\ phase # "parked"
  /\ \E last \in {written} \cup queue, length \in 1 .. MaxFrame :
       /\ \A end \in queue : end <= last
       /\ last + length <= MaxSent
       /\ Drain(queue \cup {last + length}, available)
  /\ UNCHANGED << agent, granted, lost, phase, snapshot >>

(* Mutant: grant() does not drain.                                         *)
GrantOnly ==
  \E upTo \in credits :
    /\ \A other \in credits : upTo <= other
    /\ credits' = credits \ {upTo}
    /\ granted' = upTo
    /\ available' = Smaller(Window, available + (upTo - granted))
    /\ UNCHANGED << queue, written, taken, reported, lost, phase, snapshot >>

(* grant(bytes) for the next CREDIT.                                       *)
Grant ==
  \E upTo \in credits :
    /\ \A other \in credits : upTo <= other
    /\ credits' = credits \ {upTo}
    /\ granted' = upTo
    /\ Drain(queue, Smaller(Window, available + (upTo - granted)))
    /\ UNCHANGED << taken, reported, lost, phase, snapshot >>

-----------------------------------------------------------------------------
(* The agent.                                                              *)

(* Mutant: a CREDIT goes out once more than a step is unreported.          *)
ReportCreditLate(upTo) ==
  LET next == reported + Smaller(upTo - reported, Window) IN
  IF upTo - reported > Step
  THEN reported' = next /\ credits' = credits \cup {next}
  ELSE UNCHANGED << reported, credits >>

(* report_credit() after reading up to an offset.  One turn of its loop:   *)
(* LineHasRoom makes a second one impossible.                              *)
ReportCredit(upTo) ==
  LET next == reported + Smaller(upTo - reported, Window) IN
  IF upTo - reported >= Step
  THEN reported' = next /\ credits' = credits \cup {next}
  ELSE UNCHANGED << reported, credits >>

(* on_serial() with what one read(2) returned.                             *)
OnSerial ==
  \E bytes \in 1 .. Smaller(MaxTaken, written - taken) :
    /\ taken' = taken + bytes
    /\ ReportCredit(taken')
    /\ UNCHANGED << host, written, granted, lost, phase, snapshot >>

(* Mutant: PARKED is sent with bytes unreported.                           *)
OnPreparedOwing ==
  /\ phase = "build" /\ taken = written /\ queue = {}
  /\ phase' = "parked"
  /\ UNCHANGED << host, agent, written, granted, lost, snapshot >>

(* on_prepared(): PREPARE was the last frame.  flush_credit() reports what *)
(* is left, even under a step, and PARKED follows.                         *)
OnPrepared ==
  /\ phase = "build" /\ taken = written /\ queue = {}
  /\ reported' = taken
  /\ credits' = IF taken > reported THEN credits \cup {taken} ELSE credits
  /\ phase' = "parked"
  /\ UNCHANGED << host, written, taken, granted, lost, snapshot >>

(* A dead agent loses its count and its outbox; its successor flushes the  *)
(* tty when it opens the port.                                             *)
AgentRestarts ==
  /\ phase = "page"
  /\ lost' = lost + (written - granted)
  /\ taken' = written /\ reported' = written /\ granted' = written
  /\ credits' = {}
  /\ UNCHANGED << host, written, phase, snapshot >>

-----------------------------------------------------------------------------
(* The machine.                                                            *)

(* The guest is the saved one again, and the host forgets the old one:     *)
(* reset().                                                                *)
RestoreOf(owed) ==
  /\ available' = Window /\ queue' = {}
  /\ written' = owed /\ taken' = owed
  /\ reported' = 0 /\ granted' = 0 /\ credits' = {} /\ lost' = 0

(* The pipeline has PARKED, and so every CREDIT sent before it.            *)
Save ==
  /\ phase = "parked" /\ credits = {}
  /\ snapshot' = taken - reported
  /\ RestoreOf(snapshot')
  /\ phase' = "page"

Restore ==
  /\ phase = "page"
  /\ RestoreOf(snapshot)
  /\ UNCHANGED << phase, snapshot >>

CreditNext ==
  \/ Send \/ Grant \/ OnSerial \/ OnPrepared \/ AgentRestarts \/ Save \/ Restore

CreditSpec == CreditInit /\ [][CreditNext]_creditVars

(* The agent polls its port, the host takes what arrives, and the page     *)
(* restores a machine whose agent died: its READY or a deadline parks it.  *)
CreditFairness ==
  WF_creditVars(OnSerial) /\ WF_creditVars(Grant) /\ WF_creditVars(Restore /\ lost > 0)

FairCreditSpec == CreditSpec /\ CreditFairness

-----------------------------------------------------------------------------
(* Properties.                                                             *)

(* Every offset is a number, and the credit is between 0 and the window.   *)
CreditTypeOK ==
  /\ available \in 0 .. Window
  /\ written \in Nat /\ taken \in Nat /\ reported \in Nat /\ granted \in Nat /\ lost \in Nat
  /\ queue \subseteq Nat /\ credits \subseteq Nat
  /\ phase \in {"build", "parked", "page"} /\ snapshot \in Nat

(* No credit comes into being or goes, other than with a dead agent: what  *)
(* the host may still write, what it has written and not been granted back *)
(* and what was lost make up the window.  So grant()'s cap never bites.    *)
Conserved == available + (written - granted) + lost = Window

(* The tty never holds more than a window of unread bytes, so it drops     *)
(* none; nor does the agent owe more than one CREDIT can carry.            *)
LineHasRoom == written - taken <= Window /\ taken - reported <= Window

(* The two ends never wait on each other: while a frame is held back,      *)
(* there are bytes for the agent to read or a CREDIT for the host to take, *)
(* although the agent keeps up to a step to itself.                        *)
NeverStalls ==
  queue # {} => taken < written \/ credits # {} \/ lost > 0

(* A frame that was held back is written, or dropped by a restore.         *)
HeldFramesLeave ==
  \A end \in 1 .. MaxSent : end \in queue ~> end \notin queue
=============================================================================
