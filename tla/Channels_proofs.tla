--------------------------- MODULE Channels_proofs ---------------------------
(***************************************************************************)
(* The channels of the page: two with a bounded store between their ends,  *)
(* and the line of bytes that carries messages.                            *)
(*                                                                         *)
(* ReplChannel, for a ring of any capacity, texts and reads of any length: *)
(* no wake-up is lost, no batch of files is skipped, doubled or            *)
(* overwritten, and the page never writes over bytes that were not read.   *)
(* And the ring is a Terminal: what is typed is read once, in order, and   *)
(* an end of input ends one read.                                          *)
(*                                                                         *)
(* CreditFlow, for every window, step, frame length and read size that its *)
(* assumption allows: credit is conserved, the guest's tty has room for    *)
(* what is sent, and the two ends never wait on each other.                *)
(*                                                                         *)
(* Frames (at the end), for every size of block and payload and every      *)
(* history: what is sent behind a delimiter is heard as it was sent, in    *)
(* order, however it is split into reads and whatever noise comes between. *)
(***************************************************************************)
EXTENDS ReplChannel, CreditFlow, Frames, Sums, SequenceTheorems, TLAPS

-----------------------------------------------------------------------------
(* Indices go around once at most.                                         *)
LEMMA ModBelow ==
  ASSUME NEW x \in Nat, x < Capacity + Capacity
  PROVE  x % Capacity = IF x < Capacity THEN x ELSE x - Capacity
BY SizesAssumption

LEMMA FilledIs ==
  ASSUME NEW w \in Slots, NEW r \in Slots
  PROVE  /\ Filled(w, r) = IF w >= r THEN w - r ELSE w - r + Capacity
         /\ Filled(w, r) \in Slots
         /\ Filled(w, r) = 0 <=> w = r
<1> USE SizesAssumption DEF Slots
<1>1. w - r + Capacity \in Nat /\ w - r + Capacity < Capacity + Capacity
  OBVIOUS
<1>2. (w - r + Capacity) % Capacity =
        IF w - r + Capacity < Capacity THEN w - r + Capacity ELSE w - r + Capacity - Capacity
  BY <1>1, ModBelow
<1> QED BY <1>2 DEF Filled

LEMMA Onward ==
  ASSUME NEW w \in Slots, NEW n \in Slots
  PROVE  /\ (w + n) % Capacity = IF w + n < Capacity THEN w + n ELSE w + n - Capacity
         /\ (w + n) % Capacity \in Slots
<1> USE SizesAssumption DEF Slots
<1>1. w + n \in Nat /\ w + n < Capacity + Capacity
  OBVIOUS
<1>2. (w + n) % Capacity = IF w + n < Capacity THEN w + n ELSE w + n - Capacity
  BY <1>1, ModBelow
<1> QED BY <1>2

(* Writing n bytes into their room, and reading n of those there are.      *)
LEMMA Grows ==
  ASSUME NEW w \in Slots, NEW r \in Slots, NEW n \in Nat, Filled(w, r) + n < Capacity
  PROVE  /\ (w + n) % Capacity \in Slots
         /\ Filled((w + n) % Capacity, r) = Filled(w, r) + n
<1> USE SizesAssumption DEF Slots
<1>1. Filled(w, r) \in Nat /\ n \in Slots
  BY FilledIs
<1> DEFINE onward == (w + n) % Capacity
<1>2. onward \in Slots /\ onward = IF w + n < Capacity THEN w + n ELSE w + n - Capacity
  BY <1>1, Onward
<1>3. Filled(onward, r) = IF onward >= r THEN onward - r ELSE onward - r + Capacity
  BY <1>2, FilledIs
<1>4. Filled(w, r) = IF w >= r THEN w - r ELSE w - r + Capacity
  BY FilledIs
<1> HIDE DEF onward
<1>5. Filled(onward, r) = Filled(w, r) + n
  BY <1>1, <1>2, <1>3, <1>4
<1> QED BY <1>2, <1>5 DEF onward

LEMMA Shrinks ==
  ASSUME NEW w \in Slots, NEW r \in Slots, NEW n \in Nat, n <= Filled(w, r)
  PROVE  /\ (r + n) % Capacity \in Slots
         /\ Filled(w, (r + n) % Capacity) = Filled(w, r) - n
<1> USE SizesAssumption DEF Slots
<1>1. n \in Slots
  BY FilledIs
<1> DEFINE onward == (r + n) % Capacity
<1>2. onward \in Slots /\ onward = IF r + n < Capacity THEN r + n ELSE r + n - Capacity
  BY <1>1, Onward
<1>3. Filled(w, onward) = IF w >= onward THEN w - onward ELSE w - onward + Capacity
  BY <1>2, FilledIs
<1>4. Filled(w, r) = IF w >= r THEN w - r ELSE w - r + Capacity
  BY FilledIs
<1> HIDE DEF onward
<1>5. Filled(w, onward) = Filled(w, r) - n
  BY <1>1, <1>2, <1>3, <1>4
<1> QED BY <1>2, <1>5 DEF onward

-----------------------------------------------------------------------------
(* The inductive invariant.                                                *)

(* The bounds, while a write or a batch is under way.                      *)
WithinBounds ==
  /\ page \in {"copy", "publish"} => accepted + Len(batch) <= MaxBytes
  /\ page = "fill" => sent < MaxBatches

(* What the page writes fits, and what the worker copies is there: the     *)
(* indices each loaded are still good when it uses them.                   *)
RingRoom ==
  /\ NothingOverwritten
  /\ worker = "copy" => seen # read /\ Filled(seen, read) <= Filled(write, read)
  /\ worker = "return" => write # read /\ Len(out) <= Filled(write, read)

(* A batch that is under way is new, and one in the mailbox not yet taken. *)
MailOrder ==
  /\ page \in {"fill", "post"} => ~ full
  /\ page = "post" => mail = sent /\ sent = took + 1
  /\ ~ full /\ page # "post" => took = sent
  /\ worker \in {"takeMail", "clearMail"} => full
  /\ worker = "clearMail" => took = mail /\ mail = sent
  /\ full /\ worker # "clearMail" => mail = sent /\ sent = took + 1

(* Once the reader has looked at the ring and at the mailbox, whatever     *)
(* comes is followed by a signal it has not loaded.                        *)
Woken ==
  /\ worker \in ReadSteps \ {"load"} => signalled <= signal
  /\ worker \in {"look", "wait", "asleep"} /\ full =>
       page = "signal" \/ signalled < signal
  /\ worker \in {"wait", "asleep"} /\ write # read =>
       page = "signal" \/ signalled < signal
  /\ worker = "asleep" /\ signalled < signal => page = "notify"

Inv == TypeOK /\ WithinBounds /\ RingRoom /\ MailOrder /\ Woken

LEMMA InitInv == Init => Inv
<1> SUFFICES ASSUME Init PROVE Inv
  OBVIOUS
<1> USE SizesAssumption
<1>1. Empty \in Byte /\ << >> \in Seq(Byte) /\ 0 \in Slots
  BY DEF Byte, Empty, Slots
<1>2. data \in [Slots -> Byte]
  BY <1>1 DEF Init
<1>3. TypeOK
  BY <1>1, <1>2 DEF Init, TypeOK, PageSteps
<1> QED BY <1>3 DEF Init, Inv, WithinBounds, RingRoom, NothingOverwritten, MailOrder, Woken,
                    ReadSteps

(* The properties that the runs check follow from it.                      *)
LEMMA InvImplies == Inv => TypeOK /\ NoLostWakeUp /\ BatchesAreTaken /\ NothingOverwritten
BY DEF Inv, TypeOK, NoLostWakeUp, Woken, BatchesAreTaken, MailOrder, RingRoom, NothingOverwritten,
       PageSteps, ReadSteps

-----------------------------------------------------------------------------
(* The steps, one case for each action that changes what a part is about.  *)

LEMMA RingFacts ==
  ASSUME TypeOK
  PROVE  /\ write \in Slots /\ read \in Slots /\ seen \in Slots
         /\ Filled(write, read) \in Nat /\ Filled(write, read) < Capacity
         /\ Filled(write, read) = 0 <=> write = read
         /\ Filled(seen, read) \in Nat /\ Filled(seen, read) < Capacity
         /\ Filled(seen, read) = 0 <=> seen = read
         /\ Len(batch) \in Nat /\ Len(out) \in Nat
<1>1. write \in Slots /\ read \in Slots /\ seen \in Slots
  BY DEF TypeOK
<1>2. /\ Filled(write, read) \in Slots
      /\ Filled(write, read) = 0 <=> write = read
      /\ Filled(seen, read) \in Slots
      /\ Filled(seen, read) = 0 <=> seen = read
  BY <1>1, FilledIs
<1>3. /\ Filled(write, read) \in Nat /\ Filled(write, read) < Capacity
      /\ Filled(seen, read) \in Nat /\ Filled(seen, read) < Capacity
  BY <1>2, SizesAssumption DEF Slots
<1>4. Len(batch) \in Nat /\ Len(out) \in Nat
  BY DEF TypeOK
<1> QED BY <1>1, <1>2, <1>3, <1>4

LEMMA TypeStep == Inv /\ [Next]_vars => TypeOK'
<1> SUFFICES ASSUME Inv, [Next]_vars PROVE TypeOK'
  OBVIOUS
<1> USE SizesAssumption
<1> TypeOK
  BY DEF Inv
<1> USE RingFacts
<1>1. ASSUME NEW length \in Nat, NEW eof \in BOOLEAN, WriteBytes(length, eof)
      PROVE  TypeOK'
  <2> DEFINE count == IF length < Free THEN length ELSE Free
  <2>1. /\ count \in Nat /\ count <= length
        /\ batch' = [i \in 1 .. count |-> [at |-> accepted + i, eof |-> eof]]
    <3>1. Free \in Nat
      BY DEF Free
    <3> QED BY <1>1, <3>1 DEF WriteBytes
  <2> HIDE DEF count
  <2>2. \A i \in 1 .. count : [at |-> accepted + i, eof |-> eof] \in Byte
    BY <1>1, <2>1 DEF WriteBytes, Inv, TypeOK, Byte
  <2>3. batch' \in Seq(Byte)
    BY <2>1, <2>2
  <2> QED BY <1>1, <2>3 DEF WriteBytes, TypeOK, PageSteps, ReadSteps, ring, mailbox, workerVars
<1>2. CASE CopyIn
  <2>1. \A slot \in Slots : Filled(slot, write) \in Slots
    BY FilledIs
  <2>2. \A i \in 1 .. Len(batch) : batch[i] \in Byte
    BY DEF Inv, TypeOK
  <2>3. Len(batch) \in Nat
    BY DEF Inv, TypeOK
  <2>4. data' \in [Slots -> Byte]
    <3> SUFFICES ASSUME NEW slot \in Slots
                 PROVE  (IF Filled(slot, write) + 1 <= Len(batch)
                         THEN batch[Filled(slot, write) + 1] ELSE data[slot]) \in Byte
      BY <1>2 DEF CopyIn
    <3>1. CASE Filled(slot, write) + 1 <= Len(batch)
      <4>1. Filled(slot, write) \in Nat
        BY <2>1 DEF Slots
      <4> QED BY <3>1, <4>1, <2>2, <2>3
    <3>2. CASE ~ (Filled(slot, write) + 1 <= Len(batch))
      BY <3>2 DEF Inv, TypeOK
    <3> QED BY <3>1, <3>2
  <2> QED BY <1>2, <2>4 DEF CopyIn, TypeOK, PageSteps, ReadSteps, mailbox, workerVars
<1>3. CASE Publish
  <2>1. Len(batch) \in Nat /\ << >> \in Seq(Byte)
    BY DEF Inv, TypeOK
  <2>2. write' \in Slots
    BY <1>3, <2>1, Grows DEF Publish, Inv, RingRoom, NothingOverwritten
  <2>3. accepted' \in 0 .. MaxBytes
    BY <1>3, <2>1 DEF Publish, Inv, TypeOK, WithinBounds
  <2> QED BY <1>3, <2>1, <2>2, <2>3 DEF Publish, TypeOK, PageSteps, ReadSteps, mailbox, workerVars
<1>4. CASE SendFiles \/ SendStep \/ SignalStep
  <2> USE DEF TypeOK, PageSteps, ReadSteps
  <2>1. CASE SendFiles
    BY <2>1 DEF SendFiles, ring, mailbox, workerVars
  <2>2. CASE Fill
    BY <2>2 DEF Fill, Inv, WithinBounds, ring, workerVars
  <2>3. CASE Post
    BY <2>3 DEF Post, ring, workerVars
  <2>4. CASE Signal
    BY <2>4 DEF Signal, ring, mailbox, workerVars
  <2>5. CASE Notify
    BY <2>5 DEF Notify, ring, mailbox
  <2> QED BY <1>4, <2>1, <2>2, <2>3, <2>4, <2>5 DEF SendStep, SignalStep
<1>5. CASE StartRead \/ LoadSignal \/ Idle \/ TakeMail \/ ClearMail \/ Look \/ Wait
  <2> USE DEF TypeOK, PageSteps, ReadSteps, ring, mailbox, pageVars
  <2>1. CASE StartRead
    BY <2>1 DEF StartRead
  <2>2. CASE LoadSignal
    BY <2>2 DEF LoadSignal
  <2>3. CASE Idle \/ Wait
    BY <2>3 DEF Idle, Wait
  <2>4. CASE TakeMail \/ ClearMail
    BY <2>4 DEF TakeMail, ClearMail
  <2>5. CASE Look
    BY <2>5 DEF Look
  <2> QED BY <1>5, <2>1, <2>2, <2>3, <2>4, <2>5
<1>6. CASE CopyOut
  <2>1. PICK count \in 0 .. Filled(seen, read) :
          out' = [i \in 1 .. count |-> data[(read + (i - 1)) % Capacity]]
    BY <1>6 DEF CopyOut, TypeOK
  <2>2. \A i \in 1 .. count : data[(read + (i - 1)) % Capacity] \in Byte
    <3> SUFFICES ASSUME NEW i \in 1 .. count
                 PROVE  data[(read + (i - 1)) % Capacity] \in Byte
      OBVIOUS
    <3>1. i - 1 \in Slots
      BY <2>1 DEF Slots
    <3>2. (read + (i - 1)) % Capacity \in Slots
      BY <3>1, Onward DEF Inv, TypeOK
    <3> QED BY <3>2 DEF Inv, TypeOK
  <2>3. out' \in Seq(Byte)
    BY <2>1, <2>2
  <2> QED BY <1>6, <2>3 DEF CopyOut, TypeOK, PageSteps, ReadSteps, ring, mailbox, pageVars
<1>7. CASE Return
  <2>1. << >> \in Seq(Byte) /\ Len(out) \in Nat
    BY DEF Inv, TypeOK
  <2>2. read' \in Slots
    <3>1. CASE out = << >>
      <4>1. 1 <= Filled(write, read)
        BY <1>7 DEF Return, Inv, RingRoom
      <4> QED BY <1>7, <3>1, <4>1, Shrinks DEF Return
    <3>2. CASE out # << >>
      BY <1>7, <3>2, Shrinks DEF Return, Inv, RingRoom
    <3> QED BY <3>1, <3>2
  <2> QED BY <1>7, <2>1, <2>2 DEF Return, TypeOK, PageSteps, ReadSteps, mailbox, pageVars
<1>8. CASE UNCHANGED vars
  BY <1>8 DEF vars, ring, mailbox, pageVars, workerVars, TypeOK
<1>9. CASE Write \/ EndOfInput
  <2>1. 1 \in Nat /\ 1 .. MaxText \subseteq Nat
    OBVIOUS
  <2> QED BY <1>1, <1>9, <2>1 DEF Write, EndOfInput
<1> QED BY <1>2, <1>3, <1>4, <1>5, <1>6, <1>7, <1>8, <1>9
        DEF Next, PageStep, WriteStep, ReadStep

LEMMA RoomStep == Inv /\ [Next]_vars => RingRoom'
<1> SUFFICES ASSUME Inv, [Next]_vars PROVE RingRoom'
  OBVIOUS
<1> USE SizesAssumption
<1> TypeOK
  BY DEF Inv
<1> USE RingFacts
<1> USE DEF RingRoom, NothingOverwritten
<1>0. /\ Filled(write, read)' = Filled(write', read')
      /\ Filled(seen, read)' = Filled(seen', read')
  BY DEF Filled
<1>1. ASSUME NEW length \in Nat, NEW eof \in BOOLEAN, WriteBytes(length, eof)
      PROVE  RingRoom'
  <2> DEFINE count == IF length < Free THEN length ELSE Free
  <2>1. count \in Nat /\ count <= Free /\ Free = Capacity - Filled(write, read) - 1
    BY DEF Free
  <2>2. batch' = [i \in 1 .. count |-> [at |-> accepted + i, eof |-> eof]]
    BY <1>1 DEF WriteBytes
  <2> HIDE DEF count
  <2>3. Len(batch') = count
    BY <2>1, <2>2
  <2>4. Filled(write, read) + Len(batch') < Capacity
    BY <2>1, <2>3
  <2> QED BY <1>1, <2>4, <1>0 DEF WriteBytes, Inv, ring, workerVars
<1>2. CASE Publish
  <2>1. Filled(write', read) = Filled(write, read) + Len(batch)
    BY <1>2, Grows DEF Publish, Inv
  <2>2. UNCHANGED << read, worker, seen, out >> /\ page' = "signal"
    BY <1>2 DEF Publish, workerVars
  <2>3. worker = "return" => write' # read
    <3>1. write' \in Slots
      BY <1>2, Grows DEF Publish, Inv
    <3> QED BY <2>1, <3>1, FilledIs DEF Inv
  <2> QED BY <2>1, <2>2, <2>3, <1>0 DEF Inv
<1>3. CASE Look
  <2>1. worker' = "copy" => seen' # read' /\ Filled(seen', read') <= Filled(write', read')
    BY <1>3 DEF Look, ring
  <2> QED BY <1>3, <2>1, <1>0 DEF Look, Inv, ring, pageVars
<1>4. CASE CopyOut
  <2>1. Len(out') <= Filled(write, read)
    <3>1. PICK count \in 0 .. Filled(seen, read) :
            out' = [i \in 1 .. count |-> data[(read + (i - 1)) % Capacity]]
      BY <1>4 DEF CopyOut, TypeOK
    <3>2. Len(out') = count
      BY <3>1
    <3> QED BY <1>4, <3>1, <3>2 DEF CopyOut, Inv
  <2>2. write # read
    <3>1. Filled(write, read) # 0
      BY <1>4 DEF CopyOut, Inv
    <3> QED BY <3>1
  <2> QED BY <1>4, <2>1, <2>2, <1>0 DEF CopyOut, Inv, ring, pageVars
<1>5. CASE Return
  <2> DEFINE used == IF out = << >> THEN 1 ELSE Len(out)
  <2>1. used \in Nat /\ used <= Filled(write, read)
    BY <1>5 DEF Return, Inv
  <2>2. read' = (read + used) % Capacity
    BY <1>5 DEF Return
  <2> HIDE DEF used
  <2>3. Filled(write, read') = Filled(write, read) - used
    BY <2>1, <2>2, Shrinks
  <2>4. UNCHANGED << write, page, batch >> /\ worker' = "running"
    BY <1>5 DEF Return, pageVars
  <2> QED BY <2>1, <2>3, <2>4, <1>0 DEF Inv
<1>6. CASE CopyIn
  BY <1>6, <1>0 DEF CopyIn, Inv, workerVars
<1>7. CASE SendFiles \/ SendStep \/ SignalStep
  BY <1>7, <1>0 DEF SendFiles, SendStep, Fill, Post, SignalStep, Signal, Notify, Inv,
                    ring, workerVars
<1>8. CASE StartRead \/ LoadSignal \/ Idle \/ TakeMail \/ ClearMail \/ Wait
  BY <1>8, <1>0 DEF StartRead, LoadSignal, Idle, TakeMail, ClearMail, Wait, Inv, ring, pageVars
<1>9. CASE UNCHANGED vars
  BY <1>9, <1>0 DEF vars, ring, pageVars, workerVars, Inv
<1>10. CASE Write \/ EndOfInput
  <2>1. 1 \in Nat /\ 1 .. MaxText \subseteq Nat
    OBVIOUS
  <2> QED BY <1>1, <1>10, <2>1 DEF Write, EndOfInput
<1> QED BY <1>2, <1>3, <1>4, <1>5, <1>6, <1>7, <1>8, <1>9, <1>10
        DEF Next, PageStep, WriteStep, ReadStep

LEMMA BoundsStep == Inv /\ [Next]_vars => WithinBounds'
<1> SUFFICES ASSUME Inv, [Next]_vars PROVE WithinBounds'
  OBVIOUS
<1> USE SizesAssumption
<1> TypeOK
  BY DEF Inv
<1> USE RingFacts
<1> USE DEF WithinBounds
<1>1. ASSUME NEW length \in Nat, NEW eof \in BOOLEAN, WriteBytes(length, eof)
      PROVE  WithinBounds'
  <2> DEFINE count == IF length < Free THEN length ELSE Free
  <2>1. count \in Nat /\ count <= length
    BY DEF Free
  <2>2. batch' = [i \in 1 .. count |-> [at |-> accepted + i, eof |-> eof]]
    BY <1>1 DEF WriteBytes
  <2> HIDE DEF count
  <2>3. Len(batch') = count
    BY <2>1, <2>2
  <2>4. accepted' = accepted /\ accepted + length <= MaxBytes /\ page' = "copy"
    BY <1>1 DEF WriteBytes
  <2>5. accepted + Len(batch') <= MaxBytes
    BY <2>1, <2>3, <2>4 DEF TypeOK
  <2> QED BY <2>4, <2>5
<1>2. CASE Write \/ EndOfInput
  <2>1. 1 \in Nat /\ 1 .. MaxText \subseteq Nat
    OBVIOUS
  <2> QED BY <1>1, <1>2, <2>1 DEF Write, EndOfInput
<1>3. CASE CopyIn \/ Publish \/ SendFiles
  BY <1>3 DEF CopyIn, Publish, SendFiles, Inv
<1>4. CASE SendStep \/ SignalStep
  BY <1>4 DEF SendStep, Fill, Post, SignalStep, Signal, Notify
<1>5. CASE StartRead \/ ReadStep
  BY <1>5 DEF StartRead, ReadStep, LoadSignal, Idle, TakeMail, ClearMail, Look, Wait, CopyOut,
              Return, Inv, pageVars
<1>6. CASE UNCHANGED vars
  BY <1>6 DEF vars, pageVars, Inv
<1> QED BY <1>2, <1>3, <1>4, <1>5, <1>6 DEF Next, PageStep, WriteStep

LEMMA MailStep == Inv /\ [Next]_vars => MailOrder'
<1> SUFFICES ASSUME Inv, [Next]_vars PROVE MailOrder'
  OBVIOUS
<1> USE DEF MailOrder
<1>1. sent \in Nat /\ took \in Nat /\ mail \in Nat /\ full \in BOOLEAN
  BY SizesAssumption DEF Inv, TypeOK
<1>2. CASE Write \/ EndOfInput \/ WriteStep
  BY <1>2 DEF Write, EndOfInput, WriteBytes, WriteStep, CopyIn, Publish, Inv, mailbox, workerVars
<1>3. CASE SendFiles
  BY <1>3 DEF SendFiles, Inv, mailbox, workerVars
<1>4. CASE Fill
  BY <1>1, <1>4 DEF Fill, Inv, workerVars
<1>5. CASE Post
  BY <1>1, <1>5 DEF Post, Inv, workerVars
<1>6. CASE SignalStep
  BY <1>6 DEF SignalStep, Signal, Notify, Inv, mailbox, workerVars
<1>7. CASE Idle
  BY <1>7 DEF Idle, Inv, mailbox, pageVars
<1>8. CASE TakeMail
  BY <1>8 DEF TakeMail, Inv, mailbox, pageVars
<1>9. CASE ClearMail
  BY <1>9 DEF ClearMail, Inv, pageVars
<1>10. CASE StartRead \/ LoadSignal \/ Look \/ Wait \/ CopyOut \/ Return
  BY <1>10 DEF StartRead, LoadSignal, Look, Wait, CopyOut, Return, Inv, mailbox, pageVars
<1>11. CASE UNCHANGED vars
  BY <1>11 DEF vars, mailbox, pageVars, workerVars, Inv
<1> QED BY <1>2, <1>3, <1>4, <1>5, <1>6, <1>7, <1>8, <1>9, <1>10, <1>11
        DEF Next, PageStep, SendStep, ReadStep

LEMMA WakeStep == Inv /\ [Next]_vars => Woken'
<1> SUFFICES ASSUME Inv, [Next]_vars PROVE Woken'
  OBVIOUS
<1> USE DEF Woken, ReadSteps
<1>1. signal \in Nat /\ signalled \in Nat
  BY DEF Inv, TypeOK
<1>2. CASE Write \/ EndOfInput \/ CopyIn \/ SendFiles \/ Fill
  BY <1>2 DEF Write, EndOfInput, WriteBytes, CopyIn, SendFiles, Fill, Inv, ring, mailbox, workerVars
<1>3. CASE Publish \/ Post
  BY <1>3 DEF Publish, Post, Inv, ring, mailbox, workerVars
<1>4. CASE Signal
  BY <1>1, <1>4 DEF Signal, Inv, ring, mailbox, workerVars
<1>5. CASE Notify
  BY <1>5 DEF Notify, Inv, ring, mailbox
<1>6. CASE LoadSignal
  BY <1>1, <1>6 DEF LoadSignal, Inv, ring, mailbox, pageVars
<1>7. CASE Idle \/ TakeMail \/ ClearMail
  BY <1>7 DEF Idle, TakeMail, ClearMail, Inv, ring, mailbox, pageVars
<1>8. CASE Look
  BY <1>8 DEF Look, Inv, ring, mailbox, pageVars
<1>9. CASE Wait
  BY <1>1, <1>9 DEF Wait, Inv, ring, mailbox, pageVars
<1>10. CASE StartRead \/ CopyOut \/ Return
  BY <1>10 DEF StartRead, CopyOut, Return, Inv, ring, mailbox, pageVars
<1>11. CASE UNCHANGED vars
  BY <1>11 DEF vars, ring, mailbox, pageVars, workerVars, Inv
<1> QED BY <1>2, <1>3, <1>4, <1>5, <1>6, <1>7, <1>8, <1>9, <1>10, <1>11
        DEF Next, PageStep, WriteStep, SendStep, SignalStep, ReadStep

-----------------------------------------------------------------------------
(* Every reachable state satisfies the inductive invariant.                *)
THEOREM Invariance == Spec => []Inv
<1>1. Inv /\ [Next]_vars => Inv'
  BY TypeStep, BoundsStep, RoomStep, MailStep, WakeStep DEF Inv
<1> QED BY InitInv, <1>1, PTL DEF Spec

(* The variables keep their types: indices stay in the ring.               *)
THEOREM TypeCorrect == Spec => []TypeOK
BY Invariance, InvImplies, PTL

(* No reader sleeps through a write or a wake (stdin_channel.js:146).      *)
THEOREM NoWakeUpIsLost == Spec => []NoLostWakeUp
BY Invariance, InvImplies, PTL

(* The mailbox hands over every batch of files once (file_channel.js:10).  *)
THEOREM EveryBatchIsTaken == Spec => []BatchesAreTaken
BY Invariance, InvImplies, PTL

(* The page leaves unread bytes alone and one slot empty                   *)
(* (stdin_channel.js:87).                                                  *)
THEOREM NothingIsOverwritten == Spec => []NothingOverwritten
BY Invariance, InvImplies, PTL
-----------------------------------------------------------------------------
(* The ring implements the terminal.  What is added to the invariant: what *)
(* a write copies in is what it will publish, numbered on from what was    *)
(* accepted; what a read has copied out is still the front of the ring.    *)

(* The bytes the page is about to add are one text, or one end of input.   *)
Numbered ==
  page \in {"copy", "publish"} =>
    /\ Len(batch) >= 1
    /\ \E eof \in BOOLEAN :
         batch = [i \in 1 .. Len(batch) |-> [at |-> accepted + i, eof |-> eof]]

Written ==
  page = "publish" =>
    \A i \in 1 .. Len(batch) : data[(write + (i - 1)) % Capacity] = batch[i]

(* An empty copy has found an end of input, any other is text.             *)
Copied ==
  /\ worker \in ReadSteps => asked >= 1
  /\ worker = "return" /\ out = << >> => data[read].eof
  /\ worker = "return" =>
       \A i \in 1 .. Len(out) :
         out[i] = data[(read + (i - 1)) % Capacity] /\ ~ out[i].eof

LineInv == Inv /\ Numbered /\ Written /\ Copied

(* Slots that follow one another, counted from either index.               *)
LEMMA SameSlot ==
  ASSUME NEW w \in Slots, NEW r \in Slots, NEW k \in Nat, Filled(w, r) + k < Capacity
  PROVE  (r + (Filled(w, r) + k)) % Capacity = (w + k) % Capacity
<1> USE SizesAssumption DEF Slots
<1>1. Filled(w, r) = IF w >= r THEN w - r ELSE w - r + Capacity
  BY FilledIs
<1>2. Filled(w, r) \in Nat
  BY FilledIs
<1> HIDE DEF Filled
<1> DEFINE n == Filled(w, r) + k
<1>3. k \in Slots /\ n \in Slots
  BY <1>2
<1>4. (r + n) % Capacity = IF r + n < Capacity THEN r + n ELSE r + n - Capacity
  BY <1>3, Onward
<1>5. (w + k) % Capacity = IF w + k < Capacity THEN w + k ELSE w + k - Capacity
  BY <1>3, Onward
<1> DEFINE x == (r + n) % Capacity
           y == (w + k) % Capacity
<1> HIDE DEF x, y
<1>6. x = y
  BY <1>1, <1>2, <1>4, <1>5 DEF x, y
<1> QED BY <1>6 DEF x, y

LEMMA Further ==
  ASSUME NEW r \in Slots, NEW n \in Nat, NEW k \in Nat, n + k < Capacity
  PROVE  (((r + n) % Capacity) + k) % Capacity = (r + (n + k)) % Capacity
<1> USE SizesAssumption DEF Slots
<1> DEFINE onward == (r + n) % Capacity
<1>1. n \in Slots /\ k \in Slots /\ n + k \in Slots
  OBVIOUS
<1>2. onward \in Slots /\ onward = IF r + n < Capacity THEN r + n ELSE r + n - Capacity
  BY <1>1, Onward
<1> HIDE DEF onward
<1>3. (onward + k) % Capacity = IF onward + k < Capacity THEN onward + k ELSE onward + k - Capacity
  BY <1>1, <1>2, Onward
<1>4. (r + (n + k)) % Capacity = IF r + (n + k) < Capacity THEN r + (n + k) ELSE r + (n + k) - Capacity
  BY <1>1, Onward
<1> DEFINE x == (onward + k) % Capacity
           y == (r + (n + k)) % Capacity
<1> HIDE DEF x, y
<1>5. x = y
  BY <1>2, <1>3, <1>4 DEF x, y
<1> QED BY <1>5 DEF x, y, onward

(* The slots a write fills are none of those that wait to be read.         *)
LEMMA Apart ==
  ASSUME NEW w \in Slots, NEW r \in Slots, NEW k \in Nat, k < Filled(w, r)
  PROVE  Filled((r + k) % Capacity, w) + Filled(w, r) >= Capacity
<1> USE SizesAssumption DEF Slots
<1>1. Filled(w, r) = IF w >= r THEN w - r ELSE w - r + Capacity
  BY FilledIs
<1>2. Filled(w, r) \in Slots
  BY FilledIs
<1>3. k \in Slots
  BY <1>2
<1> DEFINE slot == (r + k) % Capacity
<1>4. slot \in Slots /\ slot = IF r + k < Capacity THEN r + k ELSE r + k - Capacity
  BY <1>3, Onward
<1> HIDE DEF slot
<1>5. Filled(slot, w) = IF slot >= w THEN slot - w ELSE slot - w + Capacity
  BY <1>4, FilledIs
<1>6. Filled(slot, w) + Filled(w, r) >= Capacity
  BY <1>1, <1>2, <1>4, <1>5
<1> QED BY <1>6 DEF slot

-----------------------------------------------------------------------------
(* What lies in the ring.                                                  *)

(* A read that copies leaves the slots it has not come to, and those of    *)
(* the bytes it copies, as they are: only CopyIn writes, and elsewhere.    *)
LEMMA CopyInLeaves ==
  ASSUME Inv, CopyIn, NEW k \in Nat, k < Filled(write, read)
  PROVE  data'[(read + k) % Capacity] = data[(read + k) % Capacity]
<1> USE SizesAssumption
<1> TypeOK
  BY DEF Inv
<1> USE RingFacts
<1> DEFINE slot == (read + k) % Capacity
<1>0. write \in Slots /\ read \in Slots /\ k \in Slots
  BY DEF Slots
<1>1. slot \in Slots
  BY <1>0, Onward
<1>2. Filled(slot, write) + Filled(write, read) >= Capacity
  BY <1>0, Apart
<1>3. Filled(write, read) + Len(batch) < Capacity
  BY DEF Inv, RingRoom, NothingOverwritten, CopyIn
<1> HIDE DEF slot
<1>4. Filled(slot, write) \in Nat
  <2>1. Filled(slot, write) \in Slots
    BY <1>0, <1>1, FilledIs
  <2> QED BY <2>1 DEF Slots
<1>5. ~ (Filled(slot, write) + 1 <= Len(batch))
  BY <1>2, <1>3, <1>4
<1>6. data'[slot] = IF Filled(slot, write) + 1 <= Len(batch)
                    THEN batch[Filled(slot, write) + 1] ELSE data[slot]
  BY <1>1 DEF CopyIn
<1> QED BY <1>5, <1>6 DEF slot

LEMMA CopyInWrites ==
  ASSUME Inv, CopyIn, NEW i \in 1 .. Len(batch)
  PROVE  data'[(write + (i - 1)) % Capacity] = batch[i]
<1> USE SizesAssumption
<1> TypeOK
  BY DEF Inv
<1> USE RingFacts
<1> DEFINE slot == (write + (i - 1)) % Capacity
<1>1. Filled(write, read) + Len(batch) < Capacity
  BY DEF Inv, RingRoom, NothingOverwritten, CopyIn
<1>2. Filled(write, write) = 0
  BY FilledIs
<1>3. i - 1 \in Nat /\ Filled(write, write) + (i - 1) < Capacity
  BY <1>1, <1>2
<1>4. slot \in Slots /\ Filled(slot, write) = i - 1
  BY <1>2, <1>3, Grows
<1> HIDE DEF slot
<1>5. data'[slot] = IF Filled(slot, write) + 1 <= Len(batch)
                    THEN batch[Filled(slot, write) + 1] ELSE data[slot]
  BY <1>4 DEF CopyIn
<1>6. data'[slot] = batch[i]
  BY <1>4, <1>5
<1> QED BY <1>6 DEF slot

LEMMA NumberedStep == LineInv /\ [Next]_vars => Numbered'
<1> SUFFICES ASSUME LineInv, [Next]_vars PROVE Numbered'
  OBVIOUS
<1> USE SizesAssumption
<1> TypeOK /\ Inv
  BY DEF Inv, LineInv
<1> USE RingFacts
<1> USE DEF Numbered
<1>1. ASSUME NEW length \in Nat \ {0}, NEW eof \in BOOLEAN, WriteBytes(length, eof)
      PROVE  Numbered'
  <2> DEFINE count == IF length < Free THEN length ELSE Free
  <2>1. count \in Nat /\ count > 0
    BY <1>1 DEF Free, WriteBytes
  <2>2. batch' = [i \in 1 .. count |-> [at |-> accepted + i, eof |-> eof]]
    BY <1>1 DEF WriteBytes
  <2> HIDE DEF count
  <2>3. Len(batch') = count
    BY <2>1, <2>2
  <2>4. accepted' = accepted
    BY <1>1 DEF WriteBytes
  <2>5. batch' = [i \in 1 .. Len(batch') |-> [at |-> accepted' + i, eof |-> eof]]
    BY <2>2, <2>3, <2>4
  <2> QED BY <2>1, <2>3, <2>5
<1>2. CASE Write \/ EndOfInput
  <2>1. 1 \in Nat \ {0} /\ 1 .. MaxText \subseteq Nat \ {0}
    OBVIOUS
  <2> QED BY <1>1, <1>2, <2>1 DEF Write, EndOfInput
<1>3. CASE CopyIn
  BY <1>3 DEF CopyIn, LineInv
<1>4. CASE Publish \/ SendFiles \/ SendStep \/ SignalStep
  BY <1>4 DEF Publish, SendFiles, SendStep, Fill, Post, SignalStep, Signal, Notify
<1>5. CASE StartRead \/ ReadStep
  BY <1>5 DEF StartRead, ReadStep, LoadSignal, Idle, TakeMail, ClearMail, Look, Wait, CopyOut,
              Return, LineInv, pageVars
<1>6. CASE UNCHANGED vars
  BY <1>6 DEF vars, pageVars, LineInv
<1> QED BY <1>2, <1>3, <1>4, <1>5, <1>6 DEF Next, PageStep, WriteStep

LEMMA WrittenStep == LineInv /\ [Next]_vars => Written'
<1> SUFFICES ASSUME LineInv, [Next]_vars PROVE Written'
  OBVIOUS
<1> TypeOK /\ Inv
  BY DEF Inv, LineInv
<1> USE DEF Written
<1>1. CASE CopyIn
  <2>1. UNCHANGED << write, batch >>
    BY <1>1 DEF CopyIn
  <2> QED BY <1>1, <2>1, CopyInWrites
<1>2. CASE Write \/ EndOfInput
  BY <1>2 DEF Write, EndOfInput, WriteBytes
<1>3. CASE Publish \/ SendFiles \/ SendStep \/ SignalStep
  BY <1>3 DEF Publish, SendFiles, SendStep, Fill, Post, SignalStep, Signal, Notify
<1>4. CASE StartRead \/ LoadSignal \/ Idle \/ TakeMail \/ ClearMail \/ Look \/ Wait \/ CopyOut
  BY <1>4 DEF StartRead, LoadSignal, Idle, TakeMail, ClearMail, Look, Wait, CopyOut,
              LineInv, pageVars, ring
<1>5. CASE Return
  BY <1>5 DEF Return, LineInv, pageVars
<1>6. CASE UNCHANGED vars
  BY <1>6 DEF vars, pageVars, ring, LineInv
<1> QED BY <1>1, <1>2, <1>3, <1>4, <1>5, <1>6 DEF Next, PageStep, WriteStep, ReadStep

LEMMA CopiedStep == LineInv /\ [Next]_vars => Copied'
<1> SUFFICES ASSUME LineInv, [Next]_vars PROVE Copied'
  OBVIOUS
<1> USE SizesAssumption
<1> TypeOK /\ Inv
  BY DEF Inv, LineInv
<1> USE RingFacts
<1> USE DEF Copied
<1>1. CASE CopyOut
  <2>1. /\ worker = "copy" /\ worker' = "return"
        /\ UNCHANGED << read, data, asked >>
    BY <1>1 DEF CopyOut, ring
  <2> DEFINE limit == IF Filled(seen, read) < asked THEN Filled(seen, read) ELSE asked
  <2>2. PICK count \in 0 .. limit :
          /\ \A i \in 0 .. count - 1 : ~ data[(read + i) % Capacity].eof
          /\ count = limit \/ data[(read + count) % Capacity].eof
          /\ out' = [i \in 1 .. count |-> data[(read + (i - 1)) % Capacity]]
    BY <1>1 DEF CopyOut
  <2>3. asked >= 1 /\ asked \in Nat /\ limit >= 1 /\ limit \in Nat
    <3>1. asked >= 1 /\ asked \in Nat
      BY <2>1 DEF LineInv, ReadSteps, TypeOK
    <3>2. Filled(seen, read) >= 1
      BY <2>1 DEF Inv, RingRoom
    <3> QED BY <3>1, <3>2
  <2> HIDE DEF limit
  <2>4. Len(out') = count
    BY <2>2, <2>3
  <2>5. asked' >= 1
    BY <2>1, <2>3
  <2>6. out' = << >> => data'[read'].eof
    <3> SUFFICES ASSUME out' = << >> PROVE data[read].eof
      BY <2>1
    <3>1. count = 0
      BY <2>4
    <3>2. data[(read + 0) % Capacity].eof
      BY <2>2, <2>3, <3>1
    <3>3. 0 \in Slots /\ read + 0 = read /\ read < Capacity
      BY DEF Slots
    <3>4. (read + 0) % Capacity = read
      BY <3>3, Onward
    <3> QED BY <3>2, <3>4
  <2>7. ASSUME NEW i \in 1 .. Len(out')
        PROVE  out'[i] = data'[(read' + (i - 1)) % Capacity] /\ ~ out'[i].eof
    <3>1. i \in 1 .. count /\ i - 1 \in 0 .. count - 1
      BY <2>2, <2>3, <2>4
    <3>2. out'[i] = data[(read + (i - 1)) % Capacity]
      BY <2>2, <3>1
    <3>3. ~ data[(read + (i - 1)) % Capacity].eof
      BY <2>2, <3>1
    <3> QED BY <2>1, <3>2, <3>3
  <2> QED BY <2>5, <2>6, <2>7
<1>2. CASE CopyIn
  <2>1. UNCHANGED << read, worker, asked, out >>
    BY <1>2 DEF CopyIn, workerVars
  <2>2. worker \in ReadSteps => asked >= 1
    BY DEF LineInv
  <2>3. ASSUME worker = "return", out = << >>
        PROVE  data'[read].eof
    <3>1. 0 < Filled(write, read)
      BY <2>3 DEF Inv, RingRoom
    <3>2. data'[(read + 0) % Capacity] = data[(read + 0) % Capacity]
      BY <1>2, <3>1, CopyInLeaves
    <3>3. 0 \in Slots /\ read + 0 = read /\ read < Capacity
      BY DEF Slots
    <3>4. (read + 0) % Capacity = read
      BY <3>3, Onward
    <3> QED BY <2>3, <3>2, <3>4 DEF LineInv
  <2>4. ASSUME worker = "return", NEW i \in 1 .. Len(out)
        PROVE  out[i] = data'[(read + (i - 1)) % Capacity] /\ ~ out[i].eof
    <3>1. Len(out) <= Filled(write, read)
      BY <2>4 DEF Inv, RingRoom
    <3>2. i - 1 \in Nat /\ i - 1 < Filled(write, read)
      BY <3>1
    <3>3. data'[(read + (i - 1)) % Capacity] = data[(read + (i - 1)) % Capacity]
      BY <1>2, <3>2, CopyInLeaves
    <3> QED BY <2>4, <3>3 DEF LineInv
  <2> QED BY <2>1, <2>2, <2>3, <2>4
<1>3. CASE Write \/ EndOfInput \/ SendFiles \/ Fill \/ Post \/ Signal
  BY <1>3 DEF Write, EndOfInput, WriteBytes, SendFiles, Fill, Post, Signal, LineInv, ring, workerVars
<1>4. CASE Publish
  BY <1>4 DEF Publish, LineInv, workerVars
<1>5. CASE Notify
  BY <1>5 DEF Notify, LineInv, ring, ReadSteps
<1>6. CASE StartRead
  BY <1>6 DEF StartRead, ring
<1>7. CASE LoadSignal \/ Idle \/ TakeMail \/ ClearMail \/ Look \/ Wait
  BY <1>7 DEF LoadSignal, Idle, TakeMail, ClearMail, Look, Wait, LineInv, ring, ReadSteps
<1>8. CASE Return
  BY <1>8 DEF Return, ReadSteps
<1>9. CASE UNCHANGED vars
  BY <1>9 DEF vars, ring, workerVars, LineInv
<1> QED BY <1>1, <1>2, <1>3, <1>4, <1>5, <1>6, <1>7, <1>8, <1>9
        DEF Next, PageStep, WriteStep, SendStep, SignalStep, ReadStep

LEMMA LineInvHolds == Spec => []LineInv
<1>1. Init => LineInv
  <2> SUFFICES ASSUME Init PROVE LineInv
    OBVIOUS
  <2> QED BY InitInv DEF LineInv, Numbered, Written, Copied, Init, ReadSteps
<1>2. LineInv /\ [Next]_vars => LineInv'
  BY NumberedStep, WrittenStep, CopiedStep, TypeStep, BoundsStep, RoomStep, MailStep, WakeStep
  DEF LineInv, Inv
<1> QED BY <1>1, <1>2, PTL DEF Spec

-----------------------------------------------------------------------------
(* The steps of the ring are those of the terminal.                        *)

UnreadIs ==
  /\ Unread \in Seq(Byte)
  /\ Len(Unread) = Filled(write, read)
  /\ \A i \in 1 .. Filled(write, read) : Unread[i] = data[(read + (i - 1)) % Capacity]

LEMMA UnreadFacts == TypeOK => UnreadIs
<1> SUFFICES ASSUME TypeOK PROVE UnreadIs
  OBVIOUS
<1> USE SizesAssumption
<1> USE RingFacts
<1>1. ASSUME NEW i \in 1 .. Filled(write, read)
      PROVE  /\ data[(read + (i - 1)) % Capacity] \in Byte
             /\ read + i - 1 = read + (i - 1)
  <2>1. read \in Slots /\ i - 1 \in Slots /\ read \in Nat
    BY DEF Slots
  <2>2. (read + (i - 1)) % Capacity \in Slots
    BY <2>1, Onward
  <2> QED BY <2>1, <2>2 DEF TypeOK
<1>2. Unread = [i \in 1 .. Filled(write, read) |-> data[(read + (i - 1)) % Capacity]]
  BY <1>1 DEF Unread
<1> DEFINE n == Filled(write, read)
<1>3. n \in Nat
  OBVIOUS
<1> HIDE DEF n
<1> QED BY <1>1, <1>2, <1>3 DEF n, UnreadIs

LEMMA UnreadThen == TypeOK' => UnreadIs'
BY UnreadFacts, PTL

(* A write that is published is typed onto the end of the line.            *)
LEMMA PublishAccepts ==
  ASSUME LineInv, Publish, TypeOK'
  PROVE  \E eof \in BOOLEAN : Tty!Accept(eof)
<1> USE SizesAssumption
<1> TypeOK /\ Inv
  BY DEF Inv, LineInv
<1> USE RingFacts
<1> DEFINE f == Filled(write, read)
           n == Len(batch)
<1>1. /\ page = "publish"
      /\ write' = (write + n) % Capacity /\ read' = read /\ data' = data
      /\ accepted' = accepted + n /\ answer' = answer
  BY DEF Publish, workerVars
<1>2. f + n < Capacity /\ n >= 1 /\ n \in Nat /\ f \in Nat
  BY <1>1 DEF LineInv, Inv, RingRoom, NothingOverwritten, Numbered
<1>3. PICK eof \in BOOLEAN : batch = [i \in 1 .. n |-> [at |-> accepted + i, eof |-> eof]]
  BY <1>1 DEF LineInv, Numbered
<1> DEFINE text == [i \in 1 .. n |-> Tty!Byte(accepted + i, eof)]
<1>4. text = batch
  BY <1>3 DEF Tty!Byte
<1>5. Filled(write', read') = f + n
  BY <1>1, <1>2, Grows
<1>6. /\ Unread' \in Seq(Byte)
      /\ Len(Unread') = f + n
      /\ \A i \in 1 .. f + n : Unread'[i] = data[(read + (i - 1)) % Capacity]
  <2> DEFINE u == Filled(write', read')
  <2>1. /\ Unread' \in Seq(Byte)
        /\ Len(Unread') = u
        /\ \A i \in 1 .. u : Unread'[i] = data'[(read' + (i - 1)) % Capacity]
    BY UnreadThen DEF UnreadIs, Filled
  <2> QED BY <1>1, <1>5, <2>1
<1>7. /\ Unread \in Seq(Byte) /\ Len(Unread) = f
      /\ \A i \in 1 .. f : Unread[i] = data[(read + (i - 1)) % Capacity]
  BY UnreadFacts DEF UnreadIs
<1>8. batch \in Seq(Byte)
  BY DEF TypeOK
<1> HIDE DEF f, n, text
<1>9. /\ Unread \o text \in Seq(Byte) /\ Len(Unread \o text) = f + n
      /\ \A i \in 1 .. f + n :
           (Unread \o text)[i] = IF i <= f THEN Unread[i] ELSE batch[i - f]
  BY <1>4, <1>7, <1>8, ConcatProperties DEF n
<1>10. ASSUME NEW i \in 1 .. f + n
       PROVE  Unread'[i] = (Unread \o text)[i]
  <2>1. CASE i <= f
    <3>1. i \in 1 .. f
      BY <1>2, <2>1
    <3>2. Unread[i] = data[(read + (i - 1)) % Capacity]
      BY <1>7, <3>1
    <3>3. (Unread \o text)[i] = Unread[i]
      BY <1>9, <2>1
    <3> QED BY <1>6, <3>2, <3>3
  <2>2. CASE ~ (i <= f)
    <3> DEFINE k == i - f
    <3>1. k \in 1 .. n /\ k - 1 \in Nat /\ f + (k - 1) < Capacity /\ i - 1 = f + (k - 1)
      BY <1>2, <2>2
    <3> HIDE DEF k
    <3>2. (read + (f + (k - 1))) % Capacity = (write + (k - 1)) % Capacity
      <4>1. write \in Slots /\ read \in Slots
        OBVIOUS
      <4> QED BY <3>1, <4>1, SameSlot DEF f
    <3>3. data[(write + (k - 1)) % Capacity] = batch[k]
      BY <1>1, <3>1 DEF LineInv, Written, n
    <3>4. (Unread \o text)[i] = batch[k]
      BY <1>9, <2>2 DEF k
    <3>5. Unread'[i] = data[(read + (i - 1)) % Capacity]
      BY <1>6
    <3> QED BY <3>1, <3>2, <3>3, <3>4, <3>5
  <2> QED BY <2>1, <2>2
<1>11. Unread' = Unread \o text
  BY <1>6, <1>9, <1>10, SeqEqual
<1>12. n \in 1 .. Capacity - 1 - Len(Unread)
  BY <1>2, <1>7
<1> QED BY <1>1, <1>3, <1>11, <1>12 DEF Tty!Accept, text

(* What a read has left: the line behind what it used up.                  *)
LEMMA LeftIs ==
  ASSUME Inv, TypeOK', NEW used \in Nat, used <= Filled(write, read),
         read' = (read + used) % Capacity, UNCHANGED << write, data >>
  PROVE  /\ Len(Unread') = Filled(write, read) - used
         /\ Unread' = SubSeq(Unread, used + 1, Len(Unread))
<1> USE SizesAssumption
<1> TypeOK
  BY DEF Inv
<1> USE RingFacts
<1> DEFINE f == Filled(write, read)
<1>1. f \in Nat /\ f < Capacity /\ write \in Slots /\ read \in Slots
  OBVIOUS
<1>2. Filled(write', read') = f - used
  BY <1>1, Shrinks
<1>3. /\ Unread' \in Seq(Byte)
      /\ Len(Unread') = f - used
      /\ \A i \in 1 .. f - used : Unread'[i] = data[(read' + (i - 1)) % Capacity]
  <2> DEFINE u == Filled(write', read')
  <2>1. /\ Unread' \in Seq(Byte)
        /\ Len(Unread') = u
        /\ \A i \in 1 .. u : Unread'[i] = data'[(read' + (i - 1)) % Capacity]
    BY UnreadThen DEF UnreadIs, Filled
  <2> QED BY <1>2, <2>1
<1>4. /\ Unread \in Seq(Byte) /\ Len(Unread) = f
      /\ \A i \in 1 .. f : Unread[i] = data[(read + (i - 1)) % Capacity]
  BY UnreadFacts DEF UnreadIs
<1> HIDE DEF f
<1> DEFINE left == SubSeq(Unread, used + 1, Len(Unread))
<1>5. \A i \in used + 1 .. Len(Unread) : Unread[i] \in Byte
  <2> TAKE i \in used + 1 .. Len(Unread)
  <2>1. i \in 1 .. Len(Unread)
    BY <1>1, <1>4
  <2> QED BY <1>4, <2>1, ElementOfSeq
<1>6. /\ left \in Seq(Byte)
      /\ Len(left) = f - used
      /\ \A i \in 1 .. f - used : left[i] = Unread[used + i]
  <2>1. used + 1 \in Int /\ Len(Unread) \in Int
    BY <1>1, <1>4
  <2>2. /\ left \in Seq(Byte)
        /\ Len(left) = IF used + 1 <= Len(Unread) THEN Len(Unread) - (used + 1) + 1 ELSE 0
        /\ \A i \in 1 .. Len(Unread) - (used + 1) + 1 : left[i] = Unread[(used + 1) + i - 1]
    BY <1>5, <2>1, SubSeqProperties
  <2> HIDE DEF left
  <2>3. used <= f
    BY DEF f
  <2> QED BY <1>1, <1>4, <2>2, <2>3
<1> HIDE DEF left
<1>7. ASSUME NEW i \in 1 .. f - used
      PROVE  Unread'[i] = left[i]
  <2>1. i - 1 \in Nat /\ used + (i - 1) < Capacity /\ used + i \in 1 .. f
        /\ (used + i) - 1 = used + (i - 1)
    BY <1>1
  <2>2. (read' + (i - 1)) % Capacity = (read + (used + (i - 1))) % Capacity
    BY <1>1, <2>1, Further
  <2>3. left[i] = data[(read + ((used + i) - 1)) % Capacity]
    BY <1>4, <1>6, <2>1
  <2> QED BY <1>3, <2>1, <2>2, <2>3
<1>8. Unread' = left
  BY <1>3, <1>6, <1>7, SeqEqual
<1> QED BY <1>3, <1>8 DEF left, f

(* A read that returns has read text off the front, or an end of input.    *)
LEMMA ReturnReads ==
  ASSUME LineInv, Return, TypeOK'
  PROVE  Tty!ReadText \/ Tty!ReadEnd
<1> USE SizesAssumption
<1> TypeOK /\ Inv
  BY DEF Inv, LineInv
<1> USE RingFacts
<1>1. /\ worker = "return" /\ answer' = out /\ accepted' = accepted
      /\ UNCHANGED << write, data >>
  BY DEF Return, pageVars
<1>2. write # read /\ Filled(write, read) >= 1 /\ Len(out) <= Filled(write, read)
  BY <1>1 DEF Inv, RingRoom
<1>3. /\ Unread \in Seq(Byte) /\ Len(Unread) = Filled(write, read)
      /\ \A i \in 1 .. Filled(write, read) :
           Unread[i] = data[(read + (i - 1)) % Capacity]
  BY UnreadFacts DEF UnreadIs
<1>4. CASE out = << >>
  <2>1. 1 \in Nat /\ read' = (read + 1) % Capacity
    BY <1>4 DEF Return
  <2>2. Unread' = SubSeq(Unread, 1 + 1, Len(Unread))
    BY <1>1, <1>2, <2>1, LeftIs
  <2>3. Unread # << >>
    BY <1>2, <1>3
  <2>4. Unread' = Tail(Unread)
    BY <1>3, <2>2, <2>3, TailIsSubSeq
  <2>5. Head(Unread).eof
    <3>1. 0 \in Slots /\ read \in Slots /\ read + 0 = read /\ read < Capacity
      BY DEF Slots
    <3>2. (read + (1 - 1)) % Capacity = read
      BY <3>1, Onward
    <3>3. Unread[1] = data[read]
      BY <1>2, <1>3, <3>2
    <3>4. data[read].eof
      BY <1>1, <1>4 DEF LineInv, Copied
    <3>5. Head(Unread) = Unread[1]
      BY <1>3, <2>3
    <3> QED BY <3>3, <3>4, <3>5
  <2> QED BY <1>1, <1>4, <2>3, <2>4, <2>5 DEF Tty!ReadEnd
<1>5. CASE out # << >>
  <2> DEFINE n == Len(out)
  <2>1. n \in Nat /\ n >= 1 /\ read' = (read + n) % Capacity
    <3>1. out \in Seq(Byte)
      BY DEF TypeOK
    <3> QED BY <1>5, <3>1, EmptySeq DEF Return
  <2>2. Unread' = SubSeq(Unread, n + 1, Len(Unread))
    BY <1>1, <1>2, <2>1, LeftIs
  <2>3. \A i \in 1 .. n : out[i] = Unread[i] /\ ~ out[i].eof
    <3> TAKE i \in 1 .. n
    <3>1. out[i] = data[(read + (i - 1)) % Capacity] /\ ~ out[i].eof
      BY <1>1 DEF LineInv, Copied
    <3>2. i \in 1 .. Filled(write, read)
      BY <1>2, <2>1
    <3> QED BY <1>3, <3>1, <3>2
  <2>4. n \in 1 .. Len(Unread)
    BY <1>2, <1>3, <2>1
  <2>5. out \in Seq(Byte)
    BY DEF TypeOK
  <2> HIDE DEF n
  <2>6. out = SubSeq(Unread, 1, n)
    <3> DEFINE front == SubSeq(Unread, 1, n)
    <3>1. \A i \in 1 .. n : Unread[i] \in Byte
      BY <1>3, <2>4
    <3>2. /\ front \in Seq(Byte)
          /\ Len(front) = IF 1 <= n THEN n - 1 + 1 ELSE 0
          /\ \A i \in 1 .. n - 1 + 1 : front[i] = Unread[1 + i - 1]
      <4>1. 1 \in Int /\ n \in Int
        BY <2>1
      <4> QED BY <3>1, <4>1, SubSeqProperties
    <3> HIDE DEF front
    <3>3. Len(front) = n /\ \A i \in 1 .. n : front[i] = Unread[i]
      BY <2>1, <3>2
    <3>4. Len(out) = Len(front) /\ \A i \in 1 .. Len(out) : out[i] = front[i]
      BY <2>3, <3>3 DEF n
    <3>5. out = front
      BY <2>5, <3>2, <3>4, SeqEqual
    <3> QED BY <3>5 DEF front
  <2>7. \A i \in 1 .. n : ~ Unread[i].eof
    BY <2>3
  <2> QED BY <1>1, <2>2, <2>4, <2>6, <2>7 DEF Tty!ReadText
<1> QED BY <1>4, <1>5

(* No other step moves an index or changes an unread byte.                 *)
LEMMA OthersStutter ==
  ASSUME LineInv, [Next]_vars, TypeOK', ~ Publish, ~ Return
  PROVE  UNCHANGED Tty!vars
<1> USE SizesAssumption
<1> TypeOK /\ Inv
  BY DEF Inv, LineInv
<1> USE RingFacts
<1> USE DEF Tty!vars
<1>1. CASE CopyIn
  <2>1. UNCHANGED << write, read, accepted, answer >>
    BY <1>1 DEF CopyIn, workerVars
  <2> DEFINE u == Filled(write', read')
  <2>2. u = Filled(write, read)
    BY <2>1
  <2>3. /\ Unread' \in Seq(Byte)
        /\ Len(Unread') = u
        /\ \A i \in 1 .. u : Unread'[i] = data'[(read' + (i - 1)) % Capacity]
    BY UnreadThen DEF UnreadIs, Filled
  <2>4. /\ Unread \in Seq(Byte)
        /\ Len(Unread) = Filled(write, read)
        /\ \A i \in 1 .. Filled(write, read) :
             Unread[i] = data[(read + (i - 1)) % Capacity]
    BY UnreadFacts DEF UnreadIs
  <2>5. ASSUME NEW i \in 1 .. Filled(write, read)
        PROVE  Unread'[i] = Unread[i]
    <3>1. i - 1 \in Nat /\ i - 1 < Filled(write, read)
      OBVIOUS
    <3>2. data'[(read + (i - 1)) % Capacity] = data[(read + (i - 1)) % Capacity]
      BY <1>1, <3>1, CopyInLeaves
    <3> QED BY <2>1, <2>2, <2>3, <2>4, <3>2
  <2> HIDE DEF u
  <2>6. Unread' = Unread
    BY <2>2, <2>3, <2>4, <2>5, SeqEqual
  <2> QED BY <2>1, <2>6
<1>2. ASSUME UNCHANGED << write, read, data, accepted, answer >>
      PROVE  UNCHANGED Tty!vars
  BY <1>2 DEF Unread, Filled
<1>3. CASE Write \/ EndOfInput
  BY <1>2, <1>3 DEF Write, EndOfInput, WriteBytes, ring, workerVars
<1>4. CASE SendFiles \/ SendStep \/ SignalStep
  BY <1>2, <1>4 DEF SendFiles, SendStep, Fill, Post, SignalStep, Signal, Notify, ring, workerVars
<1>5. CASE StartRead \/ LoadSignal \/ Idle \/ TakeMail \/ ClearMail \/ Look \/ Wait \/ CopyOut
  BY <1>2, <1>5 DEF StartRead, LoadSignal, Idle, TakeMail, ClearMail, Look, Wait, CopyOut,
                    ring, pageVars
<1>6. CASE UNCHANGED vars
  BY <1>2, <1>6 DEF vars, ring, pageVars, workerVars
<1> QED BY <1>1, <1>3, <1>4, <1>5, <1>6 DEF Next, PageStep, WriteStep, ReadStep

(* Standard input is a terminal (stdin_channel.js:60): what was accepted   *)
(* is read once and in order, and each end of input ends one read.         *)
THEOREM RingIsATerminal == Spec => IsATerminal
<1>1. Init => Tty!Init
  <2> SUFFICES ASSUME Init PROVE Tty!Init
    OBVIOUS
  <2>1. Filled(0, 0) = 0
    <3>1. 0 \in Slots
      BY SizesAssumption DEF Slots
    <3> QED BY <3>1, FilledIs
  <2>2. Unread = << >>
    <3>1. Unread = [i \in 1 .. 0 |-> data[(read + i - 1) % Capacity]]
      BY <2>1 DEF Unread, Init
    <3> QED BY <3>1
  <2> QED BY <2>2 DEF Init, Tty!Init
<1>2. LineInv /\ [Next]_vars => [Tty!Next]_Tty!vars
  <2> SUFFICES ASSUME LineInv, [Next]_vars PROVE [Tty!Next]_Tty!vars
    OBVIOUS
  <2>1. TypeOK'
    BY TypeStep DEF LineInv
  <2>2. CASE Publish
    BY <2>1, <2>2, PublishAccepts DEF Tty!Next
  <2>3. CASE Return
    BY <2>1, <2>3, ReturnReads DEF Tty!Next
  <2>4. CASE ~ Publish /\ ~ Return
    BY <2>1, <2>4, OthersStutter
  <2> QED BY <2>2, <2>3, <2>4
<1> QED BY <1>1, <1>2, LineInvHolds, PTL DEF Spec, IsATerminal, Tty!Spec


-----------------------------------------------------------------------------
(* The control line to the guest.                                          *)
(*                                                                         *)
(* The conservation of the credit rests on where the offsets lie: what is  *)
(* granted, reported, read and written follow one another, the CREDITs on  *)
(* their way lie between granted and reported and end exactly at reported. *)
(* That no frame waits for ever rests on three more facts: the agent keeps *)
(* less than a step to itself, a queued frame is one that the credit does  *)
(* not cover, and the first queued frame is at most MaxFrame away.         *)

(* A prepared agent owes nothing, and neither does the snapshot of it.     *)
OwesNothing ==
  /\ snapshot = 0
  /\ phase = "parked" => queue = {} /\ taken = written /\ reported = taken

(* Where the offsets lie.                                                  *)
InOrder ==
  /\ granted <= reported /\ reported <= taken /\ taken <= written
  /\ \A upTo \in credits : granted < upTo /\ upTo <= reported
  /\ granted # reported => reported \in credits

(* What is queued comes after what is written, and the credit does not     *)
(* cover it.                                                               *)
Held == \A end \in queue : end - written > available /\ end > written

(* From the end of one frame to the end of the next is MaxFrame at most.   *)
Spaced ==
  \A end \in {written} \cup queue :
    (\E later \in queue : later > end)
      => \E later \in queue : later > end /\ later <= end + MaxFrame

KeepsLittle == taken - reported < Step

CreditInv ==
  /\ CreditTypeOK /\ Conserved /\ OwesNothing /\ InOrder /\ KeepsLittle /\ Held /\ Spaced

-----------------------------------------------------------------------------
(* What #drain() does with any frames and any credit: it takes from the    *)
(* credit what it writes, and leaves frames that the credit does not cover *)
(* and that are no further apart than before.                              *)
LEMMA DrainKeeps ==
  ASSUME written \in Nat, MaxFrame \in Nat,
         NEW frames \in SUBSET Nat, NEW credit \in Nat,
         \A end \in frames : end > written,
         \A end \in {written} \cup frames :
           (\E later \in frames : later > end)
             => \E later \in frames : later > end /\ later <= end + MaxFrame,
         Drain(frames, credit)
  PROVE  \E last \in {written} \cup frames :
           /\ last >= written /\ last - written <= credit
           /\ written' = last /\ available' = credit - (last - written)
           /\ queue' \subseteq frames
           /\ Held' /\ Spaced'
<1> DEFINE fits == {end \in frames : end - written <= credit}
<1>1. PICK last \in {written} \cup fits :
        /\ \A end \in fits : end <= last
        /\ written' = last
        /\ available' = credit - (last - written)
        /\ queue' = {end \in frames : end > last}
  BY DEF Drain
<1>2. last \in Nat /\ last >= written /\ last - written <= credit
  BY <1>1
<1>3. Held'
  <2>1. SUFFICES ASSUME NEW end \in queue'
                 PROVE  end - written' > available' /\ end > written'
    BY DEF Held
  <2>2. end \in frames /\ end > last /\ end \in Nat
    BY <1>1, <2>1
  <2>3. end \notin fits
    BY <1>1, <1>2, <2>2
  <2>4. end - written > credit
    BY <2>2, <2>3
  <2> QED BY <1>1, <1>2, <2>2, <2>4
<1>4. Spaced'
  <2>1. SUFFICES ASSUME NEW end \in {written'} \cup queue', NEW later \in queue', later > end
                 PROVE  \E next \in queue' : next > end /\ next <= end + MaxFrame
    BY DEF Spaced
  <2>2. end \in {written} \cup frames /\ end \in Nat /\ end >= last
    BY <1>1, <1>2, <2>1
  <2>3. later \in frames
    BY <1>1, <2>1
  <2>4. PICK next \in frames : next > end /\ next <= end + MaxFrame
    BY <2>1, <2>2, <2>3
  <2>5. next \in queue'
    BY <1>1, <1>2, <2>2, <2>4
  <2> QED BY <2>4, <2>5
<1> QED BY <1>1, <1>2, <1>3, <1>4

-----------------------------------------------------------------------------
LEMMA CreditInitInv == CreditInit => CreditInv
BY CreditAssumption
  DEF CreditInit, CreditInv, CreditTypeOK, Conserved, OwesNothing, InOrder, KeepsLittle, Held, Spaced

(* A frame goes behind those that wait, at most MaxFrame after the last.   *)
LEMMA SendInv == CreditInv /\ Send => CreditInv'
<1> SUFFICES ASSUME CreditInv, Send PROVE CreditInv'
  OBVIOUS
<1> USE CreditAssumption
<1>1. PICK last \in {written} \cup queue, length \in 1 .. MaxFrame :
        /\ \A end \in queue : end <= last
        /\ Drain(queue \cup {last + length}, available)
  BY DEF Send
<1> DEFINE frames == queue \cup {last + length}
<1>2. /\ written \in Nat /\ available \in Nat /\ last \in Nat /\ last >= written
      /\ frames \in SUBSET Nat
      /\ \A end \in frames : end > written
  BY <1>1 DEF CreditInv, CreditTypeOK, Held
<1>3. ASSUME NEW end \in {written} \cup frames, NEW later \in frames, later > end
      PROVE  \E next \in frames : next > end /\ next <= end + MaxFrame
  <2>1. CASE \E other \in queue : other > end
    <3>1. end \in {written} \cup queue
      BY <1>1, <1>2, <2>1
    <3> QED BY <2>1, <3>1 DEF CreditInv, Spaced
  <2>2. CASE ~ \E other \in queue : other > end
    <3>1. end \in Nat /\ end >= last
      BY <1>1, <1>2, <2>2 DEF CreditInv, CreditTypeOK, Held
    <3>2. end = last
      BY <1>1, <1>2, <1>3, <2>2, <3>1 DEF CreditInv, CreditTypeOK, Held
    <3> QED BY <1>1, <1>2, <3>2
  <2> QED BY <2>1, <2>2
<1>4. PICK next \in {written} \cup frames :
        /\ next >= written /\ next - written <= available
        /\ written' = next /\ available' = available - (next - written)
        /\ queue' \subseteq frames
        /\ Held' /\ Spaced'
  BY <1>1, <1>2, <1>3, DrainKeeps
<1>5. UNCHANGED << taken, reported, credits, granted, lost, phase, snapshot >>
      /\ phase # "parked"
  BY DEF Send, agent
<1>6. next \in Nat
  BY <1>2
<1>7. CreditTypeOK'
  BY <1>2, <1>4, <1>5, <1>6 DEF CreditInv, CreditTypeOK
<1>8. Conserved'
  BY <1>4, <1>5, <1>6 DEF CreditInv, CreditTypeOK, Conserved
<1>9. OwesNothing' /\ InOrder' /\ KeepsLittle'
  BY <1>4, <1>5, <1>6 DEF CreditInv, CreditTypeOK, OwesNothing, InOrder, KeepsLittle
<1> QED BY <1>4, <1>7, <1>8, <1>9 DEF CreditInv

(* A CREDIT gives back what it reports, and the cap does not bite.         *)
LEMMA GrantInv == CreditInv /\ Grant => CreditInv'
<1> SUFFICES ASSUME CreditInv, Grant PROVE CreditInv'
  OBVIOUS
<1> USE CreditAssumption
<1>1. PICK upTo \in credits :
        /\ \A other \in credits : upTo <= other
        /\ credits' = credits \ {upTo}
        /\ granted' = upTo
        /\ Drain(queue, Smaller(Window, available + (upTo - granted)))
        /\ UNCHANGED << taken, reported, lost, phase, snapshot >>
  BY DEF Grant
<1> DEFINE credit == available + (upTo - granted)
<1>2. upTo \in Nat /\ granted < upTo /\ upTo <= reported /\ reported <= written
  BY <1>1 DEF CreditInv, InOrder, CreditTypeOK
<1>3. credit \in Nat /\ credit <= Window /\ Smaller(Window, credit) = credit
  BY <1>2 DEF CreditInv, CreditTypeOK, Conserved, Smaller
<1>4. Drain(queue, credit)
  BY <1>1, <1>3
<1>5. PICK last \in {written} \cup queue :
        /\ last >= written /\ last - written <= credit
        /\ written' = last /\ available' = credit - (last - written)
        /\ queue' \subseteq queue
        /\ Held' /\ Spaced'
  <2> HIDE DEF credit
  <2>1. \A end \in queue : end > written
    BY DEF CreditInv, Held
  <2>2. written \in Nat /\ queue \in SUBSET Nat
    BY DEF CreditInv, CreditTypeOK
  <2>3. Spaced
    BY DEF CreditInv
  <2> QED BY <1>3, <1>4, <2>1, <2>2, <2>3, DrainKeeps DEF Spaced
<1>6. last \in Nat
  BY DEF CreditInv, CreditTypeOK
<1>7. CreditTypeOK'
  BY <1>1, <1>2, <1>3, <1>5, <1>6 DEF CreditInv, CreditTypeOK
<1>8. Conserved'
  BY <1>1, <1>2, <1>5, <1>6 DEF CreditInv, CreditTypeOK, Conserved
<1>9. OwesNothing' /\ KeepsLittle'
  BY <1>1, <1>5 DEF CreditInv, OwesNothing, KeepsLittle
<1>10. InOrder'
  <2>1. \A other \in credits' : granted' < other /\ other <= reported'
    BY <1>1, <1>2 DEF CreditInv, InOrder, CreditTypeOK
  <2>2. granted' # reported' => reported' \in credits'
    BY <1>1, <1>2 DEF CreditInv, InOrder, CreditTypeOK
  <2> QED BY <1>1, <1>2, <1>5, <1>6, <2>1, <2>2 DEF CreditInv, InOrder, CreditTypeOK
<1> QED BY <1>5, <1>7, <1>8, <1>9, <1>10 DEF CreditInv

(* The agent reads some bytes, and reports them once they are a step.      *)
LEMMA OnSerialInv == CreditInv /\ OnSerial => CreditInv'
<1> SUFFICES ASSUME CreditInv, OnSerial PROVE CreditInv'
  OBVIOUS
<1> USE CreditAssumption
<1>1. PICK bytes \in 1 .. Smaller(MaxTaken, written - taken) :
        /\ taken' = taken + bytes
        /\ ReportCredit(taken')
        /\ UNCHANGED << host, written, granted, lost, phase, snapshot >>
  BY DEF OnSerial
<1> DEFINE upTo == taken + bytes
<1>2. upTo \in Nat /\ upTo > taken /\ upTo <= written
  BY <1>1 DEF CreditInv, CreditTypeOK, InOrder, Smaller
<1>3. UNCHANGED << available, queue, written, granted, lost, phase, snapshot >>
      /\ taken' = upTo
  BY <1>1 DEF host
<1> HIDE DEF upTo
<1>4. upTo - reported <= Window
  BY <1>2 DEF CreditInv, CreditTypeOK, InOrder, Conserved
<1>5. reported + Smaller(upTo - reported, Window) = upTo
  BY <1>2, <1>4 DEF CreditInv, CreditTypeOK, Smaller
<1>6. \/ reported' = upTo /\ credits' = credits \cup {upTo}
      \/ upTo - reported < Step /\ UNCHANGED << reported, credits >>
  BY <1>1, <1>2, <1>3, <1>5 DEF ReportCredit, CreditInv, CreditTypeOK
<1>7. CreditTypeOK' /\ Conserved' /\ Held' /\ Spaced'
  BY <1>2, <1>3, <1>6 DEF CreditInv, CreditTypeOK, Conserved, Held, Spaced
<1>8. OwesNothing'
  BY <1>2, <1>3 DEF CreditInv, CreditTypeOK, InOrder, OwesNothing
<1>9. InOrder' /\ KeepsLittle'
  <2>1. CASE reported' = upTo /\ credits' = credits \cup {upTo}
    BY <1>2, <1>3, <2>1, CreditAssumption DEF CreditInv, CreditTypeOK, InOrder, KeepsLittle
  <2>2. CASE upTo - reported < Step /\ UNCHANGED << reported, credits >>
    BY <1>2, <1>3, <2>2 DEF CreditInv, CreditTypeOK, InOrder, KeepsLittle
  <2> QED BY <1>6, <2>1, <2>2
<1> QED BY <1>7, <1>8, <1>9 DEF CreditInv

(* PARKED goes out after a CREDIT for every byte.                          *)
LEMMA OnPreparedInv == CreditInv /\ OnPrepared => CreditInv'
<1> SUFFICES ASSUME CreditInv, OnPrepared PROVE CreditInv'
  OBVIOUS
<1> USE CreditAssumption
<1>1. UNCHANGED << available, queue, written, taken, granted, lost, snapshot >>
      /\ reported' = taken /\ phase' = "parked"
      /\ taken = written /\ queue = {}
      /\ credits' = IF taken > reported THEN credits \cup {taken} ELSE credits
  BY DEF OnPrepared, host
<1>2. CreditTypeOK' /\ Conserved' /\ Held' /\ Spaced' /\ KeepsLittle'
  BY <1>1 DEF CreditInv, CreditTypeOK, Conserved, Held, Spaced, KeepsLittle
<1>3. OwesNothing' /\ InOrder'
  BY <1>1 DEF CreditInv, CreditTypeOK, OwesNothing, InOrder
<1> QED BY <1>2, <1>3 DEF CreditInv

(* A respawned agent has read nothing and owes nothing.                    *)
LEMMA AgentRestartsInv == CreditInv /\ AgentRestarts => CreditInv'
BY CreditAssumption
  DEF AgentRestarts, host, CreditInv, CreditTypeOK, Conserved, OwesNothing, InOrder, KeepsLittle, Held, Spaced

(* A restored machine has a whole window, and nothing under way.           *)
LEMMA RestoreOfInv == RestoreOf(0) /\ snapshot' = 0 /\ phase' = "page" => CreditInv'
BY CreditAssumption
  DEF RestoreOf, CreditInv, CreditTypeOK, Conserved, OwesNothing, InOrder, KeepsLittle, Held, Spaced

LEMMA SaveInv == CreditInv /\ Save => CreditInv'
<1> SUFFICES ASSUME CreditInv, Save PROVE CreditInv'
  OBVIOUS
<1>1. taken - reported = 0
  BY DEF Save, CreditInv, CreditTypeOK, OwesNothing
<1> QED BY <1>1, RestoreOfInv DEF Save

LEMMA RestoreInv == CreditInv /\ Restore => CreditInv'
BY RestoreOfInv DEF Restore, CreditInv, OwesNothing

-----------------------------------------------------------------------------
(* The inductive invariant holds of every behaviour.                       *)
THEOREM CreditInvariance == CreditSpec => []CreditInv
<1>1. CreditInv /\ [CreditNext]_creditVars => CreditInv'
  <2> SUFFICES ASSUME CreditInv, [CreditNext]_creditVars PROVE CreditInv'
    OBVIOUS
  <2>1. CASE CreditNext
    BY <2>1, SendInv, GrantInv, OnSerialInv, OnPreparedInv, AgentRestartsInv, SaveInv, RestoreInv
    DEF CreditNext
  <2>2. CASE UNCHANGED creditVars
    BY <2>2 DEF creditVars, CreditInv, CreditTypeOK, Conserved, OwesNothing, InOrder, KeepsLittle, Held, Spaced
  <2> QED BY <2>1, <2>2
<1> QED BY CreditInitInv, <1>1, PTL DEF CreditSpec

(* TypeOK: in particular the credit is never negative and never more than  *)
(* the window that the guest's tty can hold (CreditedSender, agent.rs).    *)
THEOREM CreditTyped == CreditSpec => []CreditTypeOK
<1>1. CreditInv => CreditTypeOK
  BY DEF CreditInv
<1> QED BY CreditInvariance, <1>1, PTL

(* Conserved: CreditedSender's credit, the bytes not granted back and      *)
(* those a dead agent lost always make up the window.                      *)
THEOREM CreditIsConserved == CreditSpec => []Conserved
<1>1. CreditInv => Conserved
  BY DEF CreditInv
<1> QED BY CreditInvariance, <1>1, PTL

(* LineHasRoom: the guest's tty never holds more than a window.            *)
THEOREM LineAlwaysHasRoom == CreditSpec => []LineHasRoom
<1>1. CreditInv => LineHasRoom
  BY CreditAssumption DEF CreditInv, CreditTypeOK, Conserved, InOrder, LineHasRoom
<1> QED BY CreditInvariance, <1>1, PTL

(* NeverStalls: a frame is held back only while the agent has bytes to     *)
(* read or a CREDIT is on its way, or after an agent died.                 *)
THEOREM HostAndAgentNeverStall == CreditSpec => []NeverStalls
<1>1. CreditInv => NeverStalls
  <2> SUFFICES ASSUME CreditInv, queue # {}, credits = {}, ~ taken < written, lost = 0
               PROVE  FALSE
    BY DEF NeverStalls, CreditInv, CreditTypeOK
  <2>1. granted = reported /\ taken = written
    BY DEF CreditInv, CreditTypeOK, InOrder
  <2>2. available >= MaxFrame
    BY <2>1, CreditAssumption DEF CreditInv, CreditTypeOK, Conserved, KeepsLittle
  <2>3. PICK end \in queue : end > written /\ end <= written + MaxFrame
    BY DEF CreditInv, Held, Spaced
  <2> QED BY <2>2, <2>3, CreditAssumption DEF CreditInv, CreditTypeOK, Held
<1> QED BY CreditInvariance, <1>1, PTL

-----------------------------------------------------------------------------
(* The folds of the codec, each with the steps it goes through.            *)

Crc == INSTANCE FoldFacts WITH Op <- crcByte
Enc == INSTANCE FoldFacts WITH Op <- EncodeByte
Dec == INSTANCE FoldFacts WITH Op <- DecodeByte
Got == INSTANCE FoldFacts WITH Op <- ReadByte

LEMMA FoldsAreTheirSteps ==
  ASSUME NEW x, NEW s
  PROVE  /\ FoldLeft(crcByte, x, s) = Crc!Fold(x, s)
         /\ FoldLeft(EncodeByte, x, s) = Enc!Fold(x, s)
         /\ FoldLeft(DecodeByte, x, s) = Dec!Fold(x, s)
         /\ FoldLeft(ReadByte, x, s) = Got!Fold(x, s)
<1>1. FoldLeft(crcByte, x, s) = Crc!Fold(x, s)
  BY DEF FoldLeft, MapThenFoldSet, Max, Crc!Fold, Crc!FoldsTo, Crc!Greatest
<1>2. FoldLeft(EncodeByte, x, s) = Enc!Fold(x, s)
  BY DEF FoldLeft, MapThenFoldSet, Max, Enc!Fold, Enc!FoldsTo, Enc!Greatest
<1>3. FoldLeft(DecodeByte, x, s) = Dec!Fold(x, s)
  BY DEF FoldLeft, MapThenFoldSet, Max, Dec!Fold, Dec!FoldsTo, Dec!Greatest
<1>4. FoldLeft(ReadByte, x, s) = Got!Fold(x, s)
  BY DEF FoldLeft, MapThenFoldSet, Max, Got!Fold, Got!FoldsTo, Got!Greatest
<1> QED BY <1>1, <1>2, <1>3, <1>4

LEMMA CrcIsAnOctet ==
  ASSUME NEW s \in Seq(Octet)
  PROVE  crc32(s) \in Octet
<1>1. PICK g : Crc!Steps(g, 0, s) /\ Crc!Fold(0, s) = g[Len(s)]
  BY Crc!FoldSteps
<1>2. g[0] = 0 /\ \A k \in 1..Len(s) : g[k] = crcByte(g[k - 1], s[k])
  BY <1>1 DEF Crc!Steps
<1> DEFINE N == {k \in 0..Len(s) : g[k] \notin Octet}
<1>3. N = {}
  <2> SUFFICES ASSUME N # {} PROVE FALSE
    OBVIOUS
  <2>0. N \subseteq Nat
    OBVIOUS
  <2> HIDE DEF N
  <2>1. PICK m \in N : \A k \in N : m <= k
    BY <2>0, LeastNumber
  <2> USE DEF N
  <2>2. m # 0
    BY <1>2, <2>1, BoundsAssumption DEF Octet
  <2>3. m \in 1..Len(s) /\ m - 1 \in 0..Len(s) /\ ~ (m <= m - 1)
    BY <2>1, <2>2, LenProperties
  <2>4. g[m - 1] \in Octet /\ s[m] \in Octet
    BY <2>1, <2>3, ElementOfSeq
  <2> DEFINE sum == 2 * g[m - 1] + s[m] + 1
             size == Block + 1
  <2>5. sum \in Nat /\ size \in Nat /\ size > 0
    <3> DEFINE a == g[m - 1]
               b == s[m]
    <3>1. a \in Nat /\ b \in Nat /\ Block \in Nat
      BY <2>4, BoundsAssumption DEF Octet
    <3> HIDE DEF a, b, N
    <3>2. 2 * a + b + 1 \in Nat /\ Block + 1 \in Nat /\ Block + 1 > 0
      BY <3>1
    <3> QED BY <3>2 DEF a, b
  <2>6. g[m] = sum % size
    BY <1>2, <2>3 DEF crcByte
  <2> HIDE DEF sum
  <2>7. sum % size \in 0..(size - 1)
    <3> HIDE DEF size
    <3> QED BY <2>5
  <2> QED BY <2>1, <2>6, <2>7, BoundsAssumption DEF Octet
<1>4. Len(s) \in 0..Len(s)
  BY LenProperties
<1> QED BY <1>1, <1>3, <1>4, FoldsAreTheirSteps DEF crc32

-----------------------------------------------------------------------------
(* COBS: what is decoded of whole blocks, and what of the last one.         *)

Decoders == [out : Seq(Octet), code : Octet, left : Int, bad : BOOLEAN]
Fresh == [out |-> <<>>, code |-> 0, left |-> 0, bad |-> FALSE]

\* What was decoded, with the zero that stands behind the last block if another one follows.
Whole(d) == IF d.code \in {0, Block} THEN d.out ELSE Append(d.out, 0)

LEMMA WholeIs ==
  ASSUME NEW d \in Decoders
  PROVE  Whole(d) \in Seq(Octet)
<1>1. d.out \in Seq(Octet) /\ 0 \in Octet
  BY BoundsAssumption DEF Decoders, Octet
<1> QED BY <1>1, AppendProperties DEF Whole

LEMMA ConcatAppend ==
  ASSUME NEW S, NEW s \in Seq(S), NEW t \in Seq(S), NEW b \in S
  PROVE  s \o Append(t, b) = Append(s \o t, b)
<1> DEFINE u == <<b>>
<1>1. u \in Seq(S) /\ Append(t, b) = t \o u
  BY AppendIsConcat
<1>2. s \o t \in Seq(S)
  BY ConcatProperties
<1>3. Append(s \o t, b) = (s \o t) \o u
  BY <1>2, AppendIsConcat
<1> HIDE DEF u
<1>4. (s \o t) \o u = s \o (t \o u)
  BY <1>1, ConcatAssociative
<1> QED BY <1>1, <1>3, <1>4

LEMMA LiteralByte ==
  ASSUME NEW d \in Decoders, d.left # 0, NEW b
  PROVE  DecodeByte(d, b) = [out |-> Append(d.out, b), code |-> d.code, left |-> d.left - 1, bad |-> (d.bad \/ b = 0)]
BY DEF DecodeByte, Decoders

LEMMA LiteralBytes ==
  ASSUME NEW d \in Decoders, NEW block \in Seq(1..Block), d.left = Len(block)
  PROVE  Dec!Fold(d, block) = [out |-> d.out \o block, code |-> d.code, left |-> 0, bad |-> d.bad]
<1> DEFINE l == Len(block)
           At(k) == [out |-> d.out \o SubSeq(block, 1, k), code |-> d.code, left |-> l - k, bad |-> d.bad]
           h == [k \in 0..l |-> At(k)]
<1>1. l \in Nat /\ DOMAIN block = 1..l /\ block \in Seq(Octet) /\ \A k \in 1..l : block[k] \in 1..Block
  <2>1. 1..Block \subseteq Octet
    BY BoundsAssumption DEF Octet
  <2> QED BY <2>1, LenProperties, ElementOfSeq, SeqMonotonic
<1>2. d.out \in Seq(Octet) /\ d.left = l /\ d = [out |-> d.out, code |-> d.code, left |-> d.left, bad |-> d.bad]
  BY DEF Decoders
<1> HIDE DEF l
<1>3. h[0] = d
  <2>1. 0 \in 0..l
    BY <1>1
  <2>2. SubSeq(block, 1, 0) = <<>>
    BY <1>1, SubSeqEmpty
  <2>3. d.out \o <<>> = d.out
    BY <1>2, ConcatEmptySeq
  <2>4. l - 0 = l
    BY <1>1
  <2> QED BY <1>2, <2>1, <2>2, <2>3, <2>4
<1>4. ASSUME NEW k \in 1..l
      PROVE  h[k] = DecodeByte(h[k - 1], block[k])
  <2>1. k \in 0..l /\ k - 1 \in 0..l /\ l - (k - 1) # 0 /\ (l - (k - 1)) - 1 = l - k /\ block[k] # 0
    BY <1>1
  <2>2. h[k] = At(k) /\ h[k - 1] = At(k - 1)
    BY <2>1
  <2> DEFINE before == SubSeq(block, 1, k - 1)
  <2>3. SubSeq(block, 1, k) = Append(before, block[k]) /\ before \in Seq(Octet) /\ block[k] \in Octet
    <3>1. \A i \in 1..(k - 1) : block[i] \in Octet
      BY <1>1, ElementOfSeq DEF l
    <3>2. before \in Seq(Octet) /\ Len(before) = k - 1 /\ \A i \in 1..(k - 1) : before[i] = block[i]
      BY <1>1, <2>1, SubSeqProperties DEF l
    <3>3. block[k] \in Octet
      BY <1>1, ElementOfSeq DEF l
    <3>4. SubSeq(block, 1, k) = Append(before, block[k])
      BY <1>1, <2>1 DEF l
    <3> QED BY <3>2, <3>3, <3>4
  <2> HIDE DEF before
  <2>4. d.out \o SubSeq(block, 1, k) = Append(d.out \o before, block[k])
    <3> DEFINE after == SubSeq(block, 1, k)
               b == block[k]
    <3>1. after = Append(before, b) /\ b \in Octet
      BY <2>3
    <3> HIDE DEF after, b, h, At
    <3>2. d.out \o Append(before, b) = Append(d.out \o before, b)
      BY <1>2, <2>3, <3>1, ConcatAppend
    <3>3. d.out \o after = Append(d.out \o before, b)
      BY <3>1, <3>2
    <3> QED BY <3>3 DEF after, b
  <2>5. At(k - 1) = [out |-> d.out \o before, code |-> d.code, left |-> l - (k - 1), bad |-> d.bad]
    BY DEF before
  <2>6. (d.bad \/ block[k] = 0) = d.bad
    BY <2>1 DEF Decoders
  <2>7. At(k) = [out |-> Append(d.out \o before, block[k]), code |-> d.code, left |-> (l - (k - 1)) - 1, bad |-> (d.bad \/ block[k] = 0)]
    BY <2>1, <2>4, <2>6
  <2>8. At(k - 1) \in Decoders
    <3>1. d.out \o before \in Seq(Octet)
      BY <1>2, <2>3, ConcatProperties
    <3>2. l - (k - 1) \in Int
      BY <1>1
    <3> QED BY <2>5, <3>1, <3>2 DEF Decoders
  <2> DEFINE e == At(k - 1)
  <2>9. e \in Decoders /\ e.left = l - (k - 1) /\ e.out = d.out \o before /\ e.code = d.code /\ e.bad = d.bad
    BY <2>5, <2>8
  <2>10. h[k - 1] = e
    BY <2>2
  <2> HIDE DEF h, At, e
  <2>11. DecodeByte(e, block[k]) = [out |-> Append(e.out, block[k]), code |-> e.code, left |-> e.left - 1, bad |-> (e.bad \/ block[k] = 0)]
    BY <2>1, <2>9, LiteralByte
  <2> QED BY <2>2, <2>7, <2>9, <2>10, <2>11
<1>5. h[l] = [out |-> d.out \o block, code |-> d.code, left |-> 0, bad |-> d.bad]
  <2>1. l \in 0..l /\ l - l = 0
    BY <1>1
  <2>2. SubSeq(block, 1, l) = block
    BY SubSeqFull DEF l
  <2> QED BY <2>1, <2>2
<1> HIDE DEF h
<1>6. Dec!Steps(h, d, block)
  BY <1>3, <1>4 DEF Dec!Steps, l
<1> QED BY <1>1, <1>5, <1>6, Dec!StepsEnd DEF l

LEMMA BlockIsDecoded ==
  ASSUME NEW d \in Decoders, d.left = 0, d.bad = FALSE,
         NEW block \in Seq(1..Block), Len(block) <= Block - 1
  PROVE  /\ Dec!Fold(Dec!Fold(d, <<Len(block) + 1>>), block)
              = [out |-> Whole(d) \o block, code |-> Len(block) + 1, left |-> 0, bad |-> FALSE]
         /\ Dec!Fold(Dec!Fold(d, <<Len(block) + 1>>), block) \in Decoders
<1> DEFINE c == Len(block) + 1
           e == [out |-> Whole(d), code |-> c, left |-> c - 1, bad |-> FALSE]
<1>1. c \in 1..Block /\ c - 1 = Len(block) /\ c # 0
  BY LenProperties, BoundsAssumption
<1>2. Dec!Fold(d, <<c>>) = DecodeByte(d, c)
  BY Dec!FoldOne
<1>3. DecodeByte(d, c) = e
  BY <1>1 DEF DecodeByte, Whole
<1>4. Whole(d) \in Seq(Octet) /\ block \in Seq(Octet) /\ c \in Octet
  <2>1. 1..Block \subseteq Octet
    BY BoundsAssumption DEF Octet
  <2> QED BY <1>1, <2>1, WholeIs, SeqMonotonic
<1>5. e \in Decoders /\ e.left = Len(block)
  BY <1>1, <1>4 DEF Decoders
<1>6. Dec!Fold(e, block) = [out |-> e.out \o block, code |-> e.code, left |-> 0, bad |-> e.bad]
  BY <1>5, LiteralBytes
<1>7. Dec!Fold(Dec!Fold(d, <<c>>), block) = [out |-> Whole(d) \o block, code |-> c, left |-> 0, bad |-> FALSE]
  BY <1>2, <1>3, <1>6
<1>8. Whole(d) \o block \in Seq(Octet)
  BY <1>4, ConcatProperties
<1>9. [out |-> Whole(d) \o block, code |-> c, left |-> 0, bad |-> FALSE] \in Decoders
  BY <1>4, <1>8 DEF Decoders
<1> HIDE DEF e
<1> QED BY <1>7, <1>9

-----------------------------------------------------------------------------
(* COBS: an encoder that has taken in P. What it has put out decodes to all *)
(* of P but the block it has in hand, and full blocks cost a byte each.     *)

Encoders == [out : Seq(1..Block), block : Seq(1..Block)]

\* Of n bytes a are out and c are in hand, and f full blocks have cost a byte each.
Counted(a, c, n) == \E f \in Nat : a + c = n + f /\ f * (Block - 1) + c <= n

LEMMA CountsOn ==
  ASSUME NEW a \in Nat, NEW c \in Nat, NEW n \in Nat, Counted(a, c, n)
  PROVE  /\ Counted(a + c + 1, 0, n + 1)
         /\ Counted(a, c + 1, n + 1)
         /\ c + 2 = Block => Counted(a + c + 2, 0, n + 1)
<1>1. PICK f \in Nat : a + c = n + f /\ f * (Block - 1) + c <= n
  BY DEF Counted
<1> DEFINE p == f * (Block - 1)
           q == (f + 1) * (Block - 1)
<1>2. p \in Nat /\ q = p + (Block - 1) /\ f + 1 \in Nat /\ Block \in Nat
  BY BoundsAssumption
<1>3. p + c <= n
  BY <1>1
<1> HIDE DEF p, q
<1>4. a + c + 1 + 0 = (n + 1) + f /\ p + 0 <= n + 1
  BY <1>1, <1>2, <1>3
<1>5. a + (c + 1) = (n + 1) + f /\ p + (c + 1) <= n + 1
  BY <1>1, <1>2, <1>3
<1>6. c + 2 = Block => (a + c + 2 + 0 = (n + 1) + (f + 1) /\ q + 0 <= n + 1)
  BY <1>1, <1>2, <1>3
<1>7. Counted(a + c + 1, 0, n + 1)
  BY <1>4 DEF Counted, p
<1>8. Counted(a, c + 1, n + 1)
  BY <1>5 DEF Counted, p
<1>9. c + 2 = Block => Counted(a + c + 2, 0, n + 1)
  BY <1>2, <1>6 DEF Counted, q
<1> QED BY <1>7, <1>8, <1>9

Decodable(bytes) ==
  /\ Dec!Fold(Fresh, bytes) \in Decoders
  /\ Dec!Fold(Fresh, bytes).left = 0 /\ Dec!Fold(Fresh, bytes).bad = FALSE

Encoded(s, P) ==
  /\ s \in Encoders /\ Len(s.block) <= Block - 2
  /\ Counted(Len(s.out), Len(s.block), Len(P))
  /\ Decodable(s.out) /\ Whole(Dec!Fold(Fresh, s.out)) \o s.block = P

LEMMA ThreeInARow ==
  ASSUME NEW S, NEW a \in Seq(S), NEW b \in Seq(S), NEW c \in Seq(S)
  PROVE  /\ (a \o b) \o c \in Seq(S) /\ Len((a \o b) \o c) = Len(a) + Len(b) + Len(c)
         /\ \A x : Dec!Fold(x, (a \o b) \o c) = Dec!Fold(Dec!Fold(Dec!Fold(x, a), b), c)
<1> DEFINE ab == a \o b
<1>1. ab \in Seq(S) /\ Len(ab) = Len(a) + Len(b)
  BY ConcatProperties
<1>2. \A x : Dec!Fold(x, ab) = Dec!Fold(Dec!Fold(x, a), b)
  BY Dec!FoldConcat
<1> HIDE DEF ab
<1>3. ab \o c \in Seq(S) /\ Len(ab \o c) = Len(ab) + Len(c)
  BY <1>1, ConcatProperties
<1>4. \A x : Dec!Fold(x, ab \o c) = Dec!Fold(Dec!Fold(x, ab), c)
  BY <1>1, Dec!FoldConcat
<1>5. (a \o b) \o c = ab \o c
  BY DEF ab
<1> QED BY <1>1, <1>2, <1>3, <1>4, <1>5

LEMMA ClosedIs ==
  ASSUME NEW s \in Encoders, Decodable(s.out), Len(s.block) <= Block - 1
  PROVE  /\ Closed(s) \in Seq(1..Block) /\ Len(Closed(s)) = Len(s.out) + Len(s.block) + 1
         /\ Decodable(Closed(s))
         /\ Dec!Fold(Fresh, Closed(s)).out = Whole(Dec!Fold(Fresh, s.out)) \o s.block
         /\ Dec!Fold(Fresh, Closed(s)).code = Len(s.block) + 1
<1> DEFINE D == 1..Block
           o == s.out
           k == s.block
           c == <<Len(k) + 1>>
           d == Dec!Fold(Fresh, o)
           e == Dec!Fold(Dec!Fold(d, c), k)
<1>1. o \in Seq(D) /\ k \in Seq(D) /\ Len(k) + 1 \in D /\ Len(k) <= Block - 1
  BY LenProperties, BoundsAssumption DEF Encoders
<1>2. c \in Seq(D) /\ Len(c) = 1
  BY <1>1
<1>3. d \in Decoders /\ d.left = 0 /\ d.bad = FALSE
  BY DEF Decodable
<1>4. e = [out |-> Whole(d) \o k, code |-> Len(k) + 1, left |-> 0, bad |-> FALSE] /\ e \in Decoders
  <2> HIDE DEF d, k
  <2> QED BY <1>1, <1>3, BlockIsDecoded
<1>5. Closed(s) = (o \o c) \o k
  BY DEF Closed
<1>6. Closed(s) \in Seq(D) /\ Len(Closed(s)) = Len(o) + Len(c) + Len(k)
  <2>1. (o \o c) \o k \in Seq(D) /\ Len((o \o c) \o k) = Len(o) + Len(c) + Len(k)
    <3>1. o \in Seq(D) /\ c \in Seq(D) /\ k \in Seq(D)
      BY <1>1, <1>2
    <3> HIDE DEF o, k, c, D
    <3> QED BY <3>1, ThreeInARow
  <2> HIDE DEF o, k, c, D
  <2> QED BY <1>5, <2>1
<1>7. Dec!Fold(Fresh, Closed(s)) = e
  <2>1. Dec!Fold(Fresh, (o \o c) \o k) = Dec!Fold(Dec!Fold(Dec!Fold(Fresh, o), c), k)
    <3> HIDE DEF o, k, c, D
    <3> QED BY <1>1, <1>2, ThreeInARow
  <2> QED BY <1>5, <2>1
<1>8. Len(o) \in Nat /\ Len(k) \in Nat
  BY <1>1, LenProperties
<1> HIDE DEF d, e
<1>12. e.out = Whole(d) \o k /\ e.code = Len(k) + 1 /\ e.left = 0 /\ e.bad = FALSE
  BY <1>4
<1>13. Len(o) + Len(c) + Len(k) = Len(o) + Len(k) + 1
  <2> HIDE DEF o, k, c
  <2> QED BY <1>2, <1>8
<1> HIDE DEF c
<1> QED BY <1>4, <1>6, <1>7, <1>12, <1>13 DEF Decodable, d, o, k, D

LEMMA EncodeByteKeeps ==
  ASSUME NEW P \in Seq(Octet), NEW s, Encoded(s, P), NEW b \in Octet
  PROVE  Encoded(EncodeByte(s, b), Append(P, b))
<1> DEFINE d == Dec!Fold(Fresh, s.out)
           Q == Append(P, b)
           n == Len(P)
<1>1. s \in Encoders /\ s.out \in Seq(1..Block) /\ s.block \in Seq(1..Block) /\ Len(s.block) <= Block - 2 /\ Block \in Nat
  BY BoundsAssumption DEF Encoded, Encoders
<1>2. Len(s.out) \in Nat /\ Len(s.block) \in Nat /\ n \in Nat /\ Len(s.block) <= Block - 1
  BY <1>1, LenProperties
<1> DEFINE a == Len(s.out)
           c == Len(s.block)
<1>3. Counted(a, c, n)
  BY DEF Encoded
<1>4. /\ Counted(a + c + 1, 0, n + 1)
      /\ Counted(a, c + 1, n + 1)
      /\ c + 2 = Block => Counted(a + c + 2, 0, n + 1)
  <2> HIDE DEF a, c, n
  <2>1. a \in Nat /\ c \in Nat /\ n \in Nat
    BY <1>2 DEF a, c
  <2> QED BY <1>3, <2>1, CountsOn
<1>5. Q \in Seq(Octet) /\ Len(Q) = n + 1
  BY AppendProperties
<1>6. Whole(d) \in Seq(Octet) /\ s.block \in Seq(Octet) /\ Whole(d) \o s.block = P /\ Decodable(s.out)
  <2>1. d \in Decoders
    BY DEF Encoded, Decodable
  <2>2. 1..Block \subseteq Octet
    BY BoundsAssumption DEF Octet
  <2> HIDE DEF d
  <2>3. Whole(d) \in Seq(Octet) /\ s.block \in Seq(Octet)
    BY <1>1, <2>1, <2>2, WholeIs, SeqMonotonic
  <2> QED BY <2>3 DEF Encoded, d
<1> HIDE DEF d, Q, n, a, c
<1> USE DEF a, c
<1>7. CASE b = 0
  <2> DEFINE o == Closed(s)
             t == [out |-> o, block |-> <<>>]
             e == Dec!Fold(Fresh, o)
  <2>1. EncodeByte(s, b) = t
    BY <1>7 DEF EncodeByte
  <2>2. /\ o \in Seq(1..Block) /\ Len(o) = Len(s.out) + Len(s.block) + 1
        /\ Decodable(o) /\ e.out = Whole(d) \o s.block /\ e.code = Len(s.block) + 1
    BY <1>1, <1>2, <1>6, ClosedIs DEF d
  <2> HIDE DEF o, e
  <2>3. t \in Encoders /\ t.out = o /\ t.block = <<>> /\ Len(t.block) = 0
    BY <2>2, EmptySeq DEF Encoders
  <2> HIDE DEF t
  <2>4. e.code \notin {0, Block}
    BY <1>1, <1>2, <2>2
  <2>5. Whole(e) = Q
    BY <1>6, <1>7, <2>2, <2>4 DEF Whole, Q
  <2>6. Whole(e) \o <<>> = Q
    BY <1>5, <2>5, ConcatEmptySeq
  <2>7. Counted(Len(t.out), Len(t.block), n + 1)
    BY <1>4, <2>2, <2>3
  <2>8. Len(t.block) <= Block - 2
    BY <1>1, <2>3, BoundsAssumption
  <2> QED BY <1>5, <2>1, <2>2, <2>3, <2>6, <2>7, <2>8 DEF Encoded, e, Q
<1>8. CASE b # 0
  <2> DEFINE k == Append(s.block, b)
             t == [s EXCEPT !.block = k]
  <2>1. b \in 1..Block
    BY <1>8, BoundsAssumption DEF Octet
  <2>2. k \in Seq(1..Block) /\ Len(k) = Len(s.block) + 1
    BY <1>1, <2>1, AppendProperties
  <2>3. Whole(d) \o k = Q
    <3> DEFINE o == Whole(d)
               h == s.block
    <3>1. o \in Seq(Octet) /\ h \in Seq(Octet) /\ o \o h = P
      BY <1>6
    <3> HIDE DEF o, h
    <3>2. o \o Append(h, b) = Append(P, b)
      BY <3>1, ConcatAppend
    <3> QED BY <3>2 DEF Q, o, h
  <2> HIDE DEF k
  <2>4. t \in Encoders /\ t.out = s.out /\ t.block = k
    BY <1>1, <2>2 DEF Encoders
  <2>5. EncodeByte(s, b) = IF Len(t.block) + 1 = Block THEN [out |-> Closed(t), block |-> <<>>] ELSE t
    BY <1>8 DEF EncodeByte, k
  <2> HIDE DEF t
  <2>6. CASE Len(k) + 1 = Block
    <3> DEFINE o == Closed(t)
               u == [out |-> o, block |-> <<>>]
               e == Dec!Fold(Fresh, o)
    <3>1. EncodeByte(s, b) = u
      BY <2>4, <2>5, <2>6
    <3>2. /\ o \in Seq(1..Block) /\ Len(o) = Len(s.out) + Len(k) + 1
          /\ Decodable(o) /\ e.out = Whole(d) \o k /\ e.code = Len(k) + 1
      <4>1. Len(t.block) <= Block - 1 /\ Decodable(t.out)
        BY <1>2, <1>6, <2>2, <2>4, <2>6
      <4> QED BY <2>4, <4>1, ClosedIs DEF d
    <3> HIDE DEF o, e
    <3>3. u \in Encoders /\ u.out = o /\ u.block = <<>> /\ Len(u.block) = 0
      BY <3>2, EmptySeq DEF Encoders
    <3> HIDE DEF u
    <3>4. Whole(e) \o <<>> = Q
      <4>1. Whole(e) = Q
        BY <2>3, <2>6, <3>2 DEF Whole
      <4> QED BY <1>5, <4>1, ConcatEmptySeq
    <3>5. Counted(Len(u.out), Len(u.block), n + 1)
      <4>1. Len(u.out) = a + (c + 1) + 1 /\ c + 1 + 1 = Block
        BY <2>2, <2>6, <3>2, <3>3
      <4>2. a \in Nat /\ c \in Nat
        BY <1>2
      <4> HIDE DEF a, c
      <4>3. a + (c + 1) + 1 = a + c + 2 /\ c + 2 = Block
        BY <4>1, <4>2
      <4> QED BY <1>4, <3>3, <4>1, <4>3
    <3>6. Len(u.block) <= Block - 2
      BY <1>1, <3>3, BoundsAssumption
    <3> QED BY <1>5, <3>1, <3>2, <3>3, <3>4, <3>5, <3>6 DEF Encoded, e, Q
  <2>7. CASE Len(k) + 1 # Block
    <3>1. EncodeByte(s, b) = t
      BY <2>4, <2>5, <2>7
    <3>2. Len(t.block) <= Block - 2
      BY <1>1, <1>2, <2>2, <2>4, <2>7
    <3>3. Counted(Len(t.out), Len(t.block), n + 1)
      BY <1>4, <2>2, <2>4
    <3> QED BY <1>5, <1>6, <2>3, <2>4, <3>1, <3>2, <3>3 DEF Encoded, d, Q
  <2> QED BY <2>6, <2>7
<1> QED BY <1>7, <1>8

LEMMA PrefixGrows ==
  ASSUME NEW S, NEW s \in Seq(S), NEW k \in 1..Len(s)
  PROVE  /\ SubSeq(s, 1, k - 1) \in Seq(S) /\ s[k] \in S
         /\ SubSeq(s, 1, k) = Append(SubSeq(s, 1, k - 1), s[k])
<1>1. Len(s) \in Nat /\ s[k] \in S
  BY LenProperties, ElementOfSeq
<1>2. \A i \in 1..(k - 1) : s[i] \in S
  BY <1>1, ElementOfSeq
<1>3. SubSeq(s, 1, k - 1) \in Seq(S)
  BY <1>1, <1>2, SubSeqProperties
<1>4. SubSeq(s, 1, k) = Append(SubSeq(s, 1, k - 1), s[k])
  BY <1>1
<1> QED BY <1>1, <1>3, <1>4

NewEncoder == [out |-> <<>>, block |-> <<>>]

LEMMA NothingEncoded == Encoded(NewEncoder, <<>>)
<1>1. NewEncoder \in Encoders /\ NewEncoder.out = <<>> /\ NewEncoder.block = <<>>
  BY EmptySeq DEF NewEncoder, Encoders
<1>2. Len(<<>>) = 0 /\ 0 <= Block - 2
  BY BoundsAssumption, EmptySeq
<1>3. Counted(0, 0, 0)
  <2>1. 0 \in Nat /\ 0 + 0 = 0 + 0 /\ 0 * (Block - 1) + 0 <= 0
    BY BoundsAssumption
  <2> QED BY <2>1 DEF Counted
<1>4. Dec!Fold(Fresh, <<>>) = Fresh
  BY Dec!FoldNothing
<1>5. Fresh \in Decoders /\ Fresh.left = 0 /\ Fresh.bad = FALSE /\ Fresh.code = 0 /\ Fresh.out = <<>>
  <2>1. 0 \in Octet
    BY BoundsAssumption DEF Octet
  <2> QED BY <2>1, EmptySeq DEF Fresh, Decoders
<1>6. Whole(Fresh) \o <<>> = <<>>
  BY <1>5 DEF Whole
<1> QED BY <1>1, <1>2, <1>3, <1>4, <1>5, <1>6 DEF Encoded, Decodable

LEMMA AllEncoded ==
  ASSUME NEW bytes \in Seq(Octet)
  PROVE  Encoded(Enc!Fold(NewEncoder, bytes), bytes)
<1> DEFINE l == Len(bytes)
<1>1. l \in Nat
  BY LenProperties
<1>2. PICK g : Enc!Steps(g, NewEncoder, bytes) /\ Enc!Fold(NewEncoder, bytes) = g[l]
  BY Enc!FoldSteps
<1>3. g[0] = NewEncoder /\ \A k \in 1..l : g[k] = EncodeByte(g[k - 1], bytes[k])
  BY <1>2 DEF Enc!Steps
<1> DEFINE N == {k \in 0..l : ~ Encoded(g[k], SubSeq(bytes, 1, k))}
<1>4. N = {}
  <2> SUFFICES ASSUME N # {} PROVE FALSE
    OBVIOUS
  <2>0. N \subseteq Nat
    OBVIOUS
  <2> HIDE DEF N
  <2>1. PICK m \in N : \A k \in N : m <= k
    BY <2>0, LeastNumber
  <2> USE DEF N
  <2>2. CASE m = 0
    <3>1. SubSeq(bytes, 1, 0) = <<>>
      BY SubSeqEmpty
    <3>2. Encoded(g[m], SubSeq(bytes, 1, m))
      BY <1>3, <2>2, <3>1, NothingEncoded
    <3> QED BY <2>1, <3>2
  <2>3. CASE m # 0
    <3>1. m \in 1..l /\ m - 1 \in 0..l /\ ~ (m <= m - 1)
      BY <1>1, <2>1, <2>3
    <3>2. Encoded(g[m - 1], SubSeq(bytes, 1, m - 1))
      BY <2>1, <3>1
    <3>3. /\ SubSeq(bytes, 1, m - 1) \in Seq(Octet) /\ bytes[m] \in Octet
          /\ SubSeq(bytes, 1, m) = Append(SubSeq(bytes, 1, m - 1), bytes[m])
      BY <3>1, PrefixGrows
    <3> DEFINE P == SubSeq(bytes, 1, m - 1)
    <3>4. Encoded(EncodeByte(g[m - 1], bytes[m]), Append(P, bytes[m]))
      <4> HIDE DEF P
      <4>1. P \in Seq(Octet) /\ Encoded(g[m - 1], P) /\ bytes[m] \in Octet
        BY <3>2, <3>3 DEF P
      <4> QED BY <4>1, EncodeByteKeeps
    <3>5. Encoded(g[m], SubSeq(bytes, 1, m))
      BY <1>3, <3>1, <3>3, <3>4
    <3> QED BY <2>1, <3>5
  <2> QED BY <2>2, <2>3
<1>5. l \in 0..l /\ SubSeq(bytes, 1, l) = bytes
  BY <1>1, SubSeqFull
<1> QED BY <1>2, <1>4, <1>5

LEMMA AtMostTheQuotient ==
  ASSUME NEW f \in Nat, NEW K \in Nat, K > 0, NEW n \in Nat, f * K <= n
  PROVE  f <= n \div K
<1> DEFINE q == n \div K
           r == n % K
<1>1. q \in Nat /\ r \in 0..(K - 1) /\ n = K * q + r
  OBVIOUS
<1> HIDE DEF q, r
<1>2. ASSUME ~ (f <= q)
      PROVE  FALSE
  <2> DEFINE e == f - (q + 1)
  <2>1. e \in Nat /\ f = e + (q + 1)
    BY <1>1, <1>2
  <2> HIDE DEF e
  <2>2. f * K = e * K + (q * K + K)
    BY <1>1, <2>1
  <2>3. e * K \in Nat /\ q * K = K * q /\ K * q \in Nat
    BY <1>1, <2>1
  <2> QED BY <1>1, <2>2, <2>3
<1> QED BY <1>2 DEF q

\* cobsDecode() undoes cobsEncode() for every sequence of bytes, the encoding has no zero in it, and
\* it is as long as maxEncodedLength() allows for: what keeps a frame between two delimiters.
THEOREM CobsIsUndone ==
  ASSUME NEW bytes \in Seq(Octet)
  PROVE  /\ cobsEncode(bytes) \in Seq(1..Block)
         /\ Len(cobsEncode(bytes)) >= Len(bytes) + 1
         /\ \A m \in Nat : Len(bytes) <= m => Len(cobsEncode(bytes)) <= m + 1 + m \div (Block - 1)
         /\ cobsDecode(cobsEncode(bytes)) = bytes
<1> DEFINE s == Enc!Fold(NewEncoder, bytes)
           e == Closed(s)
           d == Dec!Fold(Fresh, e)
           l == Len(bytes)
           a == Len(s.out)
           c == Len(s.block)
<1>1. cobsEncode(bytes) = e
  BY FoldsAreTheirSteps DEF cobsEncode, NewEncoder
<1>2. Encoded(s, bytes)
  BY AllEncoded
<1> HIDE DEF s
<1>3. /\ s \in Encoders /\ c <= Block - 2 /\ Counted(a, c, l)
      /\ Decodable(s.out) /\ Whole(Dec!Fold(Fresh, s.out)) \o s.block = bytes
  BY <1>2 DEF Encoded
<1>4. s.out \in Seq(1..Block) /\ s.block \in Seq(1..Block)
  BY <1>3 DEF Encoders
<1>5. a \in Nat /\ c \in Nat /\ l \in Nat /\ c <= Block - 1
  BY <1>3, <1>4, LenProperties, BoundsAssumption
<1>6. /\ e \in Seq(1..Block) /\ Len(e) = a + c + 1
      /\ Decodable(e) /\ d.out = Whole(Dec!Fold(Fresh, s.out)) \o s.block
  BY <1>3, <1>5, ClosedIs
<1>7. cobsDecode(e) = bytes
  <2>1. cobsDecode(e) = IF e = <<>> \/ d.bad \/ d.left # 0 THEN None ELSE d.out
    BY FoldsAreTheirSteps DEF cobsDecode, Fresh
  <2> HIDE DEF e, d, a, c
  <2>2. e # <<>>
    <3>1. e = <<>> => Len(e) = 0
      BY EmptySeq
    <3> QED BY <1>5, <1>6, <3>1
  <2>3. d.bad = FALSE /\ d.left = 0
    BY <1>6 DEF Decodable, d
  <2> QED BY <1>3, <1>6, <2>1, <2>2, <2>3
<1>8. PICK f \in Nat : a + c = l + f /\ f * (Block - 1) + c <= l
  BY <1>3 DEF Counted
<1> HIDE DEF e, d, a, c, l
<1>9. Len(e) >= l + 1
  BY <1>5, <1>6, <1>8
<1>10. ASSUME NEW m \in Nat, l <= m
       PROVE  Len(e) <= m + 1 + m \div (Block - 1)
  <2> DEFINE K == Block - 1
             p == f * K
             q == m \div K
  <2>1. K \in Nat /\ K > 0
    BY BoundsAssumption
  <2>2. p \in Nat /\ p + c <= l
    <3> HIDE DEF K
    <3> QED BY <1>8, <2>1 DEF K
  <2>3. p <= m
    <3> HIDE DEF p
    <3> QED BY <1>5, <1>10, <2>2
  <2> HIDE DEF K
  <2>4. f <= q
    BY <2>1, <2>3, AtMostTheQuotient
  <2>5. q \in Nat
    BY <2>1
  <2> HIDE DEF p, q
  <2>6. Len(e) <= m + 1 + q
    BY <1>5, <1>6, <1>8, <1>10, <2>4, <2>5
  <2> QED BY <2>6 DEF q, K
<1> QED BY <1>1, <1>6, <1>7, <1>9, <1>10 DEF l

LEMMA DecodersStay ==
  ASSUME NEW d \in Decoders, NEW b \in Octet
  PROVE  DecodeByte(d, b) \in Decoders
<1>1. Whole(d) \in Seq(Octet) /\ d.out \in Seq(Octet) /\ d.left \in Int /\ d.code \in Octet /\ d.bad \in BOOLEAN
  BY WholeIs DEF Decoders
<1>2. CASE d.left = 0
  <2>1. DecodeByte(d, b) = [out |-> Whole(d), code |-> b, left |-> b - 1, bad |-> (d.bad \/ b = 0)]
    BY <1>2 DEF DecodeByte, Whole
  <2>2. b - 1 \in Int
    BY BoundsAssumption DEF Octet
  <2>3. (d.bad \/ b = 0) \in BOOLEAN
    OBVIOUS
  <2> QED BY <1>1, <2>1, <2>2, <2>3 DEF Decoders
<1>3. CASE d.left # 0
  <2>1. DecodeByte(d, b) = [out |-> Append(d.out, b), code |-> d.code, left |-> d.left - 1, bad |-> (d.bad \/ b = 0)]
    BY <1>3, LiteralByte
  <2>2. Append(d.out, b) \in Seq(Octet) /\ d.left - 1 \in Int
    BY <1>1, AppendProperties
  <2>3. (d.bad \/ b = 0) \in BOOLEAN
    OBVIOUS
  <2> QED BY <1>1, <2>1, <2>2, <2>3 DEF Decoders
<1> QED BY <1>2, <1>3

LEMMA DecodedIsBytes ==
  ASSUME NEW chunk \in Seq(Octet)
  PROVE  cobsDecode(chunk) = None \/ cobsDecode(chunk) \in Seq(Octet)
<1> DEFINE l == Len(chunk)
           d == Dec!Fold(Fresh, chunk)
<1>1. PICK g : Dec!Steps(g, Fresh, chunk) /\ d = g[l]
  BY Dec!FoldSteps
<1>2. g[0] = Fresh /\ \A k \in 1..l : g[k] = DecodeByte(g[k - 1], chunk[k])
  BY <1>1 DEF Dec!Steps
<1>3. l \in Nat /\ \A k \in 1..l : chunk[k] \in Octet
  BY LenProperties, ElementOfSeq
<1> DEFINE N == {k \in 0..l : g[k] \notin Decoders}
<1>4. N = {}
  <2> SUFFICES ASSUME N # {} PROVE FALSE
    OBVIOUS
  <2>0. N \subseteq Nat
    OBVIOUS
  <2> HIDE DEF N
  <2>1. PICK m \in N : \A k \in N : m <= k
    BY <2>0, LeastNumber
  <2> USE DEF N
  <2> HIDE DEF l
  <2>2. CASE m = 0
    <3>1. Fresh \in Decoders
      <4>1. 0 \in Octet
        BY BoundsAssumption DEF Octet
      <4> QED BY <4>1, EmptySeq DEF Fresh, Decoders
    <3> QED BY <1>2, <2>1, <2>2, <3>1
  <2>3. CASE m # 0
    <3>1. m \in 1..l /\ m - 1 \in 0..l /\ ~ (m <= m - 1)
      BY <1>3, <2>1, <2>3
    <3>2. g[m - 1] \in Decoders /\ chunk[m] \in Octet
      BY <1>3, <2>1, <3>1
    <3>3. g[m] \in Decoders
      BY <1>2, <3>1, <3>2, DecodersStay
    <3> QED BY <2>1, <3>3
  <2> QED BY <2>2, <2>3
<1>5. l \in 0..l
  BY <1>3
<1>6. d \in Decoders
  BY <1>1, <1>4, <1>5
<1>7. cobsDecode(chunk) = IF chunk = <<>> \/ d.bad \/ d.left # 0 THEN None ELSE d.out
  BY FoldsAreTheirSteps DEF cobsDecode, Fresh
<1> HIDE DEF d
<1> QED BY <1>6, <1>7 DEF Decoders

-----------------------------------------------------------------------------
(* Frames and messages.                                                     *)

Reasons == {"oversize", "cobs", "short", "crc", "version", "direction", "unknown_type", "field", "not_object", "bad_json"}
Events == [error : Reasons \cup {"none"}, type : Octet, payload : Payloads]

LEMMA PayloadsAre ==
  ASSUME NEW p
  PROVE  p \in Payloads <=> p \in Seq(Octet) /\ Len(p) <= MaxPayload
<1>0. MaxPayload \in Nat
  BY BoundsAssumption
<1>1. ASSUME p \in Payloads
      PROVE  p \in Seq(Octet) /\ Len(p) <= MaxPayload
  <2>1. PICK n \in 0..MaxPayload : p \in [1..n -> Octet]
    BY <1>1 DEF Payloads
  <2>2. n \in Nat
    BY <1>0, <2>1
  <2>3. p \in Seq(Octet)
    BY <2>1, <2>2, SeqDef
  <2>4. Len(p) = n
    BY <2>1, <2>2, <2>3, LenProperties
  <2> QED BY <1>0, <2>1, <2>3, <2>4
<1>2. ASSUME p \in Seq(Octet), Len(p) <= MaxPayload
      PROVE  p \in Payloads
  <2>1. Len(p) \in 0..MaxPayload /\ p \in [1..Len(p) -> Octet]
    BY <1>0, <1>2, LenProperties
  <2> QED BY <2>1 DEF Payloads
<1> QED BY <1>1, <1>2

LEMMA ErrorsAreEvents ==
  ASSUME NEW why \in Reasons
  PROVE  Error(why) \in Events /\ Error(why).error = why
<1>1. 0 \in Octet /\ <<>> \in Seq(Octet) /\ Len(<<>>) <= MaxPayload
  BY BoundsAssumption, EmptySeq DEF Octet
<1>2. <<>> \in Payloads
  BY <1>1, PayloadsAre
<1> QED BY <1>1, <1>2 DEF Error, Events

LEMMA FrameIsEncoded ==
  ASSUME NEW f, f.type \in Octet, NEW p \in Seq(Octet), f.payload = p
  PROVE  LET raw == <<VERSION, f.type>> \o p
             all == Append(raw, crc32(raw))
         IN /\ raw \in Seq(Octet) /\ Len(raw) = Len(p) + 2 /\ crc32(raw) \in Octet
            /\ all \in Seq(Octet) /\ Len(all) = Len(p) + 3
            /\ encodeFrame(f) = cobsEncode(all)
            /\ encodeFrame(f) \in Seq(1..Block) /\ Len(encodeFrame(f)) >= Len(p) + 4
<1> DEFINE head == <<VERSION, f.type>>
           raw == head \o p
           sum == crc32(raw)
           all == Append(raw, sum)
<1>1. head \in Seq(Octet) /\ Len(head) = 2
  <2>1. VERSION \in Octet
    BY BoundsAssumption DEF VERSION, Octet
  <2> QED BY <2>1
<1>2. encodeFrame(f) = cobsEncode(all)
  BY DEF encodeFrame
<1>3. Len(p) \in Nat
  BY LenProperties
<1> HIDE DEF head
<1>4. raw \in Seq(Octet) /\ Len(raw) = Len(p) + 2
  <2>1. raw \in Seq(Octet) /\ Len(raw) = Len(head) + Len(p)
    BY <1>1, ConcatProperties
  <2> HIDE DEF raw
  <2> QED BY <1>1, <1>3, <2>1
<1> HIDE DEF raw
<1>5. sum \in Octet
  BY <1>4, CrcIsAnOctet
<1> HIDE DEF sum
<1>6. all \in Seq(Octet) /\ Len(all) = Len(p) + 3
  <2>1. all \in Seq(Octet) /\ Len(all) = Len(raw) + 1
    BY <1>4, <1>5, AppendProperties
  <2> HIDE DEF all
  <2> QED BY <1>3, <1>4, <2>1
<1> HIDE DEF all
<1>7. cobsEncode(all) \in Seq(1..Block) /\ Len(cobsEncode(all)) >= Len(all) + 1
  BY <1>6, CobsIsUndone
<1>8. Len(cobsEncode(all)) \in Nat
  BY <1>7, LenProperties
<1>9. Len(cobsEncode(all)) >= Len(p) + 4
  <2> DEFINE n == Len(cobsEncode(all))
  <2>1. n \in Nat /\ n >= Len(all) + 1
    BY <1>7, <1>8
  <2> HIDE DEF n
  <2>2. n >= Len(p) + 4
    BY <1>3, <1>6, <2>1
  <2> QED BY <2>2 DEF n
<1> QED BY <1>2, <1>4, <1>5, <1>6, <1>7, <1>9 DEF all, sum, raw, head

LEMMA FrameIsUndone ==
  ASSUME NEW f, f.type \in Octet, f.payload \in Payloads
  PROVE  /\ Len(encodeFrame(f)) <= maxEncodedLength(MaxPayload)
         /\ decodeFrame(encodeFrame(f)) = Frame(f.type, f.payload)
<1> DEFINE p == f.payload
           head == <<VERSION, f.type>>
           raw == head \o p
           sum == crc32(raw)
           all == Append(raw, sum)
           n == Len(p)
<1>1. p \in Seq(Octet) /\ n <= MaxPayload /\ n \in Nat /\ MaxPayload \in Nat
  BY PayloadsAre, LenProperties, BoundsAssumption
<1>2. /\ raw \in Seq(Octet) /\ Len(raw) = n + 2 /\ sum \in Octet
      /\ all \in Seq(Octet) /\ Len(all) = n + 3
      /\ encodeFrame(f) = cobsEncode(all)
  BY <1>1, FrameIsEncoded
<1>3. head \in Seq(Octet) /\ Len(head) = 2 /\ head[1] = VERSION /\ head[2] = f.type
  <2>1. VERSION \in Octet
    BY BoundsAssumption DEF VERSION, Octet
  <2> QED BY <2>1
<1>4. /\ \A i \in 1..(n + 2) : raw[i] = IF i <= 2 THEN head[i] ELSE p[i - 2]
  <2> HIDE DEF head, p, n
  <2>1. \A i \in 1..(Len(head) + Len(p)) : raw[i] = IF i <= Len(head) THEN head[i] ELSE p[i - Len(head)]
    BY <1>1, <1>3, ConcatProperties
  <2> HIDE DEF raw
  <2>2. Len(head) + Len(p) = n + 2
    BY <1>1, <1>3 DEF n
  <2> QED BY <1>3, <2>1, <2>2
<1> HIDE DEF head, raw, sum, p
<1>5. /\ \A i \in 1..(n + 2) : all[i] = raw[i]
      /\ all[n + 3] = sum
  <2>1. /\ \A i \in 1..Len(raw) : all[i] = raw[i]
        /\ all[Len(raw) + 1] = sum
    BY <1>2, AppendProperties
  <2>2. Len(raw) + 1 = n + 3
    BY <1>1, <1>2
  <2> QED BY <1>2, <2>1, <2>2
<1> HIDE DEF all, n
<1>6. all[1] = VERSION /\ all[2] = f.type
  <2>1. 1 \in 1..(n + 2) /\ 2 \in 1..(n + 2) /\ 1 <= 2 /\ 2 <= 2
    BY <1>1
  <2> QED BY <1>3, <1>4, <1>5, <2>1
<1>7. SubSeq(all, 1, n + 2) = raw
  <2>1. \A i \in 1..(n + 2) : all[i] \in Octet
    BY <1>1, <1>2, ElementOfSeq
  <2>2. /\ SubSeq(all, 1, n + 2) \in Seq(Octet) /\ Len(SubSeq(all, 1, n + 2)) = n + 2
        /\ \A i \in 1..(n + 2) : SubSeq(all, 1, n + 2)[i] = all[i]
    <3>1. SubSeq(all, 1, n + 2) = [i \in 1..(n + 2) |-> all[i]]
      BY <1>1
    <3>2. [i \in 1..(n + 2) |-> all[i]] \in Seq(Octet) /\ Len([i \in 1..(n + 2) |-> all[i]]) = n + 2
      BY <1>1, <2>1
    <3> QED BY <3>1, <3>2
  <2> DEFINE t == SubSeq(all, 1, n + 2)
  <2>3. t \in Seq(Octet) /\ Len(t) = Len(raw) /\ \A i \in 1..Len(raw) : t[i] = raw[i]
    BY <1>2, <1>5, <2>2
  <2> HIDE DEF t
  <2>4. t = raw
    BY <1>2, <2>3, SeqEqual
  <2> QED BY <2>4 DEF t
<1>8. SubSeq(all, 3, n + 2) = p
  <2>1. SubSeq(all, 3, n + 2) = [i \in 1..n |-> all[i + 2]]
    <3>1. SubSeq(all, 3, n + 2) = [i \in 1..(n + 2 - 3 + 1) |-> all[i + 3 - 1]]
      BY <1>1
    <3>2. n + 2 - 3 + 1 = n
      BY <1>1
    <3>3. \A i \in 1..n : i + 3 - 1 = i + 2
      BY <1>1
    <3> QED BY <3>1, <3>2, <3>3
  <2>2. ASSUME NEW i \in 1..n
        PROVE  all[i + 2] = p[i]
    <3>1. i + 2 \in 1..(n + 2) /\ ~ (i + 2 <= 2) /\ (i + 2) - 2 = i
      BY <1>1
    <3> QED BY <1>4, <1>5, <3>1
  <2>3. p = [i \in 1..n |-> p[i]]
    BY <1>1, LenProperties DEF n
  <2> QED BY <2>1, <2>2, <2>3
<1> DEFINE e == cobsEncode(all)
           m == FRAME_OVERHEAD + MaxPayload
<1>9. m \in Nat /\ Len(all) <= m
  BY <1>1, <1>2 DEF FRAME_OVERHEAD
<1>10. Len(e) <= m + 1 + m \div (Block - 1) /\ cobsDecode(e) = all
  <2> HIDE DEF m
  <2> QED BY <1>2, <1>9, CobsIsUndone
<1>11. maxEncodedLength(MaxPayload) = m + 1 + m \div (Block - 1)
  BY DEF maxEncodedLength
<1>12. Len(e) \in Nat /\ maxEncodedLength(MaxPayload) \in Int
  <2>1. e \in Seq(1..Block)
    BY <1>2, CobsIsUndone
  <2>2. Len(e) \in Nat
    BY <2>1, LenProperties
  <2>3. Block - 1 \in Nat /\ Block - 1 > 0
    BY BoundsAssumption
  <2>4. m \div (Block - 1) \in Int
    <3> HIDE DEF m
    <3> QED BY <1>9, <2>3
  <2> QED BY <1>9, <1>11, <2>2, <2>4
<1>13. ~ (Len(e) > maxEncodedLength(MaxPayload))
  <2> DEFINE big == maxEncodedLength(MaxPayload)
             le == Len(e)
  <2>1. le \in Nat /\ big \in Int /\ le <= big
    BY <1>10, <1>11, <1>12
  <2> HIDE DEF big, le
  <2>2. ~ (le > big)
    BY <2>1
  <2> QED BY <2>2 DEF big, le
<1>14. all # None /\ ~ (Len(all) < FRAME_OVERHEAD)
  <2>1. Len(all) # 1
    BY <1>1, <1>2
  <2>2. Len(None) = 1
    BY DEF None
  <2> QED BY <1>1, <1>2, <2>1, <2>2 DEF FRAME_OVERHEAD
<1>15. Len(all) - 1 = n + 2 /\ Len(p) = n /\ ~ (n > MaxPayload) /\ crc32(raw) = sum
  BY <1>1, <1>2 DEF n, sum
<1> HIDE DEF e, m
<1>16. decodeFrame(e) = Frame(f.type, p)
  BY <1>2, <1>5, <1>6, <1>7, <1>8, <1>10, <1>13, <1>14, <1>15 DEF decodeFrame
<1> QED BY <1>2, <1>10, <1>11, <1>16 DEF e, p

LEMMA FramesAreEvents ==
  ASSUME NEW chunk \in Seq(Octet)
  PROVE  /\ decodeFrame(chunk) \in Events
         /\ Len(chunk) > maxEncodedLength(MaxPayload) => decodeFrame(chunk) = Error("oversize")
<1> DEFINE raw == cobsDecode(chunk)
           n == Len(raw)
           p == SubSeq(raw, 3, n - 1)
<1>1. raw = None \/ raw \in Seq(Octet)
  BY DecodedIsBytes
<1>2. \A why \in Reasons : Error(why) \in Events
  BY ErrorsAreEvents
<1> HIDE DEF raw
<1>3. ASSUME raw # None, ~ (n < FRAME_OVERHEAD), ~ (Len(p) > MaxPayload)
      PROVE  Frame(raw[2], p) \in Events
  <2>1. raw \in Seq(Octet) /\ n \in Nat /\ n >= 3 /\ MaxPayload \in Nat
    BY <1>1, <1>3, LenProperties, BoundsAssumption DEF FRAME_OVERHEAD
  <2>2. \A i \in 3..(n - 1) : raw[i] \in Octet
    BY <2>1, ElementOfSeq
  <2>3. p \in Seq(Octet)
    BY <2>1, <2>2, SubSeqProperties
  <2> HIDE DEF n, p
  <2>4. Len(p) <= MaxPayload
    BY <1>3, <2>1, <2>3, LenProperties
  <2>5. p \in Payloads
    BY <2>3, <2>4, PayloadsAre
  <2>6. raw[2] \in Octet
    BY <2>1, ElementOfSeq DEF n
  <2> QED BY <2>5, <2>6 DEF Frame, Events
<1>4. decodeFrame(chunk) =
       IF Len(chunk) > maxEncodedLength(MaxPayload) THEN Error("oversize")
       ELSE IF raw = None THEN Error("cobs")
       ELSE IF n < FRAME_OVERHEAD THEN Error("short")
       ELSE IF crc32(SubSeq(raw, 1, n - 1)) # raw[n] THEN Error("crc")
       ELSE IF raw[1] # VERSION THEN Error("version")
       ELSE IF Len(p) > MaxPayload THEN Error("oversize")
       ELSE Frame(raw[2], p)
  BY DEF decodeFrame, raw
<1> HIDE DEF n, p
<1>5. "oversize" \in Reasons /\ "cobs" \in Reasons /\ "short" \in Reasons /\ "crc" \in Reasons /\ "version" \in Reasons
  BY DEF Reasons
<1> QED BY <1>2, <1>3, <1>4, <1>5

LEMMA MessagesAreEvents ==
  ASSUME NEW event \in Events
  PROVE  decodeMessage(event) \in Events
<1>1. \A why \in Reasons : Error(why) \in Events
  BY ErrorsAreEvents
<1>2. Parsed(event.payload) = "valid" \/ Parsed(event.payload) \in Reasons
  BY DEF Parsed, Reasons
<1>3. "direction" \in Reasons /\ "unknown_type" \in Reasons
  BY DEF Reasons
<1> QED BY <1>1, <1>2, <1>3 DEF decodeMessage

\* What a chunk is taken for.
Taken(chunk) == decodeMessage(decodeFrame(chunk))

LEMMA TakenIs ==
  ASSUME NEW chunk \in Seq(Octet)
  PROVE  /\ Taken(chunk) \in Events
         /\ Len(chunk) > maxEncodedLength(MaxPayload) => Taken(chunk) = Error("oversize")
<1>1. decodeFrame(chunk) \in Events
  BY FramesAreEvents
<1>2. Taken(chunk) \in Events
  BY <1>1, MessagesAreEvents DEF Taken
<1>3. ASSUME Len(chunk) > maxEncodedLength(MaxPayload)
      PROVE  Taken(chunk) = Error("oversize")
  <2>1. decodeFrame(chunk) = Error("oversize")
    BY <1>3, FramesAreEvents
  <2>2. Error("oversize").error = "oversize"
    BY DEF Error
  <2> QED BY <2>1, <2>2 DEF Taken, decodeMessage
<1> QED BY <1>2, <1>3

\* A message that this sender may send is taken for itself.
LEMMA MessageIsUndone ==
  ASSUME NEW type, NEW payload \in Payloads, Encodable(type, payload)
  PROVE  LET e == encodeFrame([type |-> type, payload |-> payload])
         IN  e \in Seq(1..Block) /\ e # <<>> /\ Taken(e) = Frame(type, payload) /\ Frame(type, payload) \in Events
<1> DEFINE f == [type |-> type, payload |-> payload]
           e == encodeFrame(f)
<1>1. type \in {DATA, JSON} /\ (type = JSON => Parsed(payload) = "valid")
  BY DEF Encodable
<1>2. type \in Octet
  BY <1>1, BoundsAssumption DEF DATA, JSON, Octet
<1>3. f.type = type /\ f.payload = payload /\ payload \in Seq(Octet)
  BY PayloadsAre
<1>4. f.type \in Octet /\ f.payload \in Payloads /\ f.payload \in Seq(Octet)
  BY <1>2, <1>3
<1> HIDE DEF f
<1>5. e \in Seq(1..Block) /\ Len(e) >= Len(payload) + 4
  BY <1>3, <1>4, FrameIsEncoded
<1>6. e # <<>>
  <2>1. Len(payload) \in Nat /\ Len(<<>>) = 0
    BY <1>3, LenProperties, EmptySeq
  <2>2. e = <<>> => 0 >= Len(payload) + 4
    BY <1>5, <2>1
  <2> QED BY <2>1, <2>2
<1>7. decodeFrame(e) = Frame(type, payload)
  BY <1>3, <1>4, FrameIsUndone
<1> HIDE DEF e
<1> DEFINE m == Frame(type, payload)
<1>8. m.error = "none" /\ m.type = type /\ m.payload = payload /\ m \in Events
  BY <1>2 DEF Frame, Events
<1>9. type # FOREIGN /\ type \in TYPES
  BY <1>1 DEF DATA, JSON, FOREIGN, TYPES
<1> HIDE DEF m
<1>10. decodeMessage(m) = m
  BY <1>1, <1>8, <1>9 DEF decodeMessage
<1> QED BY <1>5, <1>6, <1>7, <1>8, <1>10 DEF Taken, m, e, f

-----------------------------------------------------------------------------
(* The decoder and what it holds: the bytes since the last zero, or that    *)
(* they are too many.                                                       *)

Longest == maxEncodedLength(MaxPayload)
Buffers == [buffer : Seq(Octet), overflowed : BOOLEAN]

Holds(d, p) ==
  /\ d \in Buffers /\ Len(d.buffer) <= Longest
  /\ IF Len(p) <= Longest THEN d.buffer = p /\ d.overflowed = FALSE ELSE d.overflowed = TRUE

\* What a zero behind p brings out.
Ended(p) == IF p = <<>> THEN <<>> ELSE <<Taken(p)>>

LEMMA LongestIs == Longest \in Nat
<1> DEFINE m == FRAME_OVERHEAD + MaxPayload
           K == Block - 1
<1>1. m \in Nat /\ K \in Nat /\ K > 0
  BY BoundsAssumption DEF FRAME_OVERHEAD
<1>2. Longest = m + 1 + m \div K
  BY DEF Longest, maxEncodedLength
<1> HIDE DEF m, K
<1>3. m \div K \in Nat
  BY <1>1
<1> QED BY <1>1, <1>2, <1>3

LEMMA NewHoldsNothing == Holds(NewDecoder, <<>>)
<1>1. NewDecoder \in Buffers /\ NewDecoder.buffer = <<>> /\ NewDecoder.overflowed = FALSE
  BY EmptySeq DEF NewDecoder, Buffers
<1>2. Len(<<>>) = 0 /\ 0 <= Longest
  BY LongestIs, EmptySeq
<1> QED BY <1>1, <1>2 DEF Holds

LEMMA AppendedHolds ==
  ASSUME NEW d, NEW p \in Seq(Octet), Holds(d, p), NEW part \in Seq(Octet)
  PROVE  Holds(Appended(d, part), p \o part)
<1>1. d \in Buffers /\ d.buffer \in Seq(Octet) /\ d.overflowed \in BOOLEAN /\ Len(d.buffer) <= Longest
  BY DEF Holds, Buffers
<1>2. /\ Longest \in Nat /\ Len(p) \in Nat /\ Len(part) \in Nat /\ Len(d.buffer) \in Nat
      /\ p \o part \in Seq(Octet) /\ Len(p \o part) = Len(p) + Len(part)
  BY <1>1, LongestIs, LenProperties, ConcatProperties
<1> DEFINE all == p \o part
           e == Appended(d, part)
<1>3. e = IF d.overflowed \/ part = <<>> THEN d
          ELSE IF Len(d.buffer) + Len(part) > Longest THEN [d EXCEPT !.overflowed = TRUE]
          ELSE [d EXCEPT !.buffer = @ \o part]
  BY DEF Appended, Longest
<1>4. CASE part = <<>>
  <2>1. all = p
    BY <1>4, ConcatEmptySeq
  <2> QED BY <1>3, <1>4, <2>1
<1>5. CASE part # <<>> /\ d.overflowed
  <2>1. ~ (Len(p) <= Longest)
    BY <1>5 DEF Holds
  <2>2. ~ (Len(all) <= Longest)
    <3> HIDE DEF all
    <3>1. Len(all) = Len(p) + Len(part)
      BY <1>2 DEF all
    <3> QED BY <1>2, <2>1, <3>1
  <2>3. e = d
    BY <1>3, <1>5
  <2>4. Holds(e, all)
    <3> HIDE DEF e, all
    <3> QED BY <1>1, <1>5, <2>2, <2>3 DEF Holds
  <2> QED BY <2>4
<1>6. CASE part # <<>> /\ ~ d.overflowed
  <2>1. Len(p) <= Longest /\ d.buffer = p /\ d.overflowed = FALSE
    BY <1>1, <1>6 DEF Holds
  <2>2. CASE Len(p) + Len(part) > Longest
    <3>1. e = [d EXCEPT !.overflowed = TRUE]
      BY <1>3, <1>6, <2>1, <2>2
    <3>2. e \in Buffers /\ e.buffer = d.buffer /\ e.overflowed = TRUE
      BY <1>1, <3>1 DEF Buffers
    <3>3. ~ (Len(all) <= Longest)
      BY <1>2, <2>2
    <3>4. Holds(e, all)
      <4> HIDE DEF e, all
      <4> QED BY <1>1, <3>2, <3>3 DEF Holds
    <3> QED BY <3>4
  <2>3. CASE ~ (Len(p) + Len(part) > Longest)
    <3>1. e = [d EXCEPT !.buffer = p \o part]
      BY <1>3, <1>6, <2>1, <2>3
    <3>2. e \in Buffers /\ e.buffer = all /\ e.overflowed = FALSE
      BY <1>1, <1>2, <2>1, <3>1 DEF Buffers
    <3>3. Len(all) <= Longest
      BY <1>2, <2>3
    <3>4. Holds(e, all)
      <4> HIDE DEF e, all
      <4> QED BY <3>2, <3>3 DEF Holds
    <3> QED BY <3>4
  <2> QED BY <2>2, <2>3
<1> QED BY <1>1, <1>4, <1>5, <1>6

LEMMA FinishedIs ==
  ASSUME NEW d, NEW p \in Seq(Octet), Holds(d, p)
  PROVE  Finished(d) = Ended(p)
<1>1. Len(p) \in Nat /\ Longest \in Nat
  BY LenProperties, LongestIs
<1>2. CASE Len(p) <= Longest
  <2>1. d.buffer = p /\ d.overflowed = FALSE
    BY <1>2 DEF Holds
  <2> QED BY <2>1 DEF Finished, Ended, Taken
<1>3. CASE ~ (Len(p) <= Longest)
  <2>1. d.overflowed = TRUE
    BY <1>3 DEF Holds
  <2>2. Len(p) > Longest
    BY <1>1, <1>3
  <2>3. p # <<>>
    <3>1. p = <<>> => Len(p) = 0
      BY EmptySeq
    <3> QED BY <1>1, <1>3, <3>1
  <2>4. Taken(p) = Error("oversize")
    BY <2>2, TakenIs DEF Longest
  <2> QED BY <2>1, <2>3, <2>4 DEF Finished, Ended
<1> QED BY <1>2, <1>3

-----------------------------------------------------------------------------
(* A listener that takes the bytes one by one and has room for any number:  *)
(* what a decoder is to be, however its bytes are split.                    *)

Listeners == [pending : Seq(Octet), said : Seq(Events)]

Listen(s, b) ==
  IF b = 0 THEN [pending |-> <<>>, said |-> s.said \o Ended(s.pending)]
  ELSE [pending |-> Append(s.pending, b), said |-> s.said]

Ideal == INSTANCE FoldFacts WITH Op <- Listen

\* What was said stays said.
GoesOn(s, t) == t \in Listeners /\ \E u \in Seq(Events) : t.said = s.said \o u

LEMMA EndedIs ==
  ASSUME NEW p \in Seq(Octet)
  PROVE  Ended(p) \in Seq(Events)
<1>1. Taken(p) \in Events
  BY TakenIs
<1> QED BY <1>1, EmptySeq DEF Ended

LEMMA GoingOn ==
  ASSUME NEW s \in Listeners, NEW t, GoesOn(s, t), NEW b \in Octet
  PROVE  GoesOn(s, Listen(t, b))
<1>1. s.said \in Seq(Events) /\ t \in Listeners /\ t.said \in Seq(Events) /\ t.pending \in Seq(Octet)
  BY DEF Listeners, GoesOn
<1>2. PICK u \in Seq(Events) : t.said = s.said \o u
  BY DEF GoesOn
<1>3. CASE b = 0
  <2> DEFINE v == Ended(t.pending)
  <2>1. Listen(t, b) = [pending |-> <<>>, said |-> t.said \o v]
    BY <1>3 DEF Listen
  <2>2. v \in Seq(Events)
    BY <1>1, EndedIs
  <2> HIDE DEF v
  <2>3. t.said \o v \in Seq(Events) /\ u \o v \in Seq(Events)
    BY <1>1, <2>2, ConcatProperties
  <2>4. t.said \o v = s.said \o (u \o v)
    <3> DEFINE a == s.said
    <3>1. a \in Seq(Events) /\ t.said = a \o u
      BY <1>1, <1>2
    <3> HIDE DEF a
    <3>2. (a \o u) \o v = a \o (u \o v)
      BY <2>2, <3>1, ConcatAssociative
    <3> QED BY <3>1, <3>2 DEF a
  <2>5. Listen(t, b) \in Listeners /\ Listen(t, b).said = t.said \o v
    BY <2>1, <2>3, EmptySeq DEF Listeners
  <2> QED BY <2>3, <2>4, <2>5 DEF GoesOn
<1>4. CASE b # 0
  <2>1. Listen(t, b) = [pending |-> Append(t.pending, b), said |-> t.said]
    BY <1>4 DEF Listen
  <2>2. Append(t.pending, b) \in Seq(Octet)
    BY <1>1, AppendProperties
  <2>3. Listen(t, b) \in Listeners /\ Listen(t, b).said = t.said
    BY <1>1, <2>1, <2>2 DEF Listeners
  <2> QED BY <1>2, <2>3 DEF GoesOn
<1> QED BY <1>3, <1>4

LEMMA GoesOnToTheEnd ==
  ASSUME NEW s \in Listeners, NEW bytes \in Seq(Octet)
  PROVE  GoesOn(s, Ideal!Fold(s, bytes))
<1> DEFINE l == Len(bytes)
<1>1. PICK g : Ideal!Steps(g, s, bytes) /\ Ideal!Fold(s, bytes) = g[l]
  BY Ideal!FoldSteps
<1>2. g[0] = s /\ \A k \in 1..l : g[k] = Listen(g[k - 1], bytes[k])
  BY <1>1 DEF Ideal!Steps
<1>3. l \in Nat /\ \A k \in 1..l : bytes[k] \in Octet
  BY LenProperties, ElementOfSeq
<1> HIDE DEF l
<1> DEFINE N == {k \in 0..l : ~ GoesOn(s, g[k])}
<1>4. N = {}
  <2> SUFFICES ASSUME N # {} PROVE FALSE
    OBVIOUS
  <2>0. N \subseteq Nat
    OBVIOUS
  <2> HIDE DEF N
  <2>1. PICK m \in N : \A k \in N : m <= k
    BY <2>0, LeastNumber
  <2> USE DEF N
  <2>2. CASE m = 0
    <3>1. s.said = s.said \o <<>> /\ <<>> \in Seq(Events)
      <4>1. s.said \in Seq(Events)
        BY DEF Listeners
      <4> QED BY <4>1, ConcatEmptySeq, EmptySeq
    <3>2. GoesOn(s, s)
      BY <3>1 DEF GoesOn
    <3> QED BY <1>2, <2>1, <2>2, <3>2
  <2>3. CASE m # 0
    <3>1. m \in 1..l /\ m - 1 \in 0..l /\ ~ (m <= m - 1)
      BY <1>3, <2>1, <2>3
    <3>2. GoesOn(s, g[m - 1]) /\ bytes[m] \in Octet
      BY <1>3, <2>1, <3>1
    <3>3. GoesOn(s, g[m])
      BY <1>2, <3>1, <3>2, GoingOn
    <3> QED BY <2>1, <3>3
  <2> QED BY <2>2, <2>3
<1>5. l \in 0..l
  BY <1>3
<1> QED BY <1>1, <1>4, <1>5

\* Without a zero nothing is said.
LEMMA PendingGrows ==
  ASSUME NEW s \in Listeners, NEW bytes \in Seq(1..Block)
  PROVE  Ideal!Fold(s, bytes) = [pending |-> s.pending \o bytes, said |-> s.said]
<1> DEFINE l == Len(bytes)
           At(k) == [pending |-> s.pending \o SubSeq(bytes, 1, k), said |-> s.said]
           h == [k \in 0..l |-> At(k)]
<1>1. l \in Nat /\ bytes \in Seq(Octet) /\ \A k \in 1..l : bytes[k] \in 1..Block
  <2>1. 1..Block \subseteq Octet
    BY BoundsAssumption DEF Octet
  <2> QED BY <2>1, LenProperties, ElementOfSeq, SeqMonotonic
<1>2. s.pending \in Seq(Octet) /\ s = [pending |-> s.pending, said |-> s.said]
  BY DEF Listeners
<1>3. h[0] = s
  <2>1. 0 \in 0..l /\ SubSeq(bytes, 1, 0) = <<>>
    BY <1>1, SubSeqEmpty
  <2>2. s.pending \o <<>> = s.pending
    BY <1>2, ConcatEmptySeq
  <2> HIDE DEF l
  <2> QED BY <1>2, <2>1, <2>2
<1>4. ASSUME NEW k \in 1..l
      PROVE  h[k] = Listen(h[k - 1], bytes[k])
  <2> DEFINE before == SubSeq(bytes, 1, k - 1)
             after == SubSeq(bytes, 1, k)
             b == bytes[k]
  <2>1. k \in 0..l /\ k - 1 \in 0..l
    BY <1>1
  <2>2. before \in Seq(Octet) /\ b \in Octet /\ after = Append(before, b)
    BY <1>1, PrefixGrows
  <2>3. b # 0
    BY <1>1, BoundsAssumption
  <2>4. h[k] = [pending |-> s.pending \o after, said |-> s.said] /\ h[k - 1] = [pending |-> s.pending \o before, said |-> s.said]
    BY <2>1
  <2> HIDE DEF before, after, b, h, l
  <2>5. s.pending \o after = Append(s.pending \o before, b)
    <3>1. s.pending \o Append(before, b) = Append(s.pending \o before, b)
      BY <1>2, <2>2, ConcatAppend
    <3> QED BY <2>2, <3>1
  <2>6. Listen(h[k - 1], b) = [pending |-> Append(s.pending \o before, b), said |-> s.said]
    BY <2>3, <2>4 DEF Listen
  <2> QED BY <2>4, <2>5, <2>6 DEF b
<1>5. h[l] = [pending |-> s.pending \o bytes, said |-> s.said]
  <2>1. l \in 0..l
    BY <1>1
  <2>2. SubSeq(bytes, 1, l) = bytes
    BY <1>1, SubSeqFull
  <2> HIDE DEF l
  <2> QED BY <2>1, <2>2
<1> HIDE DEF h
<1>6. Ideal!Steps(h, s, bytes)
  BY <1>3, <1>4 DEF Ideal!Steps
<1> QED BY <1>1, <1>5, <1>6, Ideal!StepsEnd

\* The decoder and the listener hear the same.
Readers == [dec : Buffers, heard : Seq(Events), part : Seq(Octet)]

Same(e, a) ==
  /\ e \in Readers /\ a \in Listeners /\ a.said = e.heard
  /\ \E q \in Seq(Octet) : Holds(e.dec, q) /\ a.pending = q \o e.part

LEMMA SameStays ==
  ASSUME NEW e, NEW a, Same(e, a), NEW b \in Octet
  PROVE  Same(ReadByte(e, b), Listen(a, b))
<1>1. /\ e \in Readers /\ a \in Listeners /\ a.said = e.heard
      /\ e.part \in Seq(Octet) /\ e.heard \in Seq(Events) /\ e.dec \in Buffers /\ a.pending \in Seq(Octet)
  BY DEF Same, Readers, Listeners
<1>2. PICK q \in Seq(Octet) : Holds(e.dec, q) /\ a.pending = q \o e.part
  BY DEF Same
<1>3. CASE b = 0
  <2> DEFINE v == Ended(a.pending)
  <2>1. Holds(Appended(e.dec, e.part), a.pending)
    BY <1>1, <1>2, AppendedHolds
  <2>2. Finished(Appended(e.dec, e.part)) = v
    BY <1>1, <2>1, FinishedIs
  <2>3. ReadByte(e, b) = [dec |-> NewDecoder, heard |-> e.heard \o v, part |-> <<>>]
    BY <1>3, <2>2 DEF ReadByte
  <2>4. Listen(a, b) = [pending |-> <<>>, said |-> e.heard \o v]
    BY <1>1, <1>3 DEF Listen
  <2>5. v \in Seq(Events)
    BY <1>1, EndedIs
  <2> HIDE DEF v
  <2>6. e.heard \o v \in Seq(Events)
    BY <1>1, <2>5, ConcatProperties
  <2>7. Holds(NewDecoder, <<>>) /\ NewDecoder \in Buffers /\ <<>> \in Seq(Octet) /\ <<>> \o <<>> = <<>>
    BY NewHoldsNothing, EmptySeq DEF Holds
  <2>8. ReadByte(e, b) \in Readers /\ Listen(a, b) \in Listeners
    BY <2>3, <2>4, <2>6, <2>7, EmptySeq DEF Readers, Listeners
  <2>9. /\ ReadByte(e, b).dec = NewDecoder /\ ReadByte(e, b).part = <<>> /\ Listen(a, b).pending = <<>>
        /\ ReadByte(e, b).heard = Listen(a, b).said
    BY <2>3, <2>4
  <2> QED BY <2>7, <2>8, <2>9 DEF Same
<1>4. CASE b # 0
  <2>1. ReadByte(e, b) = [e EXCEPT !.part = Append(e.part, b)]
    BY <1>4 DEF ReadByte
  <2>2. Append(e.part, b) \in Seq(Octet) /\ Append(a.pending, b) \in Seq(Octet)
    BY <1>1, AppendProperties
  <2>3. /\ ReadByte(e, b) \in Readers
        /\ ReadByte(e, b).part = Append(e.part, b) /\ ReadByte(e, b).dec = e.dec /\ ReadByte(e, b).heard = e.heard
    BY <1>1, <2>1, <2>2 DEF Readers
  <2>4. Listen(a, b) = [pending |-> Append(a.pending, b), said |-> a.said]
    BY <1>4 DEF Listen
  <2>5. Listen(a, b) \in Listeners /\ Listen(a, b).pending = Append(a.pending, b) /\ Listen(a, b).said = a.said
    BY <1>1, <2>2, <2>4 DEF Listeners
  <2>6. Append(a.pending, b) = q \o Append(e.part, b)
    <3> DEFINE r == e.part
    <3>1. r \in Seq(Octet) /\ a.pending = q \o r
      BY <1>1, <1>2
    <3> HIDE DEF r
    <3>2. q \o Append(r, b) = Append(q \o r, b)
      BY <3>1, ConcatAppend
    <3> QED BY <3>1, <3>2 DEF r
  <2> QED BY <1>1, <1>2, <2>3, <2>5, <2>6 DEF Same
<1> QED BY <1>3, <1>4

LEMMA SplitHowever ==
  ASSUME NEW e, NEW a, Same(e, a), NEW bytes \in Seq(Octet)
  PROVE  Same(Got!Fold(e, bytes), Ideal!Fold(a, bytes))
<1> DEFINE l == Len(bytes)
<1>1. PICK g : Got!Steps(g, e, bytes) /\ Got!Fold(e, bytes) = g[l]
  BY Got!FoldSteps
<1>2. PICK h : Ideal!Steps(h, a, bytes) /\ Ideal!Fold(a, bytes) = h[l]
  BY Ideal!FoldSteps
<1>3. /\ g[0] = e /\ \A k \in 1..l : g[k] = ReadByte(g[k - 1], bytes[k])
      /\ h[0] = a /\ \A k \in 1..l : h[k] = Listen(h[k - 1], bytes[k])
  BY <1>1, <1>2 DEF Got!Steps, Ideal!Steps
<1>4. l \in Nat /\ \A k \in 1..l : bytes[k] \in Octet
  BY LenProperties, ElementOfSeq
<1> HIDE DEF l
<1> DEFINE N == {k \in 0..l : ~ Same(g[k], h[k])}
<1>5. N = {}
  <2> SUFFICES ASSUME N # {} PROVE FALSE
    OBVIOUS
  <2>0. N \subseteq Nat
    OBVIOUS
  <2> HIDE DEF N
  <2>1. PICK m \in N : \A k \in N : m <= k
    BY <2>0, LeastNumber
  <2> USE DEF N
  <2>2. CASE m = 0
    BY <1>3, <2>1, <2>2
  <2>3. CASE m # 0
    <3>1. m \in 1..l /\ m - 1 \in 0..l /\ ~ (m <= m - 1)
      BY <1>4, <2>1, <2>3
    <3>2. Same(g[m - 1], h[m - 1]) /\ bytes[m] \in Octet
      BY <1>4, <2>1, <3>1
    <3>3. Same(g[m], h[m])
      BY <1>3, <3>1, <3>2, SameStays
    <3> QED BY <2>1, <3>3
  <2> QED BY <2>2, <2>3
<1>6. l \in 0..l
  BY <1>4
<1> QED BY <1>1, <1>2, <1>5, <1>6

-----------------------------------------------------------------------------
(* The line: whatever the reads, what the decoder holds with what is still  *)
(* on the line says what is due and leaves the tail.                        *)

\* For what was put into the decoder since the last delimiter, a listener that goes on over the bytes
\* still on the line ends with what is due, and with the tail.
HearInv ==
  /\ line \in Seq(Octet) /\ tail \in Seq(Octet) /\ sends \in 0..MaxSends
  /\ heard \in Seq(Events) /\ due \in Seq(Events)
  /\ \E p \in Seq(Octet) :
       Holds(dec, p) /\ Ideal!Fold([pending |-> p, said |-> heard], line) = [pending |-> tail, said |-> due]

LEMMA NoZero ==
  ASSUME NEW s \in Seq(1..Block)
  PROVE  s \in Seq(Octet)
<1>1. 1..Block \subseteq Octet
  BY BoundsAssumption DEF Octet
<1> QED BY <1>1, SeqMonotonic

LEMMA ZeroIs == <<0>> \in Seq(Octet)
<1>1. 0 \in Octet
  BY BoundsAssumption DEF Octet
<1> QED BY <1>1

LEMMA HearInvInit ==
  ASSUME LineInit
  PROVE  HearInv
<1>1. /\ line = <<>> /\ dec = NewDecoder /\ heard = <<>> /\ tail = <<>> /\ due = <<>> /\ sends = 0
  BY DEF LineInit
<1>2. <<>> \in Seq(Octet) /\ <<>> \in Seq(Events) /\ 0 \in 0..MaxSends
  BY EmptySeq, BoundsAssumption
<1>3. Ideal!Fold([pending |-> <<>>, said |-> <<>>], <<>>) = [pending |-> <<>>, said |-> <<>>]
  BY Ideal!FoldNothing
<1> QED BY <1>1, <1>2, <1>3, NewHoldsNothing DEF HearInv

\* What is put on the line behind the rest of it, with and without a zero.
LEMMA PutBehind ==
  ASSUME NEW s \in Listeners, NEW l \in Seq(Octet), NEW a \in Listeners, Ideal!Fold(s, l) = a,
         NEW bytes \in Seq(1..Block)
  PROVE  /\ Ideal!Fold(s, l \o bytes) = [pending |-> a.pending \o bytes, said |-> a.said]
         /\ Ideal!Fold(s, (l \o bytes) \o <<0>>) = [pending |-> <<>>, said |-> a.said \o Ended(a.pending \o bytes)]
<1> DEFINE z == <<0>>
           lb == l \o bytes
           p == a.pending
           d == a.said
           pb == p \o bytes
<1>2. bytes \in Seq(Octet) /\ z \in Seq(Octet)
  BY NoZero, ZeroIs
<1>3. lb \in Seq(Octet)
  BY <1>2, ConcatProperties
<1>4. Ideal!Fold(s, lb) = Ideal!Fold(a, bytes)
  BY <1>2, Ideal!FoldConcat
<1>5. Ideal!Fold(a, bytes) = [pending |-> pb, said |-> d]
  BY PendingGrows
<1>6. Listen([pending |-> pb, said |-> d], 0) = [pending |-> <<>>, said |-> d \o Ended(pb)]
  BY DEF Listen
<1>7. \A x : Ideal!Fold(x, z) = Listen(x, 0)
  BY Ideal!FoldOne
<1> HIDE DEF lb, pb, z
<1>8. Ideal!Fold(s, lb \o z) = Ideal!Fold(Ideal!Fold(s, lb), z)
  BY <1>2, <1>3, Ideal!FoldConcat
<1>9. Ideal!Fold(s, lb \o z) = [pending |-> <<>>, said |-> d \o Ended(pb)]
  BY <1>4, <1>5, <1>6, <1>7, <1>8
<1> QED BY <1>4, <1>5, <1>9 DEF lb, pb, z

\* The line as a history found it.
LEMMA LineIs ==
  ASSUME HearInv
  PROVE  \E p \in Seq(Octet) :
           /\ Holds(dec, p) /\ [pending |-> p, said |-> heard] \in Listeners
           /\ Ideal!Fold([pending |-> p, said |-> heard], line) = [pending |-> tail, said |-> due]
<1>1. PICK p \in Seq(Octet) : Holds(dec, p) /\ Ideal!Fold([pending |-> p, said |-> heard], line) = [pending |-> tail, said |-> due]
  BY DEF HearInv
<1>2. [pending |-> p, said |-> heard] \in Listeners
  BY DEF HearInv, Listeners
<1> QED BY <1>1, <1>2

LEMMA SendKeeps ==
  ASSUME HearInv, NEW type, NEW payload \in Payloads, SendFrame(type, payload)
  PROVE  HearInv'
<1> DEFINE e == encodeFrame([type |-> type, payload |-> payload])
           new == IF tail = <<>> THEN Frame(type, payload) ELSE Taken(tail \o e)
<1>1. /\ sends < MaxSends /\ Encodable(type, payload)
      /\ line' = (line \o e) \o <<0>> /\ due' = Append(due, new) /\ tail' = <<>> /\ sends' = sends + 1
      /\ dec' = dec /\ heard' = heard
  BY DEF SendFrame, Taken
<1>2. e \in Seq(1..Block) /\ e # <<>> /\ Taken(e) = Frame(type, payload) /\ Frame(type, payload) \in Events
  BY <1>1, MessageIsUndone
<1> HIDE DEF e
<1>3. e \in Seq(Octet) /\ <<0>> \in Seq(Octet)
  BY <1>2, NoZero, ZeroIs
<1>4. line \in Seq(Octet) /\ tail \in Seq(Octet) /\ due \in Seq(Events) /\ heard \in Seq(Events) /\ sends \in 0..MaxSends
  BY DEF HearInv
<1>5. PICK p \in Seq(Octet) :
        /\ Holds(dec, p) /\ [pending |-> p, said |-> heard] \in Listeners
        /\ Ideal!Fold([pending |-> p, said |-> heard], line) = [pending |-> tail, said |-> due]
  BY LineIs
<1>6. Ideal!Fold([pending |-> p, said |-> heard], (line \o e) \o <<0>>) = [pending |-> <<>>, said |-> due \o Ended(tail \o e)]
  <2> DEFINE s == [pending |-> p, said |-> heard]
             t == [pending |-> tail, said |-> due]
  <2>1. s \in Listeners /\ t \in Listeners /\ Ideal!Fold(s, line) = t /\ t.pending = tail /\ t.said = due
    BY <1>4, <1>5 DEF Listeners
  <2> HIDE DEF s, t, new
  <2>2. Ideal!Fold(s, (line \o e) \o <<0>>) = [pending |-> <<>>, said |-> due \o Ended(tail \o e)]
    BY <1>2, <1>4, <2>1, PutBehind
  <2> QED BY <2>2 DEF s
<1>7. tail \o e \in Seq(Octet) /\ tail \o e # <<>>
  <2>1. tail \o e \in Seq(Octet) /\ Len(tail \o e) = Len(tail) + Len(e)
    BY <1>3, <1>4, ConcatProperties
  <2>2. Len(tail) \in Nat /\ Len(e) \in Nat /\ Len(e) # 0
    BY <1>2, <1>3, <1>4, LenProperties, EmptySeq
  <2>3. Len(tail \o e) # 0
    <3> DEFINE t == tail \o e
    <3>1. Len(t) = Len(tail) + Len(e)
      BY <2>1
    <3> HIDE DEF t
    <3>2. Len(t) # 0
      BY <2>2, <3>1
    <3> QED BY <3>2 DEF t
  <2> QED BY <2>1, <2>3, EmptySeq
<1>8. Ended(tail \o e) = <<new>> /\ new \in Events
  <2>1. Ended(tail \o e) = <<Taken(tail \o e)>> /\ Taken(tail \o e) \in Events
    BY <1>7, TakenIs DEF Ended
  <2>2. CASE tail = <<>>
    <3>1. tail \o e = e
      BY <1>3, <2>2, ConcatEmptySeq
    <3>2. new = Frame(type, payload)
      BY <2>2
    <3> HIDE DEF new
    <3> QED BY <1>2, <2>1, <3>1, <3>2
  <2>3. CASE tail # <<>>
    BY <2>1, <2>3
  <2> QED BY <2>2, <2>3
<1> HIDE DEF new
<1>9. due' = due \o Ended(tail \o e) /\ due' \in Seq(Events)
  BY <1>1, <1>4, <1>8, AppendIsConcat, AppendProperties
<1>10. line' \in Seq(Octet)
  <2> DEFINE z == <<0>>
             le == line \o e
  <2>1. le \in Seq(Octet) /\ z \in Seq(Octet)
    BY <1>3, <1>4, ConcatProperties
  <2>2. line' = le \o z
    BY <1>1
  <2> HIDE DEF z, le
  <2> QED BY <2>1, <2>2, ConcatProperties
<1>11. tail' \in Seq(Octet) /\ sends' \in 0..MaxSends
  BY <1>1, <1>4, EmptySeq, BoundsAssumption
<1>12. Ideal!Fold([pending |-> p, said |-> heard'], line') = [pending |-> tail', said |-> due']
  BY <1>1, <1>6, <1>9
<1>13. heard' \in Seq(Events) /\ Holds(dec', p)
  BY <1>1, <1>4, <1>5
<1> QED BY <1>9, <1>10, <1>11, <1>12, <1>13 DEF HearInv

LEMMA NoisesAreBytes ==
  ASSUME NEW bytes \in Noises
  PROVE  bytes \in Seq(1..Block)
<1>0. 1 \in 1..Block /\ Block \in 1..Block
  BY BoundsAssumption
<1>1. <<1>> \in Seq(1..Block) /\ <<Block>> \in Seq(1..Block) /\ <<1, 1, 1, 1, 1, 1, 1, 1, 1>> \in Seq(1..Block)
  BY <1>0
<1>2. ASSUME NEW k \in 1..5, bytes = SubSeq(encodeFrame(Frame(DATA, <<2, 0>>)), 1, k)
      PROVE  bytes \in Seq(1..Block)
  <2> DEFINE p == <<2, 0>>
             f == Frame(DATA, p)
             e == encodeFrame(f)
  <2>1. f.type \in Octet /\ f.payload = p /\ p \in Seq(Octet) /\ Len(p) = 2
    <3>1. 2 \in Octet /\ 0 \in Octet
      BY BoundsAssumption DEF Octet
    <3> QED BY <3>1 DEF Frame, DATA
  <2> HIDE DEF f, p
  <2>2. e \in Seq(1..Block) /\ Len(e) >= Len(p) + 4
    BY <2>1, FrameIsEncoded
  <2> HIDE DEF e
  <2>3. Len(e) \in Nat /\ k <= Len(e) /\ k \in Nat
    BY <2>1, <2>2, LenProperties
  <2>4. ASSUME NEW i \in 1..k
        PROVE  e[i] \in 1..Block
    <3>1. i \in 1..Len(e)
      BY <2>3
    <3> QED BY <2>2, <3>1, ElementOfSeq
  <2>5. SubSeq(e, 1, k) \in Seq(1..Block)
    BY <2>2, <2>3, <2>4, SubSeqProperties
  <2> QED BY <1>2, <2>5 DEF e, f, p
<1> QED BY <1>1, <1>2 DEF Noises

LEMMA NoiseKeeps ==
  ASSUME HearInv, NEW bytes \in Noises, Noise(bytes)
  PROVE  HearInv'
<1>1. /\ sends < MaxSends /\ line' = line \o bytes /\ tail' = tail \o bytes /\ sends' = sends + 1
      /\ dec' = dec /\ heard' = heard /\ due' = due
  BY DEF Noise
<1>2. bytes \in Seq(1..Block) /\ bytes \in Seq(Octet)
  BY NoisesAreBytes, NoZero
<1>3. line \in Seq(Octet) /\ tail \in Seq(Octet) /\ due \in Seq(Events) /\ heard \in Seq(Events) /\ sends \in 0..MaxSends
  BY DEF HearInv
<1>4. PICK p \in Seq(Octet) :
        /\ Holds(dec, p) /\ [pending |-> p, said |-> heard] \in Listeners
        /\ Ideal!Fold([pending |-> p, said |-> heard], line) = [pending |-> tail, said |-> due]
  BY LineIs
<1>5. Ideal!Fold([pending |-> p, said |-> heard], line \o bytes) = [pending |-> tail \o bytes, said |-> due]
  <2> DEFINE s == [pending |-> p, said |-> heard]
             t == [pending |-> tail, said |-> due]
  <2>1. s \in Listeners /\ t \in Listeners /\ Ideal!Fold(s, line) = t /\ t.pending = tail /\ t.said = due
    BY <1>3, <1>4 DEF Listeners
  <2> HIDE DEF s, t
  <2>2. Ideal!Fold(s, line \o bytes) = [pending |-> t.pending \o bytes, said |-> t.said]
    <3>1. line \in Seq(Octet) /\ bytes \in Seq(1..Block)
      BY <1>2, <1>3
    <3>2. s \in Listeners /\ t \in Listeners /\ Ideal!Fold(s, line) = t
      BY <2>1
    <3> QED BY <3>1, <3>2, PutBehind
  <2> QED BY <2>1, <2>2 DEF s
<1>6. line' \in Seq(Octet) /\ tail' \in Seq(Octet) /\ sends' \in 0..MaxSends
  BY <1>1, <1>2, <1>3, ConcatProperties, BoundsAssumption
<1>7. Ideal!Fold([pending |-> p, said |-> heard'], line') = [pending |-> tail', said |-> due'] /\ Holds(dec', p)
  BY <1>1, <1>4, <1>5
<1> QED BY <1>1, <1>3, <1>6, <1>7 DEF HearInv

LEMMA DelimiterKeeps ==
  ASSUME HearInv, Delimiter
  PROVE  HearInv'
<1>1. /\ tail # <<>> /\ line' = Append(line, 0) /\ due' = Append(due, Taken(tail)) /\ tail' = <<>>
      /\ dec' = dec /\ heard' = heard /\ sends' = sends
  BY DEF Delimiter, Taken
<1>2. line \in Seq(Octet) /\ tail \in Seq(Octet) /\ due \in Seq(Events) /\ heard \in Seq(Events) /\ sends \in 0..MaxSends
  BY DEF HearInv
<1>3. 0 \in Octet /\ Taken(tail) \in Events /\ Ended(tail) = <<Taken(tail)>>
  BY <1>1, <1>2, TakenIs, BoundsAssumption DEF Octet, Ended
<1>4. PICK p \in Seq(Octet) :
        /\ Holds(dec, p) /\ [pending |-> p, said |-> heard] \in Listeners
        /\ Ideal!Fold([pending |-> p, said |-> heard], line) = [pending |-> tail, said |-> due]
  BY LineIs
<1>5. Ideal!Fold([pending |-> p, said |-> heard], Append(line, 0)) = Listen([pending |-> tail, said |-> due], 0)
  BY <1>2, <1>3, <1>4, Ideal!FoldAppend
<1>6. Listen([pending |-> tail, said |-> due], 0) = [pending |-> <<>>, said |-> due \o Ended(tail)]
  BY DEF Listen
<1>7. due' = due \o Ended(tail) /\ due' \in Seq(Events)
  BY <1>1, <1>2, <1>3, AppendIsConcat, AppendProperties
<1>8. line' \in Seq(Octet) /\ tail' \in Seq(Octet)
  BY <1>1, <1>2, <1>3, AppendProperties, EmptySeq
<1>9. Ideal!Fold([pending |-> p, said |-> heard'], line') = [pending |-> tail', said |-> due'] /\ Holds(dec', p)
  BY <1>1, <1>4, <1>5, <1>6, <1>7
<1> QED BY <1>1, <1>2, <1>7, <1>8, <1>9 DEF HearInv

LEMMA ResetKeeps ==
  ASSUME HearInv, Reset
  PROVE  HearInv'
<1>1. line' = <<>> /\ dec' = NewDecoder /\ tail' = <<>> /\ due' = heard /\ heard' = heard /\ sends' = sends
  BY DEF Reset
<1>2. heard \in Seq(Events) /\ sends \in 0..MaxSends /\ <<>> \in Seq(Octet)
  BY EmptySeq DEF HearInv
<1>3. Ideal!Fold([pending |-> <<>>, said |-> heard], <<>>) = [pending |-> <<>>, said |-> heard]
  BY Ideal!FoldNothing
<1>4. Ideal!Fold([pending |-> <<>>, said |-> heard'], line') = [pending |-> tail', said |-> due'] /\ Holds(dec', <<>>)
  BY <1>1, <1>3, NewHoldsNothing
<1> QED BY <1>1, <1>2, <1>4 DEF HearInv

LEMMA PushKeeps ==
  ASSUME HearInv, NEW count \in 1..Len(line), Push(count)
  PROVE  HearInv'
<1> DEFINE bytes == SubSeq(line, 1, count)
           rest == SubSeq(line, count + 1, Len(line))
           e == [dec |-> dec, heard |-> heard, part |-> <<>>]
           f == Got!Fold(e, bytes)
<1>1. /\ dec' = Appended(f.dec, f.part) /\ heard' = f.heard /\ line' = rest
      /\ tail' = tail /\ due' = due /\ sends' = sends
  BY FoldsAreTheirSteps DEF Push
<1>2. line \in Seq(Octet) /\ tail \in Seq(Octet) /\ due \in Seq(Events) /\ heard \in Seq(Events) /\ sends \in 0..MaxSends
  BY DEF HearInv
<1>3. PICK p \in Seq(Octet) :
        /\ Holds(dec, p) /\ [pending |-> p, said |-> heard] \in Listeners
        /\ Ideal!Fold([pending |-> p, said |-> heard], line) = [pending |-> tail, said |-> due]
  BY LineIs
<1> DEFINE a == [pending |-> p, said |-> heard]
           b == Ideal!Fold(a, bytes)
<1>4. bytes \in Seq(Octet) /\ rest \in Seq(Octet) /\ bytes \o rest = line
  <2>1. Len(line) \in Nat /\ count \in Nat /\ count <= Len(line)
    BY <1>2, LenProperties
  <2>2. \A i \in 1..Len(line) : line[i] \in Octet
    BY <1>2, ElementOfSeq
  <2>3. bytes \in Seq(Octet)
    BY <1>2, <2>1, <2>2, SubSeqProperties
  <2>4. rest \in Seq(Octet)
    BY <1>2, <2>1, <2>2, SubSeqProperties
  <2>5. bytes \o rest = line
    BY <1>2, <2>1, ConcatAdjacentSubSeq, SubSeqFull
  <2> QED BY <2>3, <2>4, <2>5
<1>5. Same(e, a)
  <2>1. e \in Readers /\ e.dec = dec /\ e.heard = heard /\ e.part = <<>>
    BY <1>2, <1>3, EmptySeq DEF Readers, Holds
  <2>2. a \in Listeners /\ a.said = heard /\ a.pending = p
    BY <1>3
  <2>3. p = p \o <<>>
    BY ConcatEmptySeq
  <2> HIDE DEF e, a
  <2> QED BY <1>3, <2>1, <2>2, <2>3 DEF Same
<1> HIDE DEF e, a, bytes, rest
<1>6. Same(f, b)
  BY <1>4, <1>5, SplitHowever
<1>7. Ideal!Fold(b, rest) = [pending |-> tail, said |-> due]
  <2>1. Ideal!Fold(a, bytes \o rest) = Ideal!Fold(b, rest)
    <3>1. bytes \in Seq(Octet) /\ rest \in Seq(Octet)
      BY <1>4
    <3>2. \A x : Ideal!Fold(x, bytes \o rest) = Ideal!Fold(Ideal!Fold(x, bytes), rest)
      BY <3>1, Ideal!FoldConcat
    <3> QED BY <3>2
  <2>2. Ideal!Fold(a, line) = [pending |-> tail, said |-> due]
    BY <1>3 DEF a
  <2> QED BY <1>4, <2>1, <2>2
<1> HIDE DEF f, b
<1>8. f \in Readers /\ f.part \in Seq(Octet) /\ f.heard \in Seq(Events) /\ b \in Listeners /\ b.said = f.heard /\ b.pending \in Seq(Octet)
  BY <1>6 DEF Same, Readers, Listeners
<1>9. PICK q \in Seq(Octet) : Holds(f.dec, q) /\ b.pending = q \o f.part
  BY <1>6 DEF Same
<1>10. Holds(Appended(f.dec, f.part), b.pending)
  BY <1>8, <1>9, AppendedHolds
<1>11. b = [pending |-> b.pending, said |-> heard']
  BY <1>1, <1>8 DEF Listeners
<1>12. Holds(dec', b.pending) /\ Ideal!Fold([pending |-> b.pending, said |-> heard'], line') = [pending |-> tail', said |-> due']
  BY <1>1, <1>7, <1>10, <1>11
<1>13. line' \in Seq(Octet) /\ tail' \in Seq(Octet) /\ sends' \in 0..MaxSends /\ heard' \in Seq(Events) /\ due' \in Seq(Events)
  BY <1>1, <1>2, <1>4, <1>8
<1> QED BY <1>8, <1>12, <1>13 DEF HearInv

LEMMA HearInvNext ==
  ASSUME HearInv, [LineNext]_lineVars
  PROVE  HearInv'
<1>1. CASE \E type \in TYPES, payload \in Payloads : SendFrame(type, payload)
  BY <1>1, SendKeeps
<1>2. CASE \E bytes \in Noises : Noise(bytes)
  BY <1>2, NoiseKeeps
<1>3. CASE Delimiter
  BY <1>3, DelimiterKeeps
<1>4. CASE Reset
  BY <1>4, ResetKeeps
<1>5. CASE \E count \in 1..Len(line) : Push(count)
  BY <1>5, PushKeeps
<1>6. CASE UNCHANGED lineVars
  BY <1>6 DEF lineVars, HearInv
<1> QED BY <1>1, <1>2, <1>3, <1>4, <1>5, <1>6 DEF LineNext

\* The decoder always holds what the reads left of the line, and the line still says what is due.
THEOREM HearInvariance == LineSpec => []HearInv
<1>1. LineInit => HearInv
  BY HearInvInit
<1>2. HearInv /\ [LineNext]_lineVars => HearInv'
  BY HearInvNext
<1> QED BY <1>1, <1>2, PTL DEF LineSpec

\* Whatever is sent behind a delimiter is heard as it was sent, in order and once, however the
\* bytes are split into reads and whatever noise and cut frames come between: encodeMessage(),
\* FrameDecoder and decodeMessage() of vm_protocol.js, for blocks, payloads and histories of any length.
THEOREM MessagesAlwaysArrive == LineSpec => []MessagesArrive
<1>1. HearInv => LineTypeOK
  <2> SUFFICES ASSUME HearInv PROVE LineTypeOK
    OBVIOUS
  <2>1. PICK p \in Seq(Octet) : Holds(dec, p)
    BY DEF HearInv
  <2>2. dec.buffer \in Seq(Octet) /\ dec.overflowed \in BOOLEAN /\ Len(dec.buffer) <= maxEncodedLength(MaxPayload)
    BY <2>1 DEF Holds, Buffers, Longest
  <2>3. ASSUME NEW s \in Seq(Events), NEW x \in ToSet(s)
        PROVE  x.payload \in Payloads
    <3>1. PICK i \in DOMAIN s : x = s[i]
      BY <2>3 DEF ToSet
    <3>2. x \in Events
      BY <3>1, LenProperties, ElementOfSeq
    <3> QED BY <3>2 DEF Events
  <2> QED BY <2>2, <2>3 DEF HearInv, LineTypeOK
<1>2. HearInv => HeardIsDue
  <2> SUFFICES ASSUME HearInv PROVE HeardIsDue
    OBVIOUS
  <2>1. heard \in Seq(Events) /\ due \in Seq(Events) /\ line \in Seq(Octet)
    BY DEF HearInv
  <2>2. PICK p \in Seq(Octet) :
          /\ Holds(dec, p) /\ [pending |-> p, said |-> heard] \in Listeners
          /\ Ideal!Fold([pending |-> p, said |-> heard], line) = [pending |-> tail, said |-> due]
    BY LineIs
  <2> DEFINE s == [pending |-> p, said |-> heard]
             t == [pending |-> tail, said |-> due]
  <2>3. s \in Listeners /\ s.said = heard /\ t.said = due /\ Ideal!Fold(s, line) = t
    BY <2>2
  <2> HIDE DEF s, t
  <2>4. GoesOn(s, t)
    BY <2>1, <2>3, GoesOnToTheEnd
  <2>5. PICK u \in Seq(Events) : due = heard \o u
    BY <2>3, <2>4 DEF GoesOn
  <2>6. IsPrefix(heard, due)
    <3>1. Len(due) = Len(heard) + Len(u) /\ Len(heard) \in Nat /\ Len(u) \in Nat
      BY <2>1, <2>5, ConcatProperties, LenProperties
    <3>2. Len(heard) <= Len(due)
      BY <3>1
    <3>3. SubSeq(due, 1, Len(heard)) = heard
      BY <2>1, <2>5, SubSeqOfConcat1, SubSeqFull
    <3>4. SubSeq(heard, 1, Len(heard)) = heard
      BY <2>1, SubSeqFull
    <3> QED BY <3>2, <3>3, <3>4 DEF IsPrefix
  <2>7. ASSUME line = <<>>
        PROVE  heard = due
    <3>1. Ideal!Fold(s, <<>>) = s
      BY Ideal!FoldNothing
    <3> QED BY <2>3, <2>7, <3>1
  <2> QED BY <2>6, <2>7 DEF HeardIsDue
<1>3. HearInv => MessagesArrive
  BY <1>1, <1>2 DEF MessagesArrive
<1> QED BY <1>3, HearInvariance, PTL

=============================================================================
