----------------------------- MODULE DiskProofs -----------------------------
(***************************************************************************)
(* The programs of DiskPrograms.  At any depth of nested handlers, who       *)
(* holds prq_mutex cannot be interrupted and the service routine finds an   *)
(* entry for each read.  When handlers are not nested, the sums are those   *)
(* of the blocks in the order of the disk, hunts end where the trail ends,  *)
(* and no wake-up is lost.                                                  *)
(***************************************************************************)
EXTENDS DiskPrograms, ProofLemmas, SequenceTheorems

\* The threads of tRead: those that read, one for each block, main and the one that yields.
ReadThreads == {reader[k] : k \in 1 .. Len(reader)}
Threads == {"main", "base"} \cup ReadThreads

\* Where handlers are, what they keep, and what the entries of the queue say.
Place == DiskPlace \cup {"dequeue", "callback", "add", "count"}
Entry == {"result", "handleFirstRead", "handleOtherReads"} \cup Threads
Value == Int \cup Entry
Frame == [pc : Place, now : Int, val : Value]
Read == [buf : Buffer, blockNo : Int]

DiskTypes ==
  /\ buf \in [Buffer -> Int] /\ prq \in Seq(Read) /\ clock \in Int /\ taken \in Int
  /\ prq_mutex \in BOOLEAN /\ masked \in BOOLEAN /\ isInterrupt \in BOOLEAN
  /\ frames \in Seq(Frame)

ClientTypes ==
  /\ client \in {"aRead", "sRead", "treasureHunt", "tRead"}
  /\ pending_read_queue \in Seq(Entry)
  /\ sum \in Int /\ counter \in Int /\ blockno \in Int /\ arg \in Int

\* Where a handler runs the interrupt service routine.
Serving == {"isr", "dequeue", "callback", "add", "count", "delivered"}

\* The holder of prq_mutex is the innermost handler.
HolderMasked ==
  prq_mutex => Interrupted /\ frames[Len(frames)].pc = "prq" /\ masked

\* Who has set isInterrupt is the innermost handler, or was interrupted by one that keeps the
\* signal blocked, because isInterrupt is set.
FlagOfServer ==
  isInterrupt =>
    /\ Interrupted
    /\ \/ frames[Len(frames)].pc \in Serving
       \/ masked /\ Len(frames) > 1 /\ frames[Len(frames) - 1].pc \in Serving

HandlerInv == DiskTypes /\ HolderMasked /\ FlagOfServer

(***************************************************************************)
(* The disk                                                                *)
(***************************************************************************)
\* The blocks of the disk hold numbers.
LEMMA StoryNat == ASSUME NEW b \in Int PROVE StoryAt(b) \in Nat
<1>1. story \in Seq(Nat) /\ Len(story) = 30
  BY DEF story
<1>2. 1 + (b % 30) \in 1 .. 30
  OBVIOUS
<1>3. story[1 + (b % 30)] \in Nat
  BY <1>1, <1>2, ElementOfSeq
<1> QED
  BY <1>1, <1>3 DEF StoryAt

\* What Total computes.
LEMMA TotalAdds ==
  /\ Total[0] = 0
  /\ \A n \in Nat : Total[n] \in Int /\ Total[n + 1] = Total[n] + StoryAt(n)
<1> DEFINE step == [n \in Nat |-> [x \in Int |-> x + StoryAt(n)]]
<1>1. step \in [Nat -> [Int -> Int]]
  BY StoryNat
<1>2. PICK F \in [Nat -> Int] : F[0] = 0 /\ \A n \in Nat : F[n + 1] = step[n][F[n]]
  <2> HIDE DEF step
  <2>1. 0 \in Int
    OBVIOUS
  <2>2. Recursive(Int, 0, step) # {}
    BY <1>1, <2>1, Recursion, Zenon
  <2> QED
    BY <2>2 DEF Recursive
<1>3. F = [n \in Nat |-> IF n = 0 THEN 0 ELSE F[n - 1] + StoryAt(n - 1)]
  <2>1. \A n \in Nat : F[n + 1] = F[n] + StoryAt(n)
    BY <1>2
  <2>2. ASSUME NEW n \in Nat, n # 0 PROVE F[n] = F[n - 1] + StoryAt(n - 1)
    <3>1. n - 1 \in Nat /\ (n - 1) + 1 = n
      BY <2>2
    <3> QED
      BY <2>1, <3>1
  <2> HIDE DEF step
  <2> QED
    BY <1>2, <2>2
<1>4. Total = [n \in Nat |-> IF n = 0 THEN 0 ELSE Total[n - 1] + StoryAt(n - 1)]
  BY <1>3 DEF Total
<1>5. Total[0] = 0 /\ \A n \in Nat : Total[n + 1] = Total[n] + StoryAt(n)
  <2> DEFINE f == Total
  <2>1. f = [n \in Nat |-> IF n = 0 THEN 0 ELSE f[n - 1] + StoryAt(n - 1)]
    BY <1>4
  <2> HIDE DEF f
  <2>2. f[0] = 0 /\ \A n \in Nat : f[n + 1] = f[n] + StoryAt(n)
    BY <2>1
  <2> QED
    BY <2>2 DEF f
<1>6. \A n \in Nat : Total[n] \in Int
  <2> DEFINE A == {n \in Nat : Total[n] \in Int}
  <2>1. 0 \in A /\ \A n \in A : n + 1 \in A
    <3> HIDE DEF step
    <3> QED
      BY <1>5, StoryNat
  <2>2. A = Nat
    <3>1. A \subseteq Nat
      OBVIOUS
    <3> HIDE DEF A
    <3> QED
      BY <2>1, <3>1, Induction
  <2> QED
    BY <2>2
<1> QED
  BY <1>5, <1>6

(***************************************************************************)
(* Handlers                                                                *)
(***************************************************************************)
\* What a frame may keep.
LEMMA Values == (\A x \in Int : x \in Value) /\ (\A x \in Entry : x \in Value)
BY Zenon DEF Value

\* Last and Front of the handlers, by index.
LEMMA Innermost ==
  ASSUME frames \in Seq(Frame), Interrupted
  PROVE  /\ Len(frames) \in Nat \ {0} /\ Last(frames) = frames[Len(frames)]
         /\ frames[Len(frames)] \in Frame
         /\ Front(frames) \in Seq(Frame) /\ Len(Front(frames)) = Len(frames) - 1
         /\ \A n \in 1 .. Len(frames) - 1 : Front(frames)[n] = frames[n]
<1>1. Len(frames) \in Nat \ {0}
  BY DEF Interrupted
<1>2. Front(frames) = [n \in 1 .. Len(frames) - 1 |-> frames[n]]
  BY DEF Front
<1> QED
  BY <1>1, <1>2 DEF Last

\* A step of the innermost handler changes only its own frame.
LEMMA Changed ==
  ASSUME frames \in Seq(Frame), Interrupted, NEW frame \in Frame,
         frames' = [frames EXCEPT ![Len(frames)] = frame]
  PROVE  /\ frames' \in Seq(Frame) /\ Len(frames') = Len(frames) /\ Interrupted'
         /\ frames'[Len(frames)] = frame
         /\ \A n \in 1 .. Len(frames) - 1 : frames'[n] = frames[n]
<1>1. Len(frames) \in Nat \ {0}
  BY DEF Interrupted
<1> QED
  BY <1>1 DEF Interrupted

\* GoTo is such a step.
LEMMA Moved ==
  ASSUME frames \in Seq(Frame), Interrupted, NEW where \in Place, GoTo(where)
  PROVE  /\ frames' \in Seq(Frame) /\ Len(frames') = Len(frames) /\ Interrupted'
         /\ frames'[Len(frames)].pc = where
         /\ frames'[Len(frames)].val = frames[Len(frames)].val
         /\ \A n \in 1 .. Len(frames) - 1 : frames'[n] = frames[n]
<1> DEFINE last == Len(frames)
           frame == [frames[last] EXCEPT !.pc = where]
<1>1. last \in Nat \ {0} /\ frames[last] \in Frame
  BY Innermost
<1>2. frame \in Frame /\ frame.pc = where /\ frame.val = frames[last].val
  BY <1>1 DEF Frame
<1>3. frames' = [frames EXCEPT ![last] = frame]
  BY <1>1 DEF GoTo
<1> HIDE DEF frame
<1> QED
  BY <1>2, <1>3, Changed

\* The handlers that are to run the routine for a read that left prq.
Fetching == {"deliver", "isr", "dequeue"}
InFlight(handlers) == {n \in DOMAIN handlers : handlers[n].pc \in Fetching}
OuterInFlight(handlers) == {n \in 1 .. Len(handlers) - 1 : handlers[n].pc \in Fetching}
Underway == Cardinality(InFlight(frames))

\* The innermost handler, and the others.
LEMMA CountSplit ==
  ASSUME NEW Kind, NEW handlers \in Seq(Kind), Len(handlers) > 0
  PROVE  /\ Cardinality(OuterInFlight(handlers)) \in Nat
         /\ Cardinality(InFlight(handlers)) =
              Cardinality(OuterInFlight(handlers))
                + IF handlers[Len(handlers)].pc \in Fetching THEN 1 ELSE 0
<1> DEFINE last == Len(handlers)
           outer == OuterInFlight(handlers)
<1>1. last \in Nat \ {0} /\ DOMAIN handlers = 1 .. last
  OBVIOUS
<1>2. IsFiniteSet(outer) /\ last \notin outer
  <2>1. IsFiniteSet(1 .. last - 1)
    BY <1>1, FS_Interval
  <2>2. outer \in SUBSET (1 .. last - 1)
    BY DEF OuterInFlight
  <2>3. last \notin 1 .. last - 1
    BY <1>1
  <2> HIDE DEF outer
  <2> QED
    BY <2>1, <2>2, <2>3, FS_Subset
<1>3. InFlight(handlers) = IF handlers[last].pc \in Fetching THEN outer \cup {last} ELSE outer
  <2>1. \A n : n \in 1 .. last <=> n \in 1 .. last - 1 \/ n = last
    BY <1>1
  <2> QED
    BY <1>1, <2>1 DEF InFlight, OuterInFlight
<1> HIDE DEF outer
<1>4. Cardinality(outer) \in Nat /\ Cardinality(outer \cup {last}) = Cardinality(outer) + 1
  BY <1>2, FS_CardinalityType, FS_AddElement
<1> QED
  BY <1>3, <1>4 DEF outer

\* A step of the innermost handler.
LEMMA CountChanged ==
  ASSUME frames \in Seq(Frame), Interrupted, frames' \in Seq(Frame), Len(frames') = Len(frames),
         \A n \in 1 .. Len(frames) - 1 : frames'[n] = frames[n]
  PROVE  \E outer \in Nat :
           /\ Underway = outer + IF frames[Len(frames)].pc \in Fetching THEN 1 ELSE 0
           /\ Underway' = outer + IF frames'[Len(frames)].pc \in Fetching THEN 1 ELSE 0
<1>1. Len(frames) \in Nat /\ Len(frames) > 0
  BY DEF Interrupted
<1>2. OuterInFlight(frames') = OuterInFlight(frames)
  BY DEF OuterInFlight
<1>3. /\ Cardinality(OuterInFlight(frames)) \in Nat
      /\ Underway = Cardinality(OuterInFlight(frames)) + IF frames[Len(frames)].pc \in Fetching THEN 1 ELSE 0
  BY <1>1, CountSplit DEF Underway
<1>4. Underway' = Cardinality(OuterInFlight(frames')) + IF frames'[Len(frames)].pc \in Fetching THEN 1 ELSE 0
  BY <1>1, CountSplit DEF Underway
<1> QED
  BY <1>2, <1>3, <1>4

\* A handler comes.
LEMMA CountPushed ==
  ASSUME frames \in Seq(Frame), NEW frame \in Frame, frames' = Append(frames, frame),
         frame.pc \notin Fetching
  PROVE  Underway' = Underway
<1>1. /\ frames' \in Seq(Frame) /\ Len(frames') = Len(frames) + 1 /\ Len(frames) \in Nat
      /\ frames'[Len(frames')] = frame
      /\ \A n \in 1 .. Len(frames) : frames'[n] = frames[n]
  OBVIOUS
<1>2. OuterInFlight(frames') = InFlight(frames)
  BY <1>1 DEF OuterInFlight, InFlight
<1>3. Len(frames') > 0
  BY <1>1
<1>4. /\ Cardinality(OuterInFlight(frames')) \in Nat
      /\ Underway' = Cardinality(OuterInFlight(frames')) + 0
  BY <1>1, <1>3, CountSplit DEF Underway
<1> QED
  BY <1>2, <1>4 DEF Underway

\* A handler returns.
LEMMA CountPopped ==
  ASSUME frames \in Seq(Frame), Interrupted, frames' = Front(frames),
         frames[Len(frames)].pc \notin Fetching
  PROVE  Underway' = Underway
<1>1. /\ Len(frames) \in Nat \ {0} /\ frames' \in Seq(Frame) /\ Len(frames') = Len(frames) - 1
      /\ \A n \in 1 .. Len(frames) - 1 : frames'[n] = frames[n]
  BY Innermost
<1>2. OuterInFlight(frames) = InFlight(frames')
  <2>1. DOMAIN frames' = 1 .. Len(frames) - 1
    BY <1>1
  <2> QED
    BY <1>1, <2>1 DEF OuterInFlight, InFlight
<1>3. /\ Cardinality(OuterInFlight(frames)) \in Nat
      /\ Underway = Cardinality(OuterInFlight(frames)) + 0
  BY <1>1, CountSplit DEF Underway
<1> QED
  BY <1>2, <1>3 DEF Underway

\* A step of the program, or of time, with the handlers as they are.
LEMMA ProgramKeeps ==
  ASSUME HandlerInv, DiskTypes', UNCHANGED <<frames, prq_mutex, isInterrupt>>,
         masked' = masked \/ ~Interrupted
  PROVE  HandlerInv'
BY DEF HandlerInv, HolderMasked, FlagOfServer, Interrupted

\* A handler that comes finds the signal unblocked, so prq_mutex is free.
LEMMA InterruptKeeps ==
  ASSUME HandlerInv, Interrupt
  PROVE  HandlerInv' /\ UNCHANGED <<prq, taken>> /\ Underway' = Underway
<1>t. DiskTypes /\ frames \in Seq(Frame) /\ clock \in Int
  BY DEF HandlerInv, DiskTypes
<1>h. HolderMasked /\ FlagOfServer
  BY DEF HandlerInv
<1> DEFINE top == [pc |-> "prq_lock", now |-> clock, val |-> 0]
<1>1. ~masked /\ masked' = TRUE /\ frames' = Append(frames, top)
      /\ UNCHANGED <<prq_mutex, isInterrupt, buf, prq, clock, taken>>
  BY DEF Interrupt, disk
<1>2. top \in Frame /\ top.pc = "prq_lock"
  <2>1. 0 \in Value
    <3>1. 0 \in Int
      OBVIOUS
    <3> QED
      BY <3>1, Values, Zenon
  <2>2. "prq_lock" \in Place
    BY DEF Place, DiskPlace
  <2> QED
    BY <1>t, <2>1, <2>2 DEF Frame
<1> HIDE DEF top
<1>3. frames' \in Seq(Frame) /\ Len(frames') = Len(frames) + 1
      /\ \A n \in 1 .. Len(frames) : frames'[n] = frames[n]
  BY <1>t, <1>1, <1>2
<1>4. Interrupted => Len(frames) \in Nat \ {0}
  BY <1>t DEF Interrupted
<1>5. HolderMasked'
  BY <1>h, <1>1 DEF HolderMasked
<1>6. isInterrupt => frames[Len(frames)].pc \in Serving /\ Len(frames) \in Nat \ {0}
  BY <1>h, <1>1, <1>4 DEF FlagOfServer
<1>7. isInterrupt => Len(frames') > 1 /\ frames'[Len(frames') - 1].pc \in Serving
  BY <1>3, <1>6
<1>8. Interrupted'
  BY <1>t, <1>1 DEF Interrupted
<1>9. FlagOfServer'
  BY <1>1, <1>7, <1>8 DEF FlagOfServer
<1>a. DiskTypes'
  BY <1>t, <1>1, <1>3 DEF DiskTypes
<1>b. Underway' = Underway
  BY <1>t, <1>1, <1>2, CountPushed DEF Fetching
<1> QED
  BY <1>1, <1>5, <1>9, <1>a, <1>b DEF HandlerInv

\* A step of the interrupt service routine leaves the handler in the routine, or at its end.
LEMMA ServiceKeeps ==
  ASSUME HandlerInv, Interrupted, frames[Len(frames)].pc \in Serving,
         NEW frame \in Frame, frames' = [frames EXCEPT ![Len(frames)] = frame],
         frame.pc \in Serving,
         UNCHANGED <<disk, isInterrupt>>, masked' \in BOOLEAN
  PROVE  HandlerInv'
<1>1. DiskTypes /\ frames \in Seq(Frame) /\ HolderMasked
  BY DEF HandlerInv, DiskTypes
<1>2. ~prq_mutex
  BY <1>1 DEF HolderMasked, Serving
<1>3. /\ frames' \in Seq(Frame) /\ Len(frames') = Len(frames) /\ Interrupted'
      /\ frames'[Len(frames)] = frame
  BY <1>1, Changed
<1>4. DiskTypes'
  BY <1>1, <1>3 DEF DiskTypes, disk
<1> QED
  BY <1>2, <1>3, <1>4, Zenon DEF HandlerInv, HolderMasked, FlagOfServer, disk

\* What a step of the handler in disk.c leaves as it was.
TimerKept == HandlerInv' /\ Len(prq') + Underway' = Len(prq) + Underway

\* Who takes prq_mutex keeps the signal blocked.
LEMMA LockKeeps ==
  ASSUME HandlerInv, LockPrq
  PROVE  TimerKept
<1>t. DiskTypes /\ frames \in Seq(Frame) /\ HolderMasked /\ FlagOfServer
  BY DEF HandlerInv, DiskTypes
<1>0. Interrupted
  BY DEF LockPrq, HandlerAt
<1>i. /\ Len(frames) \in Nat \ {0} /\ Last(frames) = frames[Len(frames)]
      /\ frames[Len(frames)].pc = "prq_lock"
  BY <1>t, <1>0, Innermost DEF LockPrq, HandlerAt
<1>1. /\ frames' \in Seq(Frame) /\ Len(frames') = Len(frames) /\ Interrupted'
      /\ frames'[Len(frames)].pc = "prq"
      /\ \A n \in 1 .. Len(frames) - 1 : frames'[n] = frames[n]
  BY <1>t, <1>0, Moved DEF LockPrq, Place, DiskPlace
<1>2. isInterrupt => masked /\ Len(frames) > 1 /\ frames[Len(frames) - 1].pc \in Serving
  BY <1>t, <1>i DEF FlagOfServer, Serving
<1>3. masked' = TRUE /\ prq_mutex' = TRUE /\ UNCHANGED <<buf, prq, taken, clock, isInterrupt>>
  BY <1>2 DEF LockPrq, MaskForLock
<1>4. DiskTypes'
  BY <1>t, <1>1, <1>3 DEF DiskTypes
<1>5. isInterrupt => frames'[Len(frames') - 1].pc \in Serving
  BY <1>i, <1>1, <1>2
<1>6. HolderMasked' /\ FlagOfServer'
  BY <1>1, <1>2, <1>3, <1>5 DEF HolderMasked, FlagOfServer
<1>7. Underway' = Underway
  BY <1>t, <1>0, <1>1, <1>i, CountChanged DEF Fetching
<1> QED
  BY <1>3, <1>4, <1>6, <1>7 DEF TimerKept, HandlerInv

\* A read that is due leaves prq for the handler.
LEMMA CompleteKeeps ==
  ASSUME HandlerInv, CompleteRead
  PROVE  TimerKept
<1>t. DiskTypes /\ frames \in Seq(Frame) /\ HolderMasked /\ FlagOfServer
  BY DEF HandlerInv, DiskTypes
<1>0. Interrupted
  BY DEF CompleteRead, HandlerAt
<1>i. /\ Len(frames) \in Nat \ {0} /\ Last(frames) = frames[Len(frames)]
      /\ frames[Len(frames)].pc = "prq"
  BY <1>t, <1>0, Innermost DEF CompleteRead, HandlerAt
<1>1. /\ frames' \in Seq(Frame) /\ Len(frames') = Len(frames) /\ Interrupted'
      /\ frames'[Len(frames)].pc = "deliver"
      /\ \A n \in 1 .. Len(frames) - 1 : frames'[n] = frames[n]
  BY <1>t, <1>0, Moved DEF CompleteRead, Place, DiskPlace
<1>2. isInterrupt => masked /\ Len(frames) > 1 /\ frames[Len(frames) - 1].pc \in Serving
  BY <1>t, <1>i DEF FlagOfServer, Serving
<1>p. prq \in Seq(Read) /\ prq # <<>>
  BY <1>t DEF DiskTypes, CompleteRead, Due
<1>3. /\ Head(prq) \in Read /\ Tail(prq) \in Seq(Read) /\ Len(Tail(prq)) = Len(prq) - 1
      /\ Len(prq) \in Nat
  BY <1>p, HeadTailProperties
<1>4. masked' = (masked /\ isInterrupt) /\ prq_mutex' = FALSE /\ taken' = taken + 1
      /\ prq' = Tail(prq) /\ UNCHANGED <<clock, isInterrupt>>
  BY DEF CompleteRead, MaskAfterUnlock
<1>5. buf' \in [Buffer -> Int]
  <2>1. Head(prq).buf \in Buffer /\ StoryAt(Head(prq).blockNo) \in Int
    <3>1. Head(prq).buf \in Buffer /\ Head(prq).blockNo \in Int
      BY <1>3 DEF Read
    <3>2. StoryAt(Head(prq).blockNo) \in Nat
      BY <3>1, StoryNat
    <3> QED
      BY <3>1, <3>2
  <2> QED
    BY <1>t, <2>1 DEF CompleteRead, DiskTypes
<1>m. masked' \in BOOLEAN /\ prq_mutex' \in BOOLEAN /\ isInterrupt' \in BOOLEAN
  <2>1. masked \in BOOLEAN /\ isInterrupt \in BOOLEAN
    BY <1>t, Zenon DEF DiskTypes
  <2> QED
    BY <1>4, <2>1
<1>n. prq' \in Seq(Read) /\ clock' \in Int /\ taken' \in Int
  BY <1>t, <1>3, <1>4 DEF DiskTypes
<1>6. DiskTypes'
  BY <1>1, <1>5, <1>m, <1>n DEF DiskTypes
<1>k. isInterrupt' => masked' /\ Len(frames) > 1 /\ frames[Len(frames) - 1].pc \in Serving
  BY <1>2, <1>4, Zenon
<1>l. Len(frames) > 1 => frames'[Len(frames') - 1] = frames[Len(frames) - 1]
  BY <1>i, <1>1
<1>7. HolderMasked' /\ FlagOfServer'
  BY <1>1, <1>4, <1>k, <1>l DEF HolderMasked, FlagOfServer
<1>8. Underway' = Underway + 1 /\ Underway \in Nat
  BY <1>t, <1>0, <1>1, <1>i, CountChanged DEF Fetching
<1> QED
  BY <1>3, <1>4, <1>6, <1>7, <1>8 DEF TimerKept, HandlerInv

\* Without such a read the handler goes to its end.
LEMMA NoneDueKeeps ==
  ASSUME HandlerInv, NoneDue
  PROVE  TimerKept
<1>t. DiskTypes /\ frames \in Seq(Frame) /\ HolderMasked /\ FlagOfServer
  BY DEF HandlerInv, DiskTypes
<1>0. Interrupted
  BY DEF NoneDue, HandlerAt
<1>i. /\ Len(frames) \in Nat \ {0} /\ Last(frames) = frames[Len(frames)]
      /\ frames[Len(frames)].pc = "prq"
  BY <1>t, <1>0, Innermost DEF NoneDue, HandlerAt
<1>1. /\ frames' \in Seq(Frame) /\ Len(frames') = Len(frames) /\ Interrupted'
      /\ frames'[Len(frames)].pc = "return"
      /\ \A n \in 1 .. Len(frames) - 1 : frames'[n] = frames[n]
  BY <1>t, <1>0, Moved DEF NoneDue, Place, DiskPlace
<1>2. isInterrupt => masked /\ Len(frames) > 1 /\ frames[Len(frames) - 1].pc \in Serving
  BY <1>t, <1>i DEF FlagOfServer, Serving
<1>4. masked' = (masked /\ isInterrupt) /\ prq_mutex' = FALSE
      /\ UNCHANGED <<buf, prq, taken, clock, isInterrupt>>
  BY DEF NoneDue, MaskAfterUnlock
<1>m. masked' \in BOOLEAN /\ prq_mutex' \in BOOLEAN /\ isInterrupt' \in BOOLEAN
  <2>1. masked \in BOOLEAN /\ isInterrupt \in BOOLEAN
    BY <1>t, Zenon DEF DiskTypes
  <2> QED
    BY <1>4, <2>1
<1>6. DiskTypes'
  BY <1>t, <1>1, <1>4, <1>m DEF DiskTypes
<1>k. isInterrupt' => masked' /\ Len(frames) > 1 /\ frames[Len(frames) - 1].pc \in Serving
  BY <1>2, <1>4, Zenon
<1>l. Len(frames) > 1 => frames'[Len(frames') - 1] = frames[Len(frames) - 1]
  BY <1>i, <1>1
<1>7. HolderMasked' /\ FlagOfServer'
  BY <1>1, <1>4, <1>k, <1>l DEF HolderMasked, FlagOfServer
<1>8. Underway' = Underway
  BY <1>t, <1>0, <1>1, <1>i, CountChanged DEF Fetching
<1> QED
  BY <1>4, <1>6, <1>7, <1>8 DEF TimerKept, HandlerInv

\* A handler returns to what it interrupted.
LEMMA ReturnKeeps ==
  ASSUME HandlerInv, Return
  PROVE  TimerKept
<1>t. DiskTypes /\ frames \in Seq(Frame) /\ HolderMasked /\ FlagOfServer
  BY DEF HandlerInv, DiskTypes
<1>0. Interrupted
  BY DEF Return, HandlerAt
<1>i. /\ Len(frames) \in Nat \ {0} /\ Last(frames) = frames[Len(frames)]
      /\ Front(frames) \in Seq(Frame) /\ Len(Front(frames)) = Len(frames) - 1
      /\ \A n \in 1 .. Len(frames) - 1 : Front(frames)[n] = frames[n]
      /\ frames[Len(frames)].pc = "return"
  BY <1>t, <1>0, Innermost DEF Return, HandlerAt
<1>1. frames' = Front(frames) /\ masked' = FALSE
      /\ UNCHANGED <<buf, prq, taken, clock, prq_mutex, isInterrupt>>
  BY DEF Return, disk
<1>2. ~prq_mutex
  BY <1>t, <1>i DEF HolderMasked
<1>3. isInterrupt => Len(frames) > 1 /\ frames[Len(frames) - 1].pc \in Serving
  BY <1>t, <1>i DEF FlagOfServer, Serving
<1>4. isInterrupt => frames' # <<>> /\ frames'[Len(frames')].pc \in Serving
  BY <1>i, <1>1, <1>3
<1>5. DiskTypes'
  BY <1>t, <1>i, <1>1 DEF DiskTypes
<1>6. Underway' = Underway
  BY <1>t, <1>0, <1>i, <1>1, CountPopped DEF Fetching
<1> QED
  BY <1>1, <1>2, <1>4, <1>5, <1>6 DEF TimerKept, HandlerInv, HolderMasked, FlagOfServer, Interrupted

\* The routine is called, or has returned.
LEMMA DeliverKeeps ==
  ASSUME HandlerInv, deliverInterrupt
  PROVE  TimerKept
<1>t. DiskTypes /\ frames \in Seq(Frame) /\ HolderMasked /\ FlagOfServer
  BY DEF HandlerInv, DiskTypes
<1>0. Interrupted
  BY DEF deliverInterrupt, HandlerAt
<1>i. /\ Len(frames) \in Nat \ {0} /\ Last(frames) = frames[Len(frames)]
      /\ frames[Len(frames)].pc \in {"deliver", "delivered"}
  BY <1>t, <1>0, Innermost DEF deliverInterrupt, HandlerAt
<1> DEFINE where == IF frames[Len(frames)].pc = "deliver" THEN "isr" ELSE "prq_lock"
<1>1. /\ GoTo(where) /\ UNCHANGED <<buf, prq, taken, clock, prq_mutex, masked>>
      /\ isInterrupt' = (where = "isr")
  BY <1>i DEF deliverInterrupt, HandlerAt, disk
<1>p. where \in Place
  BY DEF Place, DiskPlace
<1>2. /\ frames' \in Seq(Frame) /\ Len(frames') = Len(frames) /\ Interrupted'
      /\ frames'[Len(frames)].pc = where
      /\ \A n \in 1 .. Len(frames) - 1 : frames'[n] = frames[n]
  <2> HIDE DEF where
  <2> QED
    BY <1>t, <1>0, <1>1, <1>p, Moved
<1>3. ~prq_mutex
  BY <1>t, <1>i DEF HolderMasked
<1>4. isInterrupt' \in BOOLEAN /\ (isInterrupt' => frames'[Len(frames')].pc \in Serving)
  BY <1>1, <1>2 DEF Serving
<1>5. DiskTypes'
  BY <1>t, <1>1, <1>2, <1>4 DEF DiskTypes
<1>6. Underway' = Underway
  BY <1>t, <1>0, <1>2, <1>i, CountChanged DEF Fetching
<1> QED
  BY <1>1, <1>2, <1>3, <1>4, <1>5, <1>6 DEF TimerKept, HandlerInv, HolderMasked, FlagOfServer

\* The steps of the handler in disk.c.
LEMMA TimerKeeps ==
  ASSUME HandlerInv, handleTimerInterrupt
  PROVE  TimerKept
BY LockKeeps, CompleteKeeps, NoneDueKeeps, ReturnKeeps, DeliverKeeps DEF handleTimerInterrupt

(***************************************************************************)
(* The programs use the same disk                                          *)
(***************************************************************************)
\* In sRead the handler is that of disk.c.
LEMMA TimerS == S!handleTimerInterrupt <=> handleTimerInterrupt
<1>l. (\A s : S!Last(s) = Last(s)) /\ (\A s : S!Front(s) = Front(s))
  BY DEF S!Last, Last, S!Front, Front
<1>a. \A w : S!HandlerAt(w) <=> HandlerAt(w)
  BY <1>l DEF S!HandlerAt, HandlerAt, S!Interrupted, Interrupted
<1>g. \A w : S!GoTo(w) <=> GoTo(w)
  BY DEF S!GoTo, GoTo
<1>d. S!disk = disk /\ (S!Due <=> Due) /\ (\A b : S!StoryAt(b) = StoryAt(b))
  BY <1>l, Zenon DEF S!disk, disk, S!Due, Due, S!StoryAt, StoryAt, S!story, story
<1>m. (S!MaskForLock <=> MaskForLock) /\ (S!MaskAfterUnlock <=> MaskAfterUnlock)
  BY DEF S!MaskForLock, MaskForLock, S!MaskAfterUnlock, MaskAfterUnlock
<1>1. S!LockPrq <=> LockPrq
  BY <1>a, <1>g, <1>m DEF S!LockPrq, LockPrq
<1>2. S!CompleteRead <=> CompleteRead
  BY <1>a, <1>g, <1>d, <1>m DEF S!CompleteRead, CompleteRead
<1>3. S!NoneDue <=> NoneDue
  BY <1>a, <1>g, <1>d, <1>m DEF S!NoneDue, NoneDue
<1>4. S!Return <=> Return
  BY <1>a, <1>l DEF S!Return, Return, S!disk, disk
<1>5. S!deliverInterrupt <=> deliverInterrupt
  BY <1>a, <1>g DEF S!disk, disk, S!deliverInterrupt, deliverInterrupt
<1> QED
  BY <1>1, <1>2, <1>3, <1>4, <1>5 DEF S!handleTimerInterrupt, handleTimerInterrupt

\* In treasureHunt the handler is that of disk.c.
LEMMA TimerH == H!handleTimerInterrupt <=> handleTimerInterrupt
<1>l. (\A s : H!Last(s) = Last(s)) /\ (\A s : H!Front(s) = Front(s))
  BY DEF H!Last, Last, H!Front, Front
<1>a. \A w : H!HandlerAt(w) <=> HandlerAt(w)
  BY <1>l DEF H!HandlerAt, HandlerAt, H!Interrupted, Interrupted
<1>g. \A w : H!GoTo(w) <=> GoTo(w)
  BY DEF H!GoTo, GoTo
<1>d. H!disk = disk /\ (H!Due <=> Due) /\ (\A b : H!StoryAt(b) = StoryAt(b))
  BY <1>l, Zenon DEF H!disk, disk, H!Due, Due, H!StoryAt, StoryAt, H!story, story
<1>m. (H!MaskForLock <=> MaskForLock) /\ (H!MaskAfterUnlock <=> MaskAfterUnlock)
  BY DEF H!MaskForLock, MaskForLock, H!MaskAfterUnlock, MaskAfterUnlock
<1>1. H!LockPrq <=> LockPrq
  BY <1>a, <1>g, <1>m DEF H!LockPrq, LockPrq
<1>2. H!CompleteRead <=> CompleteRead
  BY <1>a, <1>g, <1>d, <1>m DEF H!CompleteRead, CompleteRead
<1>3. H!NoneDue <=> NoneDue
  BY <1>a, <1>g, <1>d, <1>m DEF H!NoneDue, NoneDue
<1>4. H!Return <=> Return
  BY <1>a, <1>l DEF H!Return, Return, H!disk, disk
<1>5. H!deliverInterrupt <=> deliverInterrupt
  BY <1>a, <1>g DEF H!disk, disk, H!deliverInterrupt, deliverInterrupt
<1> QED
  BY <1>1, <1>2, <1>3, <1>4, <1>5 DEF H!handleTimerInterrupt, handleTimerInterrupt

\* In tRead the handler is that of disk.c.
LEMMA TimerT == T!handleTimerInterrupt <=> handleTimerInterrupt
<1>l. (\A s : T!Last(s) = Last(s)) /\ (\A s : T!Front(s) = Front(s))
  BY DEF T!Last, Last, T!Front, Front
<1>a. \A w : T!HandlerAt(w) <=> HandlerAt(w)
  BY <1>l DEF T!HandlerAt, HandlerAt, T!Interrupted, Interrupted
<1>g. \A w : T!GoTo(w) <=> GoTo(w)
  BY DEF T!GoTo, GoTo
<1>d. T!disk = disk /\ (T!Due <=> Due) /\ (\A b : T!StoryAt(b) = StoryAt(b))
  BY <1>l, Zenon DEF T!disk, disk, T!Due, Due, T!StoryAt, StoryAt, T!story, story
<1>m. (T!MaskForLock <=> MaskForLock) /\ (T!MaskAfterUnlock <=> MaskAfterUnlock)
  BY DEF T!MaskForLock, MaskForLock, T!MaskAfterUnlock, MaskAfterUnlock
<1>1. T!LockPrq <=> LockPrq
  BY <1>a, <1>g, <1>m DEF T!LockPrq, LockPrq
<1>2. T!CompleteRead <=> CompleteRead
  BY <1>a, <1>g, <1>d, <1>m DEF T!CompleteRead, CompleteRead
<1>3. T!NoneDue <=> NoneDue
  BY <1>a, <1>g, <1>d, <1>m DEF T!NoneDue, NoneDue
<1>4. T!Return <=> Return
  BY <1>a, <1>l DEF T!Return, Return, T!disk, disk
<1>5. T!deliverInterrupt <=> deliverInterrupt
  BY <1>a, <1>g DEF T!disk, disk, T!deliverInterrupt, deliverInterrupt
<1> QED
  BY <1>1, <1>2, <1>3, <1>4, <1>5 DEF T!handleTimerInterrupt, handleTimerInterrupt

\* What the program and its service routine take from disk.c.
LEMMA StepsS ==
  /\ S!Interrupted <=> Interrupted
  /\ \A w : (S!HandlerAt(w) <=> HandlerAt(w)) /\ (S!GoTo(w) <=> GoTo(w))
  /\ \A s : S!Last(s) = Last(s)
  /\ \A b, n : S!disk_schedule_read(b, n) <=> disk_schedule_read(b, n)
<1>1. S!Interrupted <=> Interrupted
  BY DEF S!Interrupted, Interrupted
<1>2. \A s : S!Last(s) = Last(s)
  BY DEF S!Last, Last
<1>3. \A w : (S!HandlerAt(w) <=> HandlerAt(w)) /\ (S!GoTo(w) <=> GoTo(w))
  BY <1>1, <1>2 DEF S!HandlerAt, HandlerAt, S!GoTo, GoTo
<1>6. \A b, n : S!disk_schedule_read(b, n) <=> disk_schedule_read(b, n)
  BY <1>1 DEF S!disk_schedule_read, disk_schedule_read, S!MaskAfterUnlock, MaskAfterUnlock
<1> QED
  BY <1>1, <1>2, <1>3, <1>6

\* What the program and its service routine take from disk.c and queue.c.
LEMMA StepsH ==
  /\ H!Interrupted <=> Interrupted
  /\ \A w : (H!HandlerAt(w) <=> HandlerAt(w)) /\ (H!GoTo(w) <=> GoTo(w))
  /\ \A s : H!Last(s) = Last(s)
  /\ \A b, n : H!disk_schedule_read(b, n) <=> disk_schedule_read(b, n)
  /\ H!LockQueue => HandlerAt("isr") /\ GoTo("dequeue") /\ MaskForLock
                    /\ UNCHANGED <<disk, isInterrupt, pending_read_queue>>
  /\ \A e : H!queue_enqueue(e) =>
        /\ ~Interrupted /\ MaskAfterUnlock /\ UNCHANGED <<disk, isInterrupt, frames>>
        /\ pending_read_queue' = Append(pending_read_queue, e)
<1>1. H!Interrupted <=> Interrupted
  BY DEF H!Interrupted, Interrupted
<1>2. \A s : H!Last(s) = Last(s)
  BY DEF H!Last, Last
<1>3. \A w : (H!HandlerAt(w) <=> HandlerAt(w)) /\ (H!GoTo(w) <=> GoTo(w))
  BY <1>1, <1>2 DEF H!HandlerAt, HandlerAt, H!GoTo, GoTo
<1>4. H!LockQueue => HandlerAt("isr") /\ GoTo("dequeue") /\ MaskForLock
                    /\ UNCHANGED <<disk, isInterrupt, pending_read_queue>>
  BY <1>2, <1>3 DEF H!LockQueue, H!MaskForLock, MaskForLock, H!disk, disk
<1>5. \A e : H!queue_enqueue(e) =>
        /\ ~Interrupted /\ MaskAfterUnlock /\ UNCHANGED <<disk, isInterrupt, frames>>
        /\ pending_read_queue' = Append(pending_read_queue, e)
  BY <1>1 DEF H!queue_enqueue, H!MaskAfterUnlock, MaskAfterUnlock, H!disk, disk
<1>6. \A b, n : H!disk_schedule_read(b, n) <=> disk_schedule_read(b, n)
  BY <1>1 DEF H!disk_schedule_read, disk_schedule_read, H!MaskAfterUnlock, MaskAfterUnlock
<1> QED
  BY <1>1, <1>2, <1>3, <1>4, <1>5, <1>6

\* What the program and its service routine take from disk.c and queue.c.
LEMMA StepsT ==
  /\ T!Interrupted <=> Interrupted
  /\ \A w : (T!HandlerAt(w) <=> HandlerAt(w)) /\ (T!GoTo(w) <=> GoTo(w))
  /\ \A s : T!Last(s) = Last(s)
  /\ \A b, n : T!disk_schedule_read(b, n) <=> disk_schedule_read(b, n)
  /\ T!LockQueue => HandlerAt("isr") /\ GoTo("dequeue") /\ MaskForLock
                    /\ UNCHANGED <<disk, isInterrupt, pending_read_queue>>
  /\ \A e : T!queue_enqueue(e) =>
        /\ ~Interrupted /\ MaskAfterUnlock /\ UNCHANGED <<disk, isInterrupt, frames>>
        /\ pending_read_queue' = Append(pending_read_queue, e)
<1>1. T!Interrupted <=> Interrupted
  BY DEF T!Interrupted, Interrupted
<1>2. \A s : T!Last(s) = Last(s)
  BY DEF T!Last, Last
<1>3. \A w : (T!HandlerAt(w) <=> HandlerAt(w)) /\ (T!GoTo(w) <=> GoTo(w))
  BY <1>1, <1>2 DEF T!HandlerAt, HandlerAt, T!GoTo, GoTo
<1>4. T!LockQueue => HandlerAt("isr") /\ GoTo("dequeue") /\ MaskForLock
                    /\ UNCHANGED <<disk, isInterrupt, pending_read_queue>>
  BY <1>2, <1>3 DEF T!LockQueue, T!MaskForLock, MaskForLock, T!disk, disk
<1>5. \A e : T!queue_enqueue(e) =>
        /\ ~Interrupted /\ MaskAfterUnlock /\ UNCHANGED <<disk, isInterrupt, frames>>
        /\ pending_read_queue' = Append(pending_read_queue, e)
  BY <1>1 DEF T!queue_enqueue, T!MaskAfterUnlock, MaskAfterUnlock, T!disk, disk
<1>6. \A b, n : T!disk_schedule_read(b, n) <=> disk_schedule_read(b, n)
  BY <1>1 DEF T!disk_schedule_read, disk_schedule_read, T!MaskAfterUnlock, MaskAfterUnlock
<1> QED
  BY <1>1, <1>2, <1>3, <1>4, <1>5, <1>6

\* The threads of tRead.
LEMMA Readers ==
  /\ Len(reader) \in Nat /\ DOMAIN reader = 1 .. Len(reader)
  /\ \A k \in 1 .. Len(reader) : reader[k] \in ReadThreads
  /\ \A t \in ReadThreads : \E k \in 1 .. Len(reader) : t = reader[k]
  /\ \A j, k \in 1 .. Len(reader) : reader[j] = reader[k] => j = k
  /\ ReadThreads \subseteq Buffer /\ ReadThreads \subseteq Threads
  /\ "main" \in Threads \ ReadThreads /\ "base" \in Threads \ ReadThreads
  /\ T!Range(reader) = ReadThreads /\ T!T!Thread = Threads
<1>1. /\ reader \in Seq(Buffer \ {"main", "base", "none"})
      /\ \A j, k \in DOMAIN reader : reader[j] = reader[k] => j = k
  BY ReaderAssumption
<1>2. /\ Len(reader) \in Nat /\ DOMAIN reader = 1 .. Len(reader)
      /\ \A k \in 1 .. Len(reader) : reader[k] \in Buffer \ {"main", "base", "none"}
  BY <1>1
<1>3. T!Range(reader) = ReadThreads
  BY <1>2 DEF T!Range, ReadThreads
<1>4. T!T!Thread = Threads
  BY <1>3 DEF T!T!Thread, Threads
<1> QED
  BY <1>1, <1>2, <1>3, <1>4 DEF ReadThreads, Threads

(***************************************************************************)
(* The entries of the queue, at any depth                                  *)
(***************************************************************************)
Reading == {"queue", "schedule", "block", "add", "dying", "gone"}
Joining == {"create", "join", "joining", "collect", "end"}
State == {"NASCENT", "RUNNING", "RUNABLE", "BLOCKED", "DYING", "DEAD", "FREED"}

\* The places that a thread of tRead does not leave to another thread.
Held == {"create", "join", "joining", "end", "yielding", "schedule", "block", "dying"}

ThreadTypes ==
  client = "tRead" =>
    /\ ready_queue \in Seq(Threads) /\ self \in Threads
    /\ place \in [Threads -> Reading \cup Joining \cup {"loop", "yielding"}]
    /\ \A t \in ReadThreads : place[t] \in Reading
    /\ place["main"] \in Joining /\ place["base"] \in {"loop", "yielding"}
    /\ state \in [Threads -> State] /\ joiner \in [Threads -> Threads \cup {"none"}]
    /\ \A t \in Threads : place[t] \in Held => self = t
    /\ arg \in 0 .. Len(reader) /\ (place["main"] \in {"joining", "collect"} => arg < Len(reader))

\* The program has queued an entry and is about to schedule its read.
Unread ==
  \/ client = "aRead" /\ pc = "schedule"
  \/ client = "treasureHunt" /\ pc \in {"first_read", "schedule"}
  \/ client = "tRead" /\ self \in ReadThreads /\ place[self] = "schedule"

EntryInv ==
  client # "sRead" => Len(pending_read_queue) = Len(prq) + Underway + IF Unread THEN 1 ELSE 0

\* The handlers of aRead keep a sum.
KeepsInt == client = "aRead" => \A n \in 1 .. Len(frames) : frames[n].val \in Int

SuiteInv == HandlerInv /\ ClientTypes /\ ThreadTypes /\ KeepsInt /\ EntryInv

\* The number of handlers that fetch an entry, when no handler moves.
LEMMA SameUnderway == UNCHANGED frames => Underway' = Underway
BY DEF Underway, InFlight

\* And what they keep.
LEMMA SameKept == ASSUME KeepsInt, UNCHANGED <<frames, client>> PROVE KeepsInt'
BY DEF KeepsInt

\* The program schedules a read.
LEMMA Scheduled ==
  ASSUME HandlerInv, NEW b \in Buffer, NEW n \in Int, disk_schedule_read(b, n)
  PROVE  /\ HandlerInv' /\ Underway' = Underway /\ Len(prq') = Len(prq) + 1
         /\ prq' = Append(prq, [buf |-> b, blockNo |-> n])
<1>1. /\ ~Interrupted /\ prq' = Append(prq, [buf |-> b, blockNo |-> n])
      /\ UNCHANGED <<buf, taken, clock, prq_mutex, isInterrupt, frames>>
      /\ masked' = (masked /\ isInterrupt)
  BY DEF disk_schedule_read, MaskAfterUnlock
<1>2. DiskTypes
  BY DEF HandlerInv
<1>3. prq \in Seq(Read) /\ [buf |-> b, blockNo |-> n] \in Read
  BY <1>2 DEF DiskTypes, Read
<1>4. prq' \in Seq(Read) /\ Len(prq') = Len(prq) + 1
  BY <1>1, <1>3, AppendProperties
<1>5. masked' \in BOOLEAN
  <2>1. masked \in BOOLEAN /\ isInterrupt \in BOOLEAN
    BY <1>2, Zenon DEF DiskTypes
  <2> QED
    BY <1>1, <2>1
<1>6. DiskTypes'
  BY <1>1, <1>2, <1>4, <1>5 DEF DiskTypes
<1> QED
  BY <1>1, <1>4, <1>6, ProgramKeeps, SameUnderway

\* The program unlocks something, or does nothing of the kind, and goes on.
LEMMA WentOn ==
  ASSUME HandlerInv, ~Interrupted, UNCHANGED <<disk, isInterrupt, frames>>,
         masked' = masked \/ MaskAfterUnlock \/ masked' = TRUE
  PROVE  HandlerInv' /\ Underway' = Underway
<1>1. DiskTypes
  BY DEF HandlerInv
<1>2. masked \in BOOLEAN /\ isInterrupt \in BOOLEAN
  BY <1>1, Zenon DEF DiskTypes
<1>3. masked' \in BOOLEAN
  BY <1>2 DEF MaskAfterUnlock
<1>4. DiskTypes'
  BY <1>1, <1>3 DEF DiskTypes, disk
<1> QED
  BY <1>4, ProgramKeeps, SameUnderway DEF disk

\* A step of the routine in the innermost handler, from one place to another.
ServedFrom(from, where) ==
  /\ HandlerAt(from)
  /\ \E frame \in Frame :
       /\ frame.pc = where /\ frames' = [frames EXCEPT ![Len(frames)] = frame]
       /\ client = "aRead" => frame.val \in Int
  /\ UNCHANGED <<disk, isInterrupt>>
  /\ masked' = masked \/ MaskForLock \/ MaskAfterUnlock

\* Such a step keeps the invariants, and how many reads are under way changes with its places.
LEMMA Served ==
  ASSUME HandlerInv, KeepsInt, UNCHANGED client, NEW from \in Serving, NEW where \in Serving, ServedFrom(from, where)
  PROVE  /\ HandlerInv' /\ KeepsInt'
         /\ \E outer \in Nat :
              /\ Underway = outer + IF from \in Fetching THEN 1 ELSE 0
              /\ Underway' = outer + IF where \in Fetching THEN 1 ELSE 0
<1>1. DiskTypes /\ frames \in Seq(Frame)
  BY DEF HandlerInv, DiskTypes
<1>2. Interrupted
  BY DEF ServedFrom, HandlerAt
<1>3. frames[Len(frames)].pc = from
  BY <1>1, <1>2, Innermost DEF ServedFrom, HandlerAt
<1>4. PICK frame \in Frame :
        /\ frame.pc = where /\ frames' = [frames EXCEPT ![Len(frames)] = frame]
        /\ client = "aRead" => frame.val \in Int
  BY DEF ServedFrom
<1>5. masked' \in BOOLEAN
  <2>1. masked \in BOOLEAN /\ isInterrupt \in BOOLEAN
    BY <1>1, Zenon DEF DiskTypes
  <2> QED
    BY <2>1 DEF ServedFrom, MaskForLock, MaskAfterUnlock
<1>6. HandlerInv'
  BY <1>2, <1>3, <1>4, <1>5, ServiceKeeps DEF ServedFrom
<1>7. /\ frames' \in Seq(Frame) /\ Len(frames') = Len(frames)
      /\ frames'[Len(frames)] = frame
      /\ \A n \in 1 .. Len(frames) - 1 : frames'[n] = frames[n]
  BY <1>1, <1>2, <1>4, Changed
<1>8. \E outer \in Nat :
         /\ Underway = outer + IF frames[Len(frames)].pc \in Fetching THEN 1 ELSE 0
         /\ Underway' = outer + IF frames'[Len(frames)].pc \in Fetching THEN 1 ELSE 0
  BY <1>1, <1>2, <1>7, CountChanged
<1>9. KeepsInt'
  <2>1. \A n \in 1 .. Len(frames) : n \in 1 .. Len(frames) - 1 \/ n = Len(frames)
    BY <1>1
  <2> QED
    BY <1>4, <1>7, <2>1, Zenon DEF KeepsInt
<1> QED
  BY <1>3, <1>4, <1>6, <1>7, <1>8, <1>9

\* GoTo takes the innermost handler from one place to another.
LEMMA GoToFrame ==
  ASSUME HandlerInv, KeepsInt, Interrupted, NEW where \in Place, GoTo(where)
  PROVE  \E frame \in Frame :
           /\ frame.pc = where /\ frames' = [frames EXCEPT ![Len(frames)] = frame]
           /\ client = "aRead" => frame.val \in Int
<1> DEFINE last == Len(frames)
           frame == [frames[last] EXCEPT !.pc = where]
<1>0. frames \in Seq(Frame)
  BY DEF HandlerInv, DiskTypes
<1>1. last \in Nat \ {0} /\ frames[last] \in Frame
  BY <1>0, Innermost
<1>2. frame \in Frame /\ frame.pc = where /\ frame.val = frames[last].val
  BY <1>1 DEF Frame
<1>3. frames' = [frames EXCEPT ![last] = frame]
  BY <1>1 DEF GoTo
<1>4. client = "aRead" => frame.val \in Int
  BY <1>1, <1>2 DEF KeepsInt
<1> HIDE DEF frame
<1> QED
  BY <1>2, <1>3, <1>4

\* The number of handlers that fetch an entry is a number.
LEMMA InFlightNat == ASSUME NEW Kind, NEW handlers \in Seq(Kind) PROVE Cardinality(InFlight(handlers)) \in Nat
<1>1. IsFiniteSet(DOMAIN handlers)
  <2>1. DOMAIN handlers = 1 .. Len(handlers) /\ Len(handlers) \in Nat
    OBVIOUS
  <2> QED
    BY <2>1, FS_Interval
<1>2. InFlight(handlers) \in SUBSET (DOMAIN handlers)
  BY DEF InFlight
<1> QED
  BY <1>1, <1>2, FS_Subset, FS_CardinalityType

\* In this state and in the next.
LEMMA UnderwayNat ==
  /\ HandlerInv => Underway \in Nat /\ Len(prq) \in Nat
  /\ HandlerInv' => Underway' \in Nat /\ Len(prq') \in Nat
BY InFlightNat DEF HandlerInv, DiskTypes, Underway

\* A handler of aRead that comes keeps 0, and one that goes on what it kept.
LEMMA DiskKeepsInt ==
  ASSUME HandlerInv, KeepsInt, UNCHANGED client, handleTimerInterrupt \/ Tick \/ Interrupt
  PROVE  KeepsInt'
<1>t. frames \in Seq(Frame)
  BY DEF HandlerInv, DiskTypes
<1>1. CASE \E where \in Place : Interrupted /\ GoTo(where)
  <2>1. PICK where \in Place : Interrupted /\ GoTo(where)
    BY <1>1
  <2>2. PICK frame \in Frame :
          /\ frame.pc = where /\ frames' = [frames EXCEPT ![Len(frames)] = frame]
          /\ client = "aRead" => frame.val \in Int
    BY <2>1, GoToFrame
  <2>3. /\ Len(frames') = Len(frames) /\ frames'[Len(frames)] = frame
        /\ \A n \in 1 .. Len(frames) - 1 : frames'[n] = frames[n]
    BY <1>t, <2>1, <2>2, Changed
  <2>4. \A n \in 1 .. Len(frames) : n \in 1 .. Len(frames) - 1 \/ n = Len(frames)
    BY <1>t
  <2> QED
    BY <2>2, <2>3, <2>4, Zenon DEF KeepsInt
<1>2. CASE Return
  <2>1. Interrupted /\ frames' = Front(frames)
    BY <1>2 DEF Return, HandlerAt
  <2>2. /\ Len(frames) \in Nat \ {0} /\ Len(frames') = Len(frames) - 1
        /\ \A n \in 1 .. Len(frames) - 1 : frames'[n] = frames[n]
    BY <1>t, <2>1, Innermost
  <2> QED
    BY <2>2 DEF KeepsInt
<1>3. CASE Interrupt
  <2>1. frames' = Append(frames, [pc |-> "prq_lock", now |-> clock, val |-> 0])
    BY <1>3 DEF Interrupt
  <2>2. /\ Len(frames') = Len(frames) + 1 /\ frames'[Len(frames) + 1].val = 0
        /\ \A n \in 1 .. Len(frames) : frames'[n] = frames[n]
    BY <1>t, <2>1
  <2>3. \A n \in 1 .. Len(frames) + 1 : n \in 1 .. Len(frames) \/ n = Len(frames) + 1
    BY <1>t
  <2>4. frames'[Len(frames) + 1].val \in Int
    BY <2>2
  <2> QED
    BY <2>2, <2>3, <2>4, Zenon DEF KeepsInt
<1>4. CASE Tick
  BY <1>4, SameKept DEF Tick, signals
<1>5. CASE LockPrq \/ CompleteRead \/ NoneDue \/ deliverInterrupt
  <2>1. {"prq", "deliver", "return", "isr", "prq_lock"} \subseteq Place
    BY DEF Place, DiskPlace
  <2> QED
    BY <1>1, <1>5, <2>1 DEF LockPrq, CompleteRead, NoneDue, deliverInterrupt, HandlerAt
<1> QED
  BY <1>2, <1>3, <1>4, <1>5 DEF handleTimerInterrupt

\* Of the handler in disk.c, of time and of the signal.
LEMMA DiskKeepsEntries ==
  ASSUME SuiteInv, UNCHANGED <<client, threads, callbacks, totals, blockno, pc>>,
         handleTimerInterrupt \/ Tick \/ Interrupt
  PROVE  SuiteInv'
<1>1. HandlerInv' /\ Len(prq') + Underway' = Len(prq) + Underway
  <2>1. HandlerInv
    BY DEF SuiteInv
  <2>2. CASE handleTimerInterrupt
    BY <2>1, <2>2, TimerKeeps DEF TimerKept
  <2>3. CASE Tick
    <3>1. UNCHANGED <<frames, prq, prq_mutex, isInterrupt, masked, buf, taken>> /\ clock' = clock + 1
      BY <2>3 DEF Tick, signals
    <3>2. DiskTypes'
      BY <2>1, <3>1 DEF HandlerInv, DiskTypes
    <3> QED
      BY <2>1, <3>1, <3>2, ProgramKeeps, SameUnderway
  <2>4. CASE Interrupt
    BY <2>1, <2>4, InterruptKeeps
  <2> QED
    BY <2>2, <2>3, <2>4
<1>2. ClientTypes' /\ ThreadTypes' /\ Unread' = Unread /\ UNCHANGED <<client, pending_read_queue>>
  BY DEF SuiteInv, ClientTypes, ThreadTypes, Unread, threads, callbacks, totals
<1>k. KeepsInt'
  BY DiskKeepsInt DEF SuiteInv
<1>3. EntryInv'
  <2>1. /\ Underway \in Nat /\ Underway' \in Nat /\ Len(prq) \in Nat /\ Len(prq') \in Nat
    <3>1. HandlerInv
      BY DEF SuiteInv
    <3> QED
      BY <1>1, <3>1, UnderwayNat
  <2> QED
    BY <1>1, <1>2, <2>1 DEF SuiteInv, EntryInv
<1> QED
  BY <1>1, <1>2, <1>3, <1>k DEF SuiteInv

\* What the steps of the service routine come to: the entry goes with the handler.
LEMMA RoutineKeeps ==
  ASSUME SuiteInv, UNCHANGED client, ThreadTypes', Unread' <=> Unread, NEW from \in Serving, NEW where \in Serving,
         ServedFrom(from, where), ClientTypes',
         \/ pending_read_queue' = pending_read_queue /\ (from \in Fetching <=> where \in Fetching)
         \/ /\ pending_read_queue # <<>> /\ pending_read_queue' = Tail(pending_read_queue)
            /\ from \in Fetching /\ where \notin Fetching
  PROVE  SuiteInv'
<1>1. PICK outer \in Nat :
        /\ Underway = outer + IF from \in Fetching THEN 1 ELSE 0
        /\ Underway' = outer + IF where \in Fetching THEN 1 ELSE 0
  BY Served DEF SuiteInv
<1>2. HandlerInv' /\ KeepsInt' /\ prq' = prq /\ Len(prq) \in Nat
  BY Served, UnderwayNat DEF SuiteInv, ServedFrom, disk
<1>4. /\ Len(pending_read_queue) \in Nat
      /\ pending_read_queue # <<>> => Len(Tail(pending_read_queue)) = Len(pending_read_queue) - 1
  BY HeadTailProperties DEF SuiteInv, ClientTypes
<1>6. client # "sRead" => Len(pending_read_queue) = Len(prq) + Underway + IF Unread THEN 1 ELSE 0
  BY DEF SuiteInv, EntryInv
<1>7. Len(pending_read_queue') = Len(pending_read_queue) - (Underway - Underway')
  BY <1>1, <1>4
<1>5. EntryInv'
  <2>1. Underway \in Int /\ Underway' \in Int /\ Len(prq') = Len(prq)
    BY <1>1, <1>2
  <2>3. client # "sRead" => Len(pending_read_queue') = Len(prq) + Underway' + IF Unread THEN 1 ELSE 0
    BY <1>2, <1>4, <1>6, <1>7, <2>1
  <2> QED
    BY <2>1, <2>3 DEF EntryInv
<1> QED
  BY <1>2, <1>5 DEF SuiteInv

\* The routines of the others leave the threads and the program alone.
LEMMA RoutineKeepsEntries ==
  ASSUME SuiteInv, UNCHANGED <<client, threads, blockno, pc>>, NEW from \in Serving, NEW where \in Serving,
         ServedFrom(from, where), ClientTypes',
         \/ pending_read_queue' = pending_read_queue /\ (from \in Fetching <=> where \in Fetching)
         \/ /\ pending_read_queue # <<>> /\ pending_read_queue' = Tail(pending_read_queue)
            /\ from \in Fetching /\ where \notin Fetching
  PROVE  SuiteInv'
<1>1. ThreadTypes' /\ (Unread' <=> Unread) /\ client' = client
  BY DEF SuiteInv, ThreadTypes, Unread, threads
<1> QED
  BY <1>1, RoutineKeeps

\* The program queues an entry.
LEMMA Enqueues ==
  ASSUME SuiteInv, NEW e \in Entry, pending_read_queue' = Append(pending_read_queue, e)
  PROVE  /\ pending_read_queue' \in Seq(Entry)
         /\ Len(pending_read_queue') = Len(pending_read_queue) + 1
         /\ Len(pending_read_queue) \in Nat
BY AppendProperties DEF SuiteInv, ClientTypes

\* Steps of aRead.
LEMMA AReadKeepsEntries ==
  ASSUME SuiteInv, client = "aRead", main, UNCHANGED <<client, threads>>
  PROVE  SuiteInv'
<1>h. HandlerInv /\ ClientTypes /\ Underway \in Nat /\ Len(prq) \in Nat
  BY UnderwayNat DEF SuiteInv
<1>t. ThreadTypes' /\ KeepsInt
  BY DEF SuiteInv, ThreadTypes
<1>e. Len(pending_read_queue) = Len(prq) + Underway + IF pc = "schedule" THEN 1 ELSE 0
  BY DEF SuiteInv, EntryInv, Unread
<1>u. Unread' <=> pc' = "schedule"
  BY DEF Unread
<1>1. CASE IssueRead /\ pc = "enqueue"
  <2>1. /\ pending_read_queue' = Append(pending_read_queue, "result")
        /\ ~Interrupted /\ MaskAfterUnlock /\ pc' = "schedule"
        /\ UNCHANGED <<disk, isInterrupt, frames, blockno, totals>>
    BY <1>1 DEF IssueRead, result
  <2>2. HandlerInv' /\ KeepsInt' /\ Underway' = Underway /\ prq' = prq
    BY <1>h, <1>t, <2>1, WentOn, SameKept DEF disk
  <2>3. /\ pending_read_queue' \in Seq(Entry)
        /\ Len(pending_read_queue') = Len(pending_read_queue) + 1
    BY <2>1, Enqueues DEF Entry
  <2>4. ClientTypes'
    BY <1>h, <2>1, <2>3 DEF ClientTypes, totals, threads
  <2>5. EntryInv'
    BY <1>h, <1>e, <1>u, <1>1, <2>1, <2>2, <2>3 DEF EntryInv
  <2> QED
    BY <1>t, <2>2, <2>4, <2>5 DEF SuiteInv
<1>2. CASE IssueRead /\ pc = "schedule"
  <2>1. /\ disk_schedule_read(result, blockno) /\ pc' = "enqueue" /\ blockno' = blockno + 1
        /\ UNCHANGED <<pending_read_queue, totals>>
    BY <1>2 DEF IssueRead
  <2>2. HandlerInv' /\ KeepsInt' /\ Underway' = Underway /\ Len(prq') = Len(prq) + 1
    BY <1>h, <1>t, <2>1, Scheduled, SameKept, ResultAssumption DEF ClientTypes, disk_schedule_read
  <2>4. ClientTypes'
    BY <1>h, <2>1 DEF ClientTypes, totals, threads
  <2>5. EntryInv'
    BY <1>h, <1>e, <1>u, <1>2, <2>1, <2>2 DEF EntryInv
  <2> QED
    BY <1>t, <2>2, <2>4, <2>5 DEF SuiteInv
<1>3. CASE Poll
  <2>1. /\ ~Interrupted /\ pc # "schedule" /\ pc' # "schedule"
        /\ UNCHANGED <<disk, signals, pending_read_queue, totals, blockno>>
    BY <1>3 DEF Poll, callbacks
  <2>2. HandlerInv' /\ KeepsInt' /\ Underway' = Underway /\ prq' = prq
    BY <1>h, <1>t, <2>1, WentOn, SameKept DEF disk, signals
  <2>4. ClientTypes'
    BY <1>h, <2>1 DEF ClientTypes, totals, threads
  <2>5. EntryInv'
    BY <1>e, <1>u, <2>1, <2>2 DEF EntryInv
  <2> QED
    BY <1>t, <2>2, <2>4, <2>5 DEF SuiteInv
<1>4. IssueRead => pc \in {"enqueue", "schedule"}
  BY DEF IssueRead
<1> QED
  BY <1>1, <1>2, <1>3, <1>4 DEF main

\* The service routine of aRead.
LEMMA AReadServes ==
  ASSUME SuiteInv, client = "aRead", interrupt_service_routine, UNCHANGED <<client, threads>>
  PROVE  SuiteInv'
<1>h. HandlerInv /\ KeepsInt /\ ClientTypes /\ frames \in Seq(Frame)
  BY DEF SuiteInv, HandlerInv, DiskTypes
<1>s. /\ {"isr", "dequeue", "callback", "add", "count", "delivered"} \subseteq Place
      /\ Serving = {"isr", "dequeue", "callback", "add", "count", "delivered"}
      /\ Fetching = {"deliver", "isr", "dequeue"}
  BY DEF Place, DiskPlace, Serving, Fetching
<1>u. UNCHANGED <<blockno, pc>>
  BY DEF interrupt_service_routine, LockQueue, queue_dequeue, handle_read, program
<1>0. Interrupted
  BY DEF interrupt_service_routine, LockQueue, queue_dequeue, handle_read, HandlerAt
<1>1. CASE LockQueue
  <2>1. ServedFrom("isr", "dequeue")
    BY <1>h, <1>0, <1>1, <1>s, GoToFrame DEF LockQueue, ServedFrom
  <2>2. ClientTypes' /\ pending_read_queue' = pending_read_queue
    BY <1>h, <1>1 DEF LockQueue, ClientTypes, totals, program, threads
  <2> QED
    BY <1>s, <1>u, <2>1, <2>2, RoutineKeepsEntries
<1>2. CASE queue_dequeue
  <2>1. ServedFrom("dequeue", "callback")
    BY <1>h, <1>0, <1>2, <1>s, GoToFrame DEF queue_dequeue, ServedFrom
  <2>2. pending_read_queue # <<>> /\ pending_read_queue' = Tail(pending_read_queue)
    BY <1>2 DEF queue_dequeue
  <2>3. pending_read_queue' \in Seq(Entry)
    BY <1>h, <2>2, HeadTailProperties DEF ClientTypes
  <2>4. ClientTypes'
    BY <1>h, <1>2, <2>3 DEF queue_dequeue, ClientTypes, totals, program, threads
  <2> QED
    BY <1>s, <1>u, <2>1, <2>2, <2>4, RoutineKeepsEntries
<1>3. CASE handle_read
  <2>0. /\ UNCHANGED <<disk, masked, isInterrupt, pending_read_queue, blockno>>
    BY <1>3 DEF handle_read, callbacks, program
  <2>1. CASE HandlerAt("callback")
    <3>i. /\ Len(frames) \in Nat \ {0} /\ Last(frames) = frames[Len(frames)]
          /\ frames[Len(frames)] \in Frame /\ frames[Len(frames)].pc = "callback"
      BY <1>h, <1>0, <2>1, Innermost DEF HandlerAt
    <3> DEFINE last == Len(frames)
               added == [frames[last] EXCEPT !.pc = "add", !.val = sum + buf[result]]
    <3>1. /\ frames' = [frames EXCEPT ![last].pc = "add", ![last].val = sum + buf[result]]
          /\ UNCHANGED totals
      BY <1>3, <2>1, <3>i DEF handle_read, HandlerAt
    <3>2. sum + buf[result] \in Int
      BY <1>h, ResultAssumption DEF HandlerInv, DiskTypes, ClientTypes
    <3>v. sum + buf[result] \in Value
      BY <3>2, Values, Zenon
    <3>3. added \in Frame /\ added.pc = "add" /\ added.val \in Int
      BY <1>s, <3>i, <3>2, <3>v DEF Frame
    <3>4. frames' = [frames EXCEPT ![last] = added]
      BY <3>i, <3>1
    <3> HIDE DEF added
    <3>5. ServedFrom("callback", "add")
      BY <2>0, <2>1, <3>3, <3>4 DEF ServedFrom
    <3>6. ClientTypes'
      BY <1>h, <2>0, <3>1 DEF ClientTypes, totals, threads
    <3> QED
      BY <1>s, <1>u, <2>0, <3>5, <3>6, RoutineKeepsEntries
  <2>2. CASE HandlerAt("add")
    <3>i. Last(frames) = frames[Len(frames)] /\ frames[Len(frames)].val \in Int
      <4>1. Len(frames) \in Nat \ {0} /\ Last(frames) = frames[Len(frames)]
        BY <1>h, <1>0, Innermost
      <4> QED
        BY <1>h, <4>1 DEF KeepsInt
    <3>1. GoTo("count") /\ sum' = Last(frames).val /\ counter' = counter
      BY <1>3, <2>2 DEF handle_read, HandlerAt
    <3>2. ServedFrom("add", "count")
      BY <1>h, <1>0, <1>s, <2>0, <2>2, <3>1, GoToFrame DEF ServedFrom
    <3>3. ClientTypes'
      BY <1>h, <2>0, <3>i, <3>1 DEF ClientTypes, threads
    <3> QED
      BY <1>s, <1>u, <2>0, <3>2, <3>3, RoutineKeepsEntries
  <2>3. CASE HandlerAt("count")
    <3>1. GoTo("delivered") /\ sum' = sum /\ counter' = counter + 1
      BY <1>3, <2>3 DEF handle_read, HandlerAt
    <3>2. ServedFrom("count", "delivered")
      BY <1>h, <1>0, <1>s, <2>0, <2>3, <3>1, GoToFrame DEF ServedFrom
    <3>3. ClientTypes'
      BY <1>h, <2>0, <3>1 DEF ClientTypes, threads
    <3> QED
      BY <1>s, <1>u, <2>0, <3>2, <3>3, RoutineKeepsEntries
  <2> QED
    BY <1>3, <2>1, <2>2, <2>3 DEF handle_read
<1> QED
  BY <1>1, <1>2, <1>3 DEF interrupt_service_routine

\* What the program and the routine of sRead do, in the words of Disk.
LEMMA SReadSteps ==
  /\ S!main =>
       /\ ~Interrupted /\ UNCHANGED <<frames, isInterrupt>>
       /\ disk_schedule_read(result, blockno) \/ UNCHANGED <<disk, signals>>
       /\ UNCHANGED counter \/ counter' = 1
       /\ UNCHANGED <<blockno, sum>> \/ (blockno' = blockno + 1 /\ sum' = sum + buf[result])
  /\ S!interrupt_service_routine =>
       /\ HandlerAt("isr") /\ GoTo("delivered") /\ counter' = 0
       /\ UNCHANGED <<disk, masked, isInterrupt, sum, blockno, pc>>
<1>1. S!disk = disk /\ S!signals = signals /\ S!disk' = disk' /\ S!signals' = signals'
  BY DEF S!disk, disk, S!signals, signals
<1>2. ASSUME S!main
      PROVE  /\ ~Interrupted /\ UNCHANGED <<frames, isInterrupt>>
             /\ disk_schedule_read(result, blockno) \/ UNCHANGED <<disk, signals>>
             /\ UNCHANGED counter \/ counter' = 1
             /\ UNCHANGED <<blockno, sum>> \/ (blockno' = blockno + 1 /\ sum' = sum + buf[result])
  <2>1. CASE S!ReadBlock
    BY <1>1, <2>1, StepsS DEF S!ReadBlock, disk_schedule_read, signals
  <2>2. CASE S!AddBlock
    BY <1>1, <2>2, StepsS DEF S!AddBlock, signals
  <2>3. CASE S!Finish
    BY <1>1, <2>3, StepsS DEF S!Finish, signals
  <2> QED
    BY <1>2, <2>1, <2>2, <2>3 DEF S!main
<1> QED
  BY <1>1, <1>2, StepsS DEF S!interrupt_service_routine

\* sRead has no queue; its steps keep what is common to all.
LEMMA SReadKeepsEntries ==
  ASSUME SuiteInv, client = "sRead", S!main, UNCHANGED <<client, threads, callbacks>>
  PROVE  SuiteInv'
<1>h. HandlerInv /\ ClientTypes /\ KeepsInt /\ buf[result] \in Int
  BY ResultAssumption DEF SuiteInv, HandlerInv, DiskTypes
<1>1. HandlerInv' /\ KeepsInt'
  <2>1. CASE disk_schedule_read(result, blockno)
    BY <1>h, <2>1, Scheduled, SameKept, ResultAssumption DEF ClientTypes, disk_schedule_read
  <2>2. CASE UNCHANGED <<disk, signals>>
    BY <1>h, <2>2, SReadSteps, WentOn, SameKept DEF signals
  <2> QED
    BY <2>1, <2>2, SReadSteps
<1>2. ClientTypes'
  BY <1>h, SReadSteps DEF ClientTypes, threads, callbacks
<1> QED
  BY <1>1, <1>2 DEF SuiteInv, EntryInv, ThreadTypes

\* The service routine of sRead.
LEMMA SReadServes ==
  ASSUME SuiteInv, client = "sRead", S!interrupt_service_routine, UNCHANGED <<client, threads, callbacks>>
  PROVE  SuiteInv'
<1>h. HandlerInv /\ ClientTypes /\ KeepsInt
  BY DEF SuiteInv
<1>0. Interrupted
  BY SReadSteps DEF HandlerAt
<1>1. ServedFrom("isr", "delivered")
  BY <1>h, <1>0, SReadSteps, GoToFrame DEF ServedFrom, Place, DiskPlace
<1>2. HandlerInv' /\ KeepsInt'
  BY <1>h, <1>1, Served DEF Serving
<1>3. ClientTypes'
  BY <1>h, SReadSteps DEF ClientTypes, threads, callbacks
<1> QED
  BY <1>2, <1>3 DEF SuiteInv, EntryInv, ThreadTypes

\* The program may queue an entry, with its read still to be scheduled.
LEMMA QueueKeepsEntries ==
  ASSUME SuiteInv, client # "sRead", ~Unread, Unread', UNCHANGED client, NEW e \in Entry,
         ~Interrupted, MaskAfterUnlock, UNCHANGED <<disk, isInterrupt, frames>>,
         pending_read_queue' = Append(pending_read_queue, e),
         UNCHANGED <<sum, counter, blockno, arg>>, ThreadTypes'
  PROVE  SuiteInv'
<1>h. HandlerInv /\ ClientTypes /\ KeepsInt /\ Underway \in Nat /\ Len(prq) \in Nat
  BY UnderwayNat DEF SuiteInv
<1>1. HandlerInv' /\ KeepsInt' /\ Underway' = Underway /\ prq' = prq
  BY <1>h, WentOn, SameKept DEF disk
<1>2. /\ pending_read_queue' \in Seq(Entry) /\ Len(pending_read_queue) \in Nat
      /\ Len(pending_read_queue') = Len(pending_read_queue) + 1
  BY Enqueues
<1>3. ClientTypes'
  BY <1>h, <1>2 DEF ClientTypes
<1>4. Len(pending_read_queue) = Len(prq) + Underway
  BY <1>h DEF SuiteInv, EntryInv
<1>5. EntryInv'
  BY <1>h, <1>1, <1>2, <1>4 DEF EntryInv
<1> QED
  BY <1>1, <1>3, <1>5 DEF SuiteInv

\* It then schedules the read.
LEMMA ReadKeepsEntries ==
  ASSUME SuiteInv, client # "sRead", Unread, ~Unread', UNCHANGED <<client, pending_read_queue>>,
         NEW b \in Buffer, NEW n \in Int, disk_schedule_read(b, n),
         UNCHANGED <<sum, counter, blockno, arg>>, ThreadTypes'
  PROVE  SuiteInv'
<1>h. HandlerInv /\ ClientTypes /\ KeepsInt /\ Underway \in Nat /\ Len(prq) \in Nat
  BY UnderwayNat DEF SuiteInv
<1>1. HandlerInv' /\ KeepsInt' /\ Underway' = Underway /\ Len(prq') = Len(prq) + 1
  BY <1>h, Scheduled, SameKept DEF disk_schedule_read
<1>3. ClientTypes'
  BY <1>h DEF ClientTypes
<1>4. Len(pending_read_queue) = Len(prq) + Underway + 1
  BY <1>h DEF SuiteInv, EntryInv
<1>5. EntryInv'
  BY <1>h, <1>1, <1>4 DEF EntryInv
<1> QED
  BY <1>1, <1>3, <1>5 DEF SuiteInv

\* Or it does something else.
LEMMA OtherKeepsEntries ==
  ASSUME SuiteInv, Unread' <=> Unread, UNCHANGED <<client, pending_read_queue>>,
         ~Interrupted, UNCHANGED <<disk, isInterrupt, frames>>,
         masked' = masked \/ MaskAfterUnlock \/ masked' = TRUE,
         ClientTypes', ThreadTypes'
  PROVE  SuiteInv'
<1>h. HandlerInv /\ KeepsInt
  BY DEF SuiteInv
<1>1. HandlerInv' /\ KeepsInt' /\ Underway' = Underway /\ prq' = prq
  BY <1>h, WentOn, SameKept DEF disk
<1>5. EntryInv'
  BY <1>1 DEF SuiteInv, EntryInv
<1> QED
  BY <1>1, <1>5 DEF SuiteInv

\* What the steps of treasureHunt do, in the words of Disk.
LEMMA HuntSteps ==
  /\ H!ReadFirst =>
       /\ UNCHANGED <<arg, sum, counter, blockno>>
       /\ \/ /\ pc = "first" /\ pc' = "first_read"
             /\ ~Interrupted /\ MaskAfterUnlock /\ UNCHANGED <<disk, isInterrupt, frames>>
             /\ pending_read_queue' = Append(pending_read_queue, "handleFirstRead")
          \/ /\ pc = "first_read" /\ pc' = "count"
             /\ disk_schedule_read(result, arg) /\ UNCHANGED pending_read_queue
  /\ H!ReadOther =>
       /\ UNCHANGED <<arg, sum, counter, blockno>> /\ blockno < sum
       /\ \/ /\ pc = "hunt" /\ pc' = "schedule"
             /\ ~Interrupted /\ MaskAfterUnlock /\ UNCHANGED <<disk, isInterrupt, frames>>
             /\ pending_read_queue' = Append(pending_read_queue, "handleOtherReads")
          \/ /\ pc = "schedule" /\ pc' = "wait"
             /\ disk_schedule_read(result, buf[result]) /\ UNCHANGED pending_read_queue
  /\ H!Poll =>
       /\ ~Interrupted /\ UNCHANGED <<disk, signals, pending_read_queue, arg, sum, counter>>
       /\ \/ pc = "count" /\ sum # 0 /\ pc' = "hunt" /\ UNCHANGED blockno
          \/ pc = "wait" /\ counter # blockno /\ pc' = "hunt" /\ blockno' = blockno + 1
          \/ pc = "hunt" /\ blockno >= sum /\ pc' = "end" /\ UNCHANGED blockno
  /\ H!queue_dequeue =>
       /\ HandlerAt("dequeue") /\ MaskAfterUnlock /\ pending_read_queue # <<>>
       /\ pending_read_queue' = Tail(pending_read_queue)
       /\ frames' = [frames EXCEPT ![Len(frames)].pc = "callback",
                                   ![Len(frames)].val = Head(pending_read_queue)]
       /\ UNCHANGED <<disk, isInterrupt>>
  /\ H!callback =>
       /\ HandlerAt("callback") /\ GoTo("delivered")
       /\ \/ Last(frames).val = "handleFirstRead" /\ sum' = buf[result] /\ UNCHANGED counter
          \/ Last(frames).val = "handleOtherReads" /\ counter' = counter + 1 /\ UNCHANGED sum
       /\ UNCHANGED <<disk, masked, isInterrupt, pending_read_queue, arg, blockno, pc>>
<1>1. H!disk = disk /\ H!signals = signals /\ H!disk' = disk' /\ H!signals' = signals'
  BY DEF H!disk, disk, H!signals, signals
<1>2. H!ReadFirst =>
       /\ UNCHANGED <<arg, sum, counter, blockno>>
       /\ \/ /\ pc = "first" /\ pc' = "first_read"
             /\ ~Interrupted /\ MaskAfterUnlock /\ UNCHANGED <<disk, isInterrupt, frames>>
             /\ pending_read_queue' = Append(pending_read_queue, "handleFirstRead")
          \/ /\ pc = "first_read" /\ pc' = "count"
             /\ disk_schedule_read(result, arg) /\ UNCHANGED pending_read_queue
  BY StepsH DEF H!ReadFirst, H!queue
<1>3. H!ReadOther =>
       /\ UNCHANGED <<arg, sum, counter, blockno>> /\ blockno < sum
       /\ \/ /\ pc = "hunt" /\ pc' = "schedule"
             /\ ~Interrupted /\ MaskAfterUnlock /\ UNCHANGED <<disk, isInterrupt, frames>>
             /\ pending_read_queue' = Append(pending_read_queue, "handleOtherReads")
          \/ /\ pc = "schedule" /\ pc' = "wait"
             /\ disk_schedule_read(result, buf[result]) /\ UNCHANGED pending_read_queue
  BY StepsH DEF H!ReadOther, H!queue
<1>4. H!Poll =>
       /\ ~Interrupted /\ UNCHANGED <<disk, signals, pending_read_queue, arg, sum, counter>>
       /\ \/ pc = "count" /\ sum # 0 /\ pc' = "hunt" /\ UNCHANGED blockno
          \/ pc = "wait" /\ counter # blockno /\ pc' = "hunt" /\ blockno' = blockno + 1
          \/ pc = "hunt" /\ blockno >= sum /\ pc' = "end" /\ UNCHANGED blockno
  BY <1>1, StepsH DEF H!Poll, H!queue, H!Arrived
<1>5. H!queue_dequeue =>
       /\ HandlerAt("dequeue") /\ MaskAfterUnlock /\ pending_read_queue # <<>>
       /\ pending_read_queue' = Tail(pending_read_queue)
       /\ frames' = [frames EXCEPT ![Len(frames)].pc = "callback",
                                   ![Len(frames)].val = Head(pending_read_queue)]
       /\ UNCHANGED <<disk, isInterrupt>>
  BY <1>1, StepsH DEF H!queue_dequeue, H!MaskAfterUnlock, MaskAfterUnlock
<1>6. H!callback =>
       /\ HandlerAt("callback") /\ GoTo("delivered")
       /\ \/ Last(frames).val = "handleFirstRead" /\ sum' = buf[result] /\ UNCHANGED counter
          \/ Last(frames).val = "handleOtherReads" /\ counter' = counter + 1 /\ UNCHANGED sum
       /\ UNCHANGED <<disk, masked, isInterrupt, pending_read_queue, arg, blockno, pc>>
  BY <1>1, StepsH DEF H!callback, H!queue
<1> QED
  BY <1>2, <1>3, <1>4, <1>5, <1>6

\* An entry is taken from the queue into the frame.
LEMMA DequeueServes ==
  ASSUME SuiteInv, client # "aRead", HandlerAt("dequeue"), MaskAfterUnlock, pending_read_queue # <<>>,
         frames' = [frames EXCEPT ![Len(frames)].pc = "callback",
                                  ![Len(frames)].val = Head(pending_read_queue)],
         UNCHANGED <<disk, isInterrupt>>
  PROVE  /\ ServedFrom("dequeue", "callback")
         /\ Head(pending_read_queue) \in Entry
         /\ Tail(pending_read_queue) \in Seq(Entry)
         /\ frames'[Len(frames)].val = Head(pending_read_queue)
         /\ frames'[Len(frames)].pc = "callback"
<1>h. frames \in Seq(Frame) /\ pending_read_queue \in Seq(Entry)
  BY DEF SuiteInv, HandlerInv, DiskTypes, ClientTypes
<1>1. Head(pending_read_queue) \in Entry /\ Tail(pending_read_queue) \in Seq(Entry)
  BY <1>h, HeadTailProperties
<1>2. Head(pending_read_queue) \in Value
  BY <1>1, Values, Zenon
<1> DEFINE last == Len(frames)
           e == Head(pending_read_queue)
           frame == [frames[last] EXCEPT !.pc = "callback", !.val = e]
<1>3. last \in Nat \ {0} /\ frames[last] \in Frame
  BY <1>h, Innermost DEF HandlerAt
<1>4. frames' = [frames EXCEPT ![last].pc = "callback", ![last].val = e]
  OBVIOUS
<1>e. e \in Value
  BY <1>2
<1> HIDE DEF e
<1>5. frame \in Frame /\ frame.pc = "callback" /\ frame.val = e
  BY <1>3, <1>e DEF Frame, Place
<1>6. frames' = [frames EXCEPT ![last] = frame]
  BY <1>h, <1>3, <1>4
<1> HIDE DEF frame
<1>7. frames'[last] = frame
  <2>1. Interrupted
    BY DEF HandlerAt
  <2> QED
    BY <1>h, <1>5, <1>6, <2>1, Changed
<1> QED
  BY <1>1, <1>5, <1>6, <1>7 DEF ServedFrom, e

\* Steps of treasureHunt.
LEMMA HuntKeepsEntries ==
  ASSUME SuiteInv, client = "treasureHunt", H!main, UNCHANGED <<client, threads>>
  PROVE  SuiteInv'
<1>h. /\ ClientTypes /\ ThreadTypes' /\ UNCHANGED arg
      /\ buf[result] \in Int /\ arg \in Int /\ result \in Buffer
  BY ResultAssumption DEF SuiteInv, HandlerInv, DiskTypes, ClientTypes, ThreadTypes, threads
<1>u. /\ Unread <=> pc \in {"first_read", "schedule"}
      /\ Unread' <=> pc' \in {"first_read", "schedule"}
  BY DEF Unread
<1>1. CASE H!ReadFirst
  BY <1>h, <1>u, <1>1, HuntSteps, QueueKeepsEntries, ReadKeepsEntries DEF Entry
<1>2. CASE H!ReadOther
  BY <1>h, <1>u, <1>2, HuntSteps, QueueKeepsEntries, ReadKeepsEntries DEF Entry
<1>3. CASE H!Poll
  <2>1. ClientTypes'
    BY <1>h, <1>3, HuntSteps DEF ClientTypes
  <2> QED
    BY <1>h, <1>u, <1>3, <2>1, HuntSteps, OtherKeepsEntries DEF signals
<1> QED
  BY <1>1, <1>2, <1>3 DEF H!main

\* The service routine of treasureHunt.
LEMMA HuntServes ==
  ASSUME SuiteInv, client = "treasureHunt", UNCHANGED <<client, threads>>,
         H!callback \/ ((H!LockQueue \/ H!queue_dequeue) /\ UNCHANGED H!own)
  PROVE  SuiteInv'
<1>h. HandlerInv /\ KeepsInt /\ ClientTypes /\ buf[result] \in Int /\ UNCHANGED arg
  BY ResultAssumption DEF SuiteInv, HandlerInv, DiskTypes, threads
<1>s. /\ {"isr", "dequeue", "callback", "delivered"} \subseteq Place
      /\ Serving = {"isr", "dequeue", "callback", "add", "count", "delivered"}
      /\ Fetching = {"deliver", "isr", "dequeue"}
  BY DEF Place, DiskPlace, Serving, Fetching
<1>1. CASE H!callback
  <2>1. ServedFrom("callback", "delivered")
    BY <1>h, <1>s, <1>1, HuntSteps, GoToFrame DEF ServedFrom, HandlerAt
  <2>2. ClientTypes'
    BY <1>h, <1>1, HuntSteps DEF ClientTypes
  <2> QED
    BY <1>s, <1>1, <2>1, <2>2, HuntSteps, RoutineKeepsEntries
<1>2. CASE H!LockQueue /\ UNCHANGED H!own
  <2>0. UNCHANGED <<sum, counter, blockno, pc>>
    BY <1>2 DEF H!own
  <2>1. ServedFrom("isr", "dequeue") /\ UNCHANGED pending_read_queue
    BY <1>h, <1>s, <1>2, StepsH, GoToFrame DEF ServedFrom, HandlerAt
  <2>2. ClientTypes'
    BY <1>h, <2>0, <2>1 DEF ClientTypes
  <2> QED
    BY <1>s, <2>0, <2>1, <2>2, RoutineKeepsEntries
<1>3. CASE H!queue_dequeue /\ UNCHANGED H!own
  <2>0. UNCHANGED <<sum, counter, blockno, pc>>
    BY <1>3 DEF H!own
  <2>1. ServedFrom("dequeue", "callback") /\ Tail(pending_read_queue) \in Seq(Entry)
    BY <1>3, HuntSteps, DequeueServes
  <2>2. pending_read_queue # <<>> /\ pending_read_queue' = Tail(pending_read_queue)
    BY <1>3, HuntSteps
  <2>3. ClientTypes'
    BY <1>h, <2>0, <2>1, <2>2 DEF ClientTypes
  <2> QED
    BY <1>s, <2>0, <2>1, <2>2, <2>3, RoutineKeepsEntries
<1> QED
  BY <1>1, <1>2, <1>3

(***************************************************************************)
(* The threads of tRead                                                    *)
(***************************************************************************)
\* The running thread is at a place, and goes to another.
Turn(from, where) ==
  /\ place[self] = from /\ place' = [place EXCEPT ![self] = where]
  /\ ~Interrupted /\ place["main"] # "end"

\* A step of a thread that leaves disk and queue alone.
ThreadsOnly == MaskAfterUnlock /\ UNCHANGED <<disk, isInterrupt, frames, pending_read_queue>>

StopStep(from, becomes, where) ==
  /\ Turn(from, where) /\ ThreadsOnly /\ UNCHANGED <<joiner, sum, arg>>
  /\ ready_queue # <<>> /\ ready_queue' = Tail(ready_queue) /\ self' = Head(ready_queue)
  /\ state' = [state EXCEPT ![self] = becomes, ![Head(ready_queue)] = "RUNNING"]

Makes(t) == ready_queue' = uthread_enqueue(ready_queue, t)

\* The thread of a block queues its entry, schedules its read and adds the block.
QueueStep(t) ==
  /\ self = t /\ Turn("queue", "schedule")
  /\ MaskAfterUnlock /\ UNCHANGED <<disk, isInterrupt, frames>>
  /\ pending_read_queue' = Append(pending_read_queue, t)
  /\ UNCHANGED <<ready_queue, self, state, joiner, sum, arg>>
ScheduleStep(t, n) ==
  /\ self = t /\ Turn("schedule", "block") /\ disk_schedule_read(t, n)
  /\ UNCHANGED <<pending_read_queue, ready_queue, self, state, joiner, sum, arg>>
AddStep(t) ==
  /\ self = t /\ Turn("add", "dying") /\ ThreadsOnly
  /\ sum' = sum + buf[t] /\ state' = [state EXCEPT ![t] = "DYING"]
  /\ IF joiner[t] = "none" THEN UNCHANGED ready_queue ELSE Makes(joiner[t])
  /\ UNCHANGED <<self, joiner, arg>>

\* The steps of main.
CreateStep ==
  /\ self = "main" /\ place["main"] = "create" /\ arg < Len(reader) /\ UNCHANGED place
  /\ Makes(reader[arg + 1]) /\ arg' = arg + 1
  /\ ~Interrupted /\ ThreadsOnly /\ UNCHANGED <<self, state, joiner, sum>>
CreatedStep ==
  /\ self = "main" /\ Turn("create", "join") /\ arg' = 0
  /\ ThreadsOnly /\ UNCHANGED <<ready_queue, self, state, joiner, sum>>
JoinStep ==
  /\ self = "main" /\ Turn("join", "joining") /\ arg < Len(reader)
  /\ joiner' = [joiner EXCEPT ![reader[arg + 1]] = "main"]
  /\ ThreadsOnly /\ UNCHANGED <<ready_queue, self, state, sum, arg>>
CollectStep ==
  /\ self = "main"
  /\ Turn("collect", "join")
       \/ (Turn("join", "join") /\ arg < Len(reader) /\ state[reader[arg + 1]] \in {"DYING", "DEAD"})
  /\ state' = [state EXCEPT ![reader[arg + 1]] = "FREED"] /\ arg' = arg + 1
  /\ masked' = TRUE /\ UNCHANGED <<disk, isInterrupt, frames, pending_read_queue>>
  /\ UNCHANGED <<ready_queue, self, joiner, sum>>
EndStep ==
  /\ self = "main" /\ Turn("join", "end") /\ arg = Len(reader)
  /\ UNCHANGED <<disk, signals, pending_read_queue, ready_queue, self, state, joiner, sum, arg>>

YieldStep ==
  /\ self = "base" /\ Turn("loop", "yielding") /\ Makes("base")
  /\ ThreadsOnly /\ UNCHANGED <<self, state, joiner, sum, arg>>

StopSome ==
  \/ StopStep("yielding", "RUNABLE", "loop")
  \/ StopStep("block", "BLOCKED", "add")
  \/ StopStep("joining", "BLOCKED", "collect")
  \/ StopStep("dying", "DEAD", "gone")
ReadSome(t) ==
  \/ QueueStep(t)
  \/ AddStep(t)
  \/ \E n \in DOMAIN reader : reader[n] = t /\ ScheduleStep(t, n - 1)
MainSome == CreateStep \/ CreatedStep \/ JoinStep \/ CollectStep \/ EndStep
ThreadStep == StopSome \/ (\E t \in Threads : ReadSome(t)) \/ MainSome \/ YieldStep

\* The queue of SoloUThread is a queue of uthread_enqueue.
LEMMA EnqueueSame ==
  ASSUME ready_queue \in Seq(Threads)
  PROVE  \A t : T!T!ready_queue_enqueue(t) <=> Makes(t)
<1>1. \A t : T!T!Contains(ready_queue, t) <=> t \in Queued(ready_queue)
  <2>1. DOMAIN ready_queue = 1 .. Len(ready_queue)
    OBVIOUS
  <2> QED
    BY <2>1 DEF T!T!Contains, Queued
<1> QED
  BY <1>1 DEF T!T!ready_queue_enqueue, Makes, uthread_enqueue

\* The steps of the threads are these.
LEMMA StopSteps ==
  ASSUME NEW t \in Threads, T!Stop(t)
  PROVE  StopSome
<1>1. /\ \A s : T!T!uthread_stop(s) =>
            /\ ready_queue # <<>> /\ ready_queue' = Tail(ready_queue) /\ self' = Head(ready_queue)
            /\ state' = [state EXCEPT ![self] = IF s = "DYING" THEN "DEAD" ELSE s,
                                      ![Head(ready_queue)] = "RUNNING"]
            /\ UNCHANGED joiner
  BY DEF T!T!uthread_stop
<1>2. T!OnlyThreads => ThreadsOnly
  BY DEF T!OnlyThreads, ThreadsOnly, T!queue, T!MaskAfterUnlock, MaskAfterUnlock, T!disk, disk
<1>3. \A w1, w2 : T!At(t, w1) /\ T!Leave(w2) => self = t /\ Turn(w1, w2)
  BY StepsT DEF T!At, T!Leave, Turn
<1>4. /\ T!OnlyThreads /\ UNCHANGED <<sum, arg>>
      /\ \/ T!At(t, "yielding") /\ T!T!uthread_stop("RUNABLE") /\ T!Leave("loop")
         \/ T!At(t, "block") /\ T!T!uthread_stop("BLOCKED") /\ T!Leave("add")
         \/ T!At(t, "joining") /\ T!T!uthread_stop("BLOCKED") /\ T!Leave("collect")
         \/ T!At(t, "dying") /\ T!T!uthread_stop("DYING") /\ T!Leave("gone")
  BY DEF T!Stop
<1>5. CASE T!At(t, "yielding") /\ T!T!uthread_stop("RUNABLE") /\ T!Leave("loop")
  BY <1>1, <1>2, <1>3, <1>4, <1>5 DEF StopSome, StopStep
<1>6. CASE T!At(t, "block") /\ T!T!uthread_stop("BLOCKED") /\ T!Leave("add")
  BY <1>1, <1>2, <1>3, <1>4, <1>6 DEF StopSome, StopStep
<1>7. CASE T!At(t, "joining") /\ T!T!uthread_stop("BLOCKED") /\ T!Leave("collect")
  BY <1>1, <1>2, <1>3, <1>4, <1>7 DEF StopSome, StopStep
<1>8. CASE T!At(t, "dying") /\ T!T!uthread_stop("DYING") /\ T!Leave("gone")
  BY <1>1, <1>2, <1>3, <1>4, <1>8 DEF StopSome, StopStep
<1> QED
  BY <1>4, <1>5, <1>6, <1>7, <1>8 DEF StopSome

\* Those of read_block.
LEMMA BlockSteps ==
  ASSUME ready_queue \in Seq(Threads), NEW t \in Threads, T!read_block(t)
  PROVE  ReadSome(t)
<1>2. T!OnlyThreads => ThreadsOnly
  BY DEF T!OnlyThreads, ThreadsOnly, T!queue, T!MaskAfterUnlock, MaskAfterUnlock, T!disk, disk
<1>3. \A w1, w2 : T!At(t, w1) /\ T!Leave(w2) => self = t /\ Turn(w1, w2)
  BY StepsT DEF T!At, T!Leave, Turn
<1>4. CASE T!At(t, "queue") /\ T!queue_enqueue(t) /\ T!Leave("schedule") /\ UNCHANGED <<T!sched, sum, arg>>
  BY <1>3, <1>4, StepsT DEF ReadSome, QueueStep, T!sched
<1>5. CASE /\ T!At(t, "schedule") /\ \E n \in DOMAIN reader : reader[n] = t /\ T!disk_schedule_read(t, n - 1)
           /\ T!Leave("block") /\ UNCHANGED <<T!queue, T!sched, sum, arg>>
  <2>1. UNCHANGED <<pending_read_queue, ready_queue, self, state, joiner, sum, arg>>
    BY <1>5 DEF T!queue, T!sched
  <2> QED
    BY <1>3, <1>5, <2>1, StepsT DEF ReadSome, ScheduleStep
<1>6. CASE /\ T!At(t, "add") /\ sum' = sum + buf[t] /\ T!T!exit /\ T!Leave("dying")
           /\ T!OnlyThreads /\ UNCHANGED arg
  BY <1>2, <1>3, <1>6, EnqueueSame DEF ReadSome, AddStep, T!T!exit
<1> QED
  BY <1>4, <1>5, <1>6 DEF T!read_block, ReadSome

\* Those of main and of the thread that yields.
LEMMA MainSteps ==
  ASSUME ready_queue \in Seq(Threads), T!main \/ T!base
  PROVE  MainSome \/ YieldStep
<1>2. T!OnlyThreads => ThreadsOnly
  BY DEF T!OnlyThreads, ThreadsOnly, T!queue, T!MaskAfterUnlock, MaskAfterUnlock, T!disk, disk
<1>3. \A t, w1, w2 : T!At(t, w1) /\ T!Leave(w2) => self = t /\ Turn(w1, w2)
  BY StepsT DEF T!At, T!Leave, Turn
<1>b. T!blocks = Len(reader)
  BY Readers DEF T!blocks
<1>4. CASE T!base
  BY <1>2, <1>3, <1>4, EnqueueSame DEF T!base, YieldStep, T!T!yield
<1>5. CASE T!Join
  BY <1>2, <1>3, <1>5, <1>b DEF MainSome, T!Join, JoinStep, T!T!BeJoiner
<1>6. CASE T!Collect
  <2>1. /\ T!T!uthread_free(reader[arg + 1]) /\ masked' = TRUE /\ T!Leave("join") /\ arg' = arg + 1
        /\ UNCHANGED <<disk, isInterrupt, frames, pending_read_queue, sum>>
    BY <1>6 DEF T!Collect, T!disk, disk, T!queue
  <2>2. T!At("main", "collect")
          \/ (T!At("main", "join") /\ arg < Len(reader) /\ state[reader[arg + 1]] \in {"DYING", "DEAD"})
    BY <1>6, <1>b DEF T!Collect, T!T!MustJoin
  <2> QED
    BY <1>3, <2>1, <2>2 DEF MainSome, CollectStep, T!T!uthread_free
<1>7. CASE /\ T!At("main", "create")
           /\ IF arg < T!blocks THEN T!T!uthread_create(reader[arg + 1]) /\ arg' = arg + 1 /\ UNCHANGED place
                                ELSE arg' = 0 /\ T!Leave("join") /\ UNCHANGED T!sched
           /\ T!OnlyThreads /\ UNCHANGED sum
  <2>1. CASE arg < T!blocks
    BY <1>2, <1>7, <1>b, <2>1, EnqueueSame, StepsT DEF MainSome, CreateStep, T!T!uthread_create, T!At
  <2>2. CASE ~(arg < T!blocks)
    BY <1>2, <1>3, <1>7, <2>2 DEF MainSome, CreatedStep, T!sched
  <2> QED
    BY <2>1, <2>2
<1>8. CASE /\ T!At("main", "join") /\ arg = T!blocks /\ T!Leave("end")
           /\ UNCHANGED <<T!disk, T!signals, T!queue, T!sched, sum, arg>>
  BY <1>3, <1>8, <1>b DEF MainSome, EndStep, T!disk, disk, T!signals, signals, T!queue, T!sched
<1> QED
  BY <1>4, <1>5, <1>6, <1>7, <1>8 DEF T!main, MainSome

\* All of them.
LEMMA ThreadSteps == ASSUME ready_queue \in Seq(Threads), T!program PROVE ThreadStep
<1>1. T!T!Thread = Threads
  BY Readers DEF Threads
<1> QED
  BY <1>1, StopSteps, BlockSteps, MainSteps DEF T!program, ThreadStep

\* What the steps do to the queue of threads.
LEMMA MakesSet ==
  ASSUME ready_queue \in Seq(Threads), NEW t \in Threads, Makes(t)
  PROVE  /\ ready_queue' \in Seq(Threads)
         /\ Queued(ready_queue') = Queued(ready_queue) \cup {t}
         /\ NoDuplicates(ready_queue) => NoDuplicates(ready_queue')
BY EnqueueType, EnqueueSet, EnqueueNoDuplicates DEF Makes

\* And the one that takes a thread from it.
LEMMA TakesSet ==
  ASSUME ready_queue \in Seq(Threads), ready_queue # <<>>, ready_queue' = Tail(ready_queue)
  PROVE  /\ ready_queue' \in Seq(Threads) /\ Head(ready_queue) \in Threads
         /\ Head(ready_queue) \in Queued(ready_queue)
         /\ Queued(ready_queue') \subseteq Queued(ready_queue)
         /\ Queued(ready_queue) \subseteq Queued(ready_queue') \cup {Head(ready_queue)}
         /\ NoDuplicates(ready_queue) =>
              NoDuplicates(ready_queue') /\ Head(ready_queue) \notin Queued(ready_queue')
<1>1. /\ ready_queue' \in Seq(Threads) /\ Head(ready_queue) \in Threads
      /\ Len(ready_queue) \in Nat \ {0} /\ Len(ready_queue') = Len(ready_queue) - 1
      /\ Head(ready_queue) = ready_queue[1]
      /\ \A n \in 1 .. Len(ready_queue) - 1 : ready_queue'[n] = ready_queue[n + 1]
      /\ DOMAIN ready_queue = 1 .. Len(ready_queue)
      /\ DOMAIN ready_queue' = 1 .. Len(ready_queue) - 1
  BY HeadTailProperties
<1>2. Head(ready_queue) \in Queued(ready_queue)
  BY <1>1 DEF Queued
<1>3. Queued(ready_queue') \subseteq Queued(ready_queue)
  <2>1. \A n \in 1 .. Len(ready_queue) - 1 : n + 1 \in 1 .. Len(ready_queue)
    BY <1>1
  <2> QED
    BY <1>1, <2>1 DEF Queued
<1>4. Queued(ready_queue) \subseteq Queued(ready_queue') \cup {Head(ready_queue)}
  <2>1. ASSUME NEW n \in 1 .. Len(ready_queue), n # 1
        PROVE  ready_queue[n] \in Queued(ready_queue')
    <3>1. n - 1 \in 1 .. Len(ready_queue) - 1 /\ (n - 1) + 1 = n
      BY <1>1, <2>1
    <3>2. ready_queue'[n - 1] = ready_queue[n]
      BY <1>1, <3>1
    <3> QED
      BY <1>1, <3>1, <3>2 DEF Queued
  <2>2. ASSUME NEW x \in Queued(ready_queue)
        PROVE  x \in Queued(ready_queue') \cup {Head(ready_queue)}
    <3>1. PICK n \in 1 .. Len(ready_queue) : x = ready_queue[n]
      BY <1>1 DEF Queued
    <3> QED
      BY <1>1, <2>1, <3>1
  <2> QED
    BY <2>2
<1>5. NoDuplicates(ready_queue) =>
        NoDuplicates(ready_queue') /\ Head(ready_queue) \notin Queued(ready_queue')
  <2>1. CASE NoDuplicates(ready_queue)
    <3>1. uthread_dequeue(ready_queue) = {Head(ready_queue)} /\ Dequeued(ready_queue) = ready_queue'
      BY DEF uthread_dequeue, Dequeued
    <3> QED
      BY <2>1, <3>1, DequeueSet
  <2> QED
    BY <2>1
<1> QED
  BY <1>1, <1>2, <1>3, <1>4, <1>5

\* Two places of one thread.
SameLoop(from, where) ==
  \E loop \in {Reading, Joining, {"loop", "yielding"}} : from \in loop /\ where \in loop

\* The types of threads are kept.
LEMMA TReadTypes ==
  ASSUME SuiteInv, client = "tRead", UNCHANGED client, ThreadStep
  PROVE  ThreadTypes'
<1>t. /\ ready_queue \in Seq(Threads) /\ self \in Threads
      /\ place \in [Threads -> Reading \cup Joining \cup {"loop", "yielding"}]
      /\ \A x \in ReadThreads : place[x] \in Reading
      /\ place["main"] \in Joining /\ place["base"] \in {"loop", "yielding"}
      /\ state \in [Threads -> State] /\ joiner \in [Threads -> Threads \cup {"none"}]
      /\ \A x \in Threads : place[x] \in Held => self = x
  BY DEF SuiteInv, ThreadTypes
<1>a. arg \in 0 .. Len(reader) /\ (place["main"] \in {"joining", "collect"} => arg < Len(reader))
  BY DEF SuiteInv, ThreadTypes
<1>c. client' = "tRead"
  OBVIOUS
<1>r. arg < Len(reader) => reader[arg + 1] \in Threads
  BY <1>a, Readers
<1>l. /\ SameLoop("yielding", "loop") /\ SameLoop("loop", "yielding")
      /\ SameLoop("block", "add") /\ SameLoop("dying", "gone") /\ SameLoop("queue", "schedule")
      /\ SameLoop("schedule", "block") /\ SameLoop("add", "dying")
      /\ SameLoop("joining", "collect") /\ SameLoop("create", "join") /\ SameLoop("join", "joining")
      /\ SameLoop("collect", "join") /\ SameLoop("join", "join") /\ SameLoop("join", "end")
  BY DEF SameLoop, Reading, Joining
<1>m. /\ "loop" \notin Held /\ "add" \notin Held /\ "collect" \notin Held /\ "gone" \notin Held
      /\ "yielding" \in Held /\ "block" \in Held /\ "joining" \in Held /\ "dying" \in Held
      /\ "RUNABLE" \in State /\ "BLOCKED" \in State /\ "DEAD" \in State
  BY DEF Held, State
<1>p. ASSUME NEW from, NEW where, Turn(from, where),
             SameLoop(from, where)
      PROVE  /\ place' \in [Threads -> Reading \cup Joining \cup {"loop", "yielding"}]
             /\ \A x \in ReadThreads : place'[x] \in Reading
             /\ place'["main"] \in Joining /\ place'["base"] \in {"loop", "yielding"}
             /\ \A x \in Threads : x # self => place'[x] = place[x]
             /\ place'[self] = where
  <2>0. /\ place' = [place EXCEPT ![self] = where] /\ place[self] = from /\ self \in Threads
    BY <1>t, <1>p DEF Turn
  <2>1. PICK loop \in {Reading, Joining, {"loop", "yielding"}} : from \in loop /\ where \in loop
    BY <1>p DEF SameLoop
  <2>2. loop = Reading \/ loop = Joining \/ loop = {"loop", "yielding"}
    BY <2>1
  <2>3. where \in Reading \cup Joining \cup {"loop", "yielding"}
    BY <2>1, <2>2
  <2>4. CASE loop = Reading
    BY <1>t, <2>0, <2>1, <2>4 DEF Threads, Reading, Joining
  <2>5. CASE loop = Joining
    BY <1>t, <2>0, <2>1, <2>5 DEF Threads, Reading, Joining
  <2>6. CASE loop = {"loop", "yielding"}
    BY <1>t, <2>0, <2>1, <2>6 DEF Threads, Reading, Joining
  <2> QED
    BY <2>2, <2>4, <2>5, <2>6
<1>1. ASSUME NEW from, NEW becomes \in State, NEW where, StopStep(from, becomes, where),
             SameLoop(from, where),
             where \notin Held, from \in Held, where = "collect" => from = "joining"
      PROVE  ThreadTypes'
  <2>1. ready_queue' \in Seq(Threads) /\ Head(ready_queue) \in Threads /\ self' = Head(ready_queue)
    BY <1>t, <1>1, TakesSet DEF StopStep
  <2>2. state' \in [Threads -> State] /\ joiner' = joiner
    BY <1>t, <1>1, <2>1 DEF StopStep, State
  <2>3. /\ place' \in [Threads -> Reading \cup Joining \cup {"loop", "yielding"}]
        /\ \A x \in ReadThreads : place'[x] \in Reading
        /\ place'["main"] \in Joining /\ place'["base"] \in {"loop", "yielding"}
        /\ \A x \in Threads : x # self => place'[x] = place[x]
        /\ place'[self] = where
    BY <1>1, <1>p DEF StopStep
  <2>4. \A x \in Threads : place'[x] \notin Held
    BY <1>t, <1>1, <2>3
  <2>5. arg' \in 0 .. Len(reader) /\ (place'["main"] \in {"joining", "collect"} => arg' < Len(reader))
    <3>1. arg' = arg /\ "main" \in Threads
      BY <1>1 DEF StopStep, Threads
    <3>2. CASE self = "main"
      <4>1. from = place["main"]
        BY <1>1, <3>2 DEF StopStep, Turn
      <4>2. where = "collect" => arg < Len(reader)
        BY <1>1, <4>1, <1>a
      <4>3. where # "joining"
        BY <1>1 DEF Held
      <4> QED
        BY <1>a, <2>3, <3>1, <3>2, <4>2, <4>3
    <3>3. CASE self # "main"
      BY <1>a, <2>3, <3>1, <3>3
    <3> QED
      BY <3>2, <3>3
  <2> QED
    BY <1>t, <2>1, <2>2, <2>3, <2>4, <2>5 DEF ThreadTypes
<1>2. CASE StopStep("yielding", "RUNABLE", "loop")
  BY <1>1, <1>l, <1>m, <1>2
<1>3. CASE StopStep("block", "BLOCKED", "add")
  BY <1>1, <1>l, <1>m, <1>3
<1>4. CASE StopStep("joining", "BLOCKED", "collect")
  BY <1>1, <1>l, <1>m, <1>4
<1>5. CASE StopStep("dying", "DEAD", "gone")
  BY <1>1, <1>l, <1>m, <1>5
<1>6. ASSUME NEW from, NEW where, Turn(from, where), UNCHANGED self,
             SameLoop(from, where),
             ready_queue' \in Seq(Threads), state' \in [Threads -> State],
             joiner' \in [Threads -> Threads \cup {"none"}],
             arg' \in 0 .. Len(reader), self # "main" => arg' = arg, where \in {"joining", "collect"} => arg' < Len(reader)
      PROVE  ThreadTypes'
  <2>3. /\ place' \in [Threads -> Reading \cup Joining \cup {"loop", "yielding"}]
        /\ \A x \in ReadThreads : place'[x] \in Reading
        /\ place'["main"] \in Joining /\ place'["base"] \in {"loop", "yielding"}
        /\ \A x \in Threads : x # self => place'[x] = place[x]
    BY <1>6, <1>p
  <2>5. place'["main"] \in {"joining", "collect"} => arg' < Len(reader)
    <3>1. CASE self = "main"
      <4>1. place'["main"] = where
        BY <1>6, <1>p, <3>1
      <4> QED
        BY <1>6, <4>1
    <3>2. CASE self # "main"
      BY <1>6, <1>a, <2>3, <3>2 DEF Threads
    <3> QED
      BY <3>1, <3>2
  <2> QED
    BY <1>t, <1>a, <1>l, <1>6, <2>3, <2>5 DEF ThreadTypes
<1>7. ASSUME NEW t \in Threads, QueueStep(t) PROVE ThreadTypes'
  BY <1>t, <1>a, <1>l, <1>6, <1>7 DEF QueueStep
<1>8. ASSUME NEW t \in Threads, NEW n, ScheduleStep(t, n) PROVE ThreadTypes'
  BY <1>t, <1>a, <1>l, <1>6, <1>8 DEF ScheduleStep
<1>9. ASSUME NEW t \in Threads, AddStep(t) PROVE ThreadTypes'
  <2>1. ready_queue' \in Seq(Threads)
    <3>1. CASE joiner[t] = "none"
      BY <1>t, <1>9, <3>1 DEF AddStep
    <3>2. CASE joiner[t] # "none"
      BY <1>t, <1>9, <3>2, MakesSet DEF AddStep
    <3> QED
      BY <3>1, <3>2
  <2>2. state' \in [Threads -> State] /\ joiner' = joiner
    BY <1>t, <1>9 DEF AddStep, State
  <2> QED
    BY <1>t, <1>a, <1>l, <1>6, <1>9, <2>1, <2>2 DEF AddStep
<1>10. CASE CreateStep
  <2>1. ready_queue' \in Seq(Threads)
    <3>1. reader[arg + 1] \in Threads
      BY <1>r, <1>10 DEF CreateStep
    <3> QED
      BY <1>t, <1>10, <3>1, MakesSet DEF CreateStep
  <2> QED
    BY <1>t, <1>a, <1>10, <2>1 DEF CreateStep, ThreadTypes
<1>11. CASE CreatedStep
  BY <1>t, <1>a, <1>l, <1>6, <1>11 DEF CreatedStep
<1>12. CASE JoinStep
  <2>1. joiner' \in [Threads -> Threads \cup {"none"}]
    BY <1>t, <1>12 DEF JoinStep, Threads
  <2> QED
    BY <1>t, <1>a, <1>l, <1>6, <1>12, <2>1 DEF JoinStep
<1>13. CASE CollectStep
  <2>1. state' \in [Threads -> State]
    BY <1>t, <1>13 DEF CollectStep, State
  <2>2. QED
    <3>0. /\ self = "main" /\ arg' = arg + 1 /\ "join" \notin {"joining", "collect"}
          /\ ready_queue' = ready_queue /\ joiner' = joiner /\ UNCHANGED self
      BY <1>13 DEF CollectStep
    <3>1. CASE Turn("collect", "join")
      <4>1. arg' \in 0 .. Len(reader)
        BY <1>a, <3>0, <3>1 DEF Turn
      <4> QED
        BY <1>t, <1>l, <1>6, <2>1, <3>0, <3>1, <4>1
    <3>2. CASE Turn("join", "join") /\ arg < Len(reader)
      <4>1. arg' \in 0 .. Len(reader)
        BY <1>a, <3>0, <3>2
      <4> QED
        BY <1>t, <1>l, <1>6, <2>1, <3>0, <3>2, <4>1
    <3> QED
      BY <1>13, <3>1, <3>2 DEF CollectStep
<1>14. CASE EndStep
  BY <1>t, <1>a, <1>l, <1>6, <1>14 DEF EndStep
<1>15. CASE YieldStep
  <2>1. ready_queue' \in Seq(Threads)
    BY <1>t, <1>15, MakesSet DEF YieldStep, Threads
  <2> QED
    BY <1>t, <1>a, <1>l, <1>6, <1>15, <2>1 DEF YieldStep
<1> QED
  BY <1>2, <1>3, <1>4, <1>5, <1>7, <1>8, <1>9, <1>10, <1>11, <1>12, <1>13, <1>14, <1>15
     DEF ThreadStep, StopSome, ReadSome, MainSome

\* Handlers of tRead wake threads.
WakesThread ==
  client = "tRead" =>
    /\ pending_read_queue \in Seq(Threads)
    /\ \A n \in 1 .. Len(frames) : frames[n].pc = "callback" => frames[n].val \in Threads

\* A step of the innermost handler that does not take an entry.
LEMMA WakesOthers ==
  ASSUME frames \in Seq(Frame), WakesThread, UNCHANGED <<client, pending_read_queue>>,
         Interrupted, NEW where \in Place, where # "callback", GoTo(where)
  PROVE  WakesThread'
<1>1. /\ Len(frames') = Len(frames) /\ Len(frames) \in Nat /\ frames'[Len(frames)].pc = where
      /\ \A n \in 1 .. Len(frames) - 1 : frames'[n] = frames[n]
  BY Moved
<1>2. \A n \in 1 .. Len(frames) : n \in 1 .. Len(frames) - 1 \/ n = Len(frames)
  BY <1>1
<1> QED
  BY <1>1, <1>2 DEF WakesThread

\* The handler in disk.c, time and the signal.
LEMMA DiskKeepsWakes ==
  ASSUME SuiteInv, WakesThread, UNCHANGED <<client, pending_read_queue>>,
         handleTimerInterrupt \/ Tick \/ Interrupt
  PROVE  WakesThread'
<1>t. frames \in Seq(Frame)
  BY DEF SuiteInv, HandlerInv, DiskTypes
<1>1. CASE LockPrq \/ CompleteRead \/ NoneDue \/ deliverInterrupt
  <2>1. {"prq", "deliver", "return", "isr", "prq_lock"} \subseteq Place
    BY DEF Place, DiskPlace
  <2> QED
    BY <1>t, <1>1, <2>1, WakesOthers DEF LockPrq, CompleteRead, NoneDue, deliverInterrupt, HandlerAt
<1>2. CASE Return
  <2>1. Interrupted /\ frames' = Front(frames)
    BY <1>2 DEF Return, HandlerAt
  <2>2. /\ Len(frames) \in Nat \ {0} /\ Len(frames') = Len(frames) - 1
        /\ \A n \in 1 .. Len(frames) - 1 : frames'[n] = frames[n]
    BY <1>t, <2>1, Innermost
  <2> QED
    BY <2>2 DEF WakesThread
<1>3. CASE Interrupt
  <2>1. frames' = Append(frames, [pc |-> "prq_lock", now |-> clock, val |-> 0])
    BY <1>3 DEF Interrupt
  <2>2. /\ Len(frames') = Len(frames) + 1 /\ frames'[Len(frames) + 1].pc = "prq_lock"
        /\ \A n \in 1 .. Len(frames) : frames'[n] = frames[n]
    BY <1>t, <2>1
  <2>3. \A n \in 1 .. Len(frames) + 1 : n \in 1 .. Len(frames) \/ n = Len(frames) + 1
    BY <1>t
  <2> QED
    BY <2>2, <2>3 DEF WakesThread
<1>4. CASE Tick
  BY <1>4 DEF Tick, signals, WakesThread
<1> QED
  BY <1>1, <1>2, <1>3, <1>4 DEF handleTimerInterrupt

\* The threads.
LEMMA ThreadsKeepWakes ==
  ASSUME SuiteInv, WakesThread, client = "tRead", UNCHANGED client, ThreadStep
  PROVE  WakesThread'
<1>1. UNCHANGED frames
  BY DEF ThreadStep, StopSome, ReadSome, MainSome, StopStep, QueueStep, AddStep, ScheduleStep, CreateStep,
         CreatedStep, JoinStep, CollectStep, EndStep, YieldStep, ThreadsOnly, disk_schedule_read, signals
<1>2. \/ UNCHANGED pending_read_queue
      \/ \E t \in Threads : pending_read_queue' = Append(pending_read_queue, t)
  BY DEF ThreadStep, StopSome, ReadSome, MainSome, StopStep, QueueStep, AddStep, ScheduleStep, CreateStep,
         CreatedStep, JoinStep, CollectStep, EndStep, YieldStep, ThreadsOnly
<1>3. pending_read_queue \in Seq(Threads)
  BY DEF WakesThread
<1>4. pending_read_queue' \in Seq(Threads)
  BY <1>2, <1>3, AppendProperties
<1> QED
  BY <1>1, <1>4 DEF WakesThread

\* Steps of the threads: an entry is queued, then the read is scheduled, by the thread that runs.
LEMMA TReadKeepsEntries ==
  ASSUME SuiteInv, client = "tRead", UNCHANGED <<client, counter, blockno>>, ThreadStep
  PROVE  SuiteInv'
<1>t. ThreadTypes'
  BY TReadTypes
<1>h. /\ ClientTypes /\ buf \in [Buffer -> Int] /\ self \in Threads /\ arg \in 0 .. Len(reader)
      /\ place \in [Threads -> Reading \cup Joining \cup {"loop", "yielding"}]
      /\ place["main"] \in Joining /\ place["base"] \in {"loop", "yielding"}
      /\ \A t \in Threads : place[t] \in Held => self = t
  BY DEF SuiteInv, HandlerInv, DiskTypes, ThreadTypes
<1>n. /\ self' \in Threads /\ arg' \in 0 .. Len(reader)
      /\ place'["main"] \in Joining /\ place'["base"] \in {"loop", "yielding"}
  BY <1>t DEF ThreadTypes
<1>j. "schedule" \notin Joining \cup {"loop", "yielding"} /\ "schedule" \in Held
  BY DEF Joining, Held
<1>u. (Unread <=> place[self] = "schedule") /\ (Unread' <=> place'[self'] = "schedule")
  BY <1>h, <1>n, <1>j DEF Unread, Threads
<1>r. \A t \in Threads : place[t] \in {"queue", "schedule", "add"} => t \in Buffer /\ t \in ReadThreads
  BY <1>h, Readers, ReaderAssumption DEF Threads, Joining
<1>e. Threads \subseteq Entry
  BY DEF Threads, Entry
<1>p. ASSUME NEW from, NEW where, Turn(from, where)
      PROVE  place[self] = from /\ place'[self] = where /\ \A t \in Threads : t # self => place'[t] = place[t]
  BY <1>h, <1>p DEF Turn
<1>1. CASE \E t \in Threads : QueueStep(t)
  <2>1. PICK t \in Threads : QueueStep(t)
    BY <1>1
  <2>2. /\ Turn("queue", "schedule") /\ self' = self /\ self = t
        /\ ~Interrupted /\ MaskAfterUnlock /\ UNCHANGED <<disk, isInterrupt, frames>>
        /\ pending_read_queue' = Append(pending_read_queue, t) /\ UNCHANGED <<sum, arg>>
    BY <2>1 DEF QueueStep, Turn
  <2>3. ~Unread /\ Unread'
    BY <1>u, <1>p, <2>2
  <2>4. t \in Entry
    BY <1>e
  <2> QED
    BY <1>t, <2>2, <2>3, <2>4, QueueKeepsEntries
<1>2. ASSUME NEW t \in Threads, NEW n \in DOMAIN reader, reader[n] = t, ScheduleStep(t, n - 1)
      PROVE  SuiteInv'
  <2>2. /\ Turn("schedule", "block") /\ self' = self /\ self = t /\ disk_schedule_read(t, n - 1)
        /\ UNCHANGED <<pending_read_queue, sum, arg>>
    BY <1>2 DEF ScheduleStep
  <2>3. Unread /\ ~Unread'
    BY <1>u, <1>p, <2>2
  <2>4. t \in Buffer /\ n - 1 \in Int
    BY <1>r, <1>p, <2>2, Readers
  <2> QED
    BY <1>t, <2>2, <2>3, <2>4, ReadKeepsEntries
<1>o. ASSUME ~Interrupted, UNCHANGED <<disk, isInterrupt, frames, pending_read_queue>>,
             masked' = masked \/ MaskAfterUnlock \/ masked' = TRUE, sum' \in Int,
             place[self] # "schedule", place'[self'] # "schedule"
      PROVE  SuiteInv'
  <2>1. ClientTypes'
    BY <1>h, <1>n, <1>o DEF ClientTypes
  <2> QED
    BY <1>t, <1>u, <1>o, <2>1, OtherKeepsEntries
<1>i. sum \in Int /\ "main" \in Threads /\ "base" \in Threads
  BY <1>h DEF ClientTypes, Threads
<1>3. ASSUME NEW from \in Held, NEW becomes, NEW where, StopStep(from, becomes, where),
             from # "schedule", where \notin Held
      PROVE  SuiteInv'
  <2>1. /\ Turn(from, where) /\ ThreadsOnly /\ UNCHANGED sum
    BY <1>3 DEF StopStep
  <2>2. place'[self'] # "schedule"
    <3>1. \A t \in Threads : place'[t] \notin Held
      BY <1>h, <1>3, <1>p, <2>1
    <3> QED
      BY <1>n, <1>j, <3>1
  <2> QED
    BY <1>o, <1>i, <1>3, <1>p, <2>1, <2>2 DEF ThreadsOnly, Turn
<1>4. ASSUME NEW from, NEW where, Turn(from, where), from # "schedule", where # "schedule", UNCHANGED self,
             UNCHANGED <<disk, isInterrupt, frames, pending_read_queue>>,
             masked' = masked \/ MaskAfterUnlock \/ masked' = TRUE, sum' \in Int
      PROVE  SuiteInv'
  BY <1>o, <1>4, <1>p DEF Turn
<1>5. CASE StopSome
  BY <1>3, <1>5 DEF StopSome, Held
<1>6. ASSUME NEW t \in Threads, AddStep(t) PROVE SuiteInv'
  <2>1. sum' \in Int
    <3>1. t \in Buffer
      BY <1>r, <1>6 DEF AddStep, Turn
    <3> QED
      BY <1>h, <1>i, <1>6, <3>1 DEF AddStep
  <2> QED
    BY <1>4, <1>6, <2>1 DEF AddStep, ThreadsOnly
<1>7. CASE CreateStep
  <2>1. place[self] # "schedule" /\ UNCHANGED <<place, self>>
    BY <1>7 DEF CreateStep
  <2> QED
    BY <1>o, <1>i, <1>7, <2>1 DEF CreateStep, ThreadsOnly
<1>8. CASE CreatedStep
  BY <1>4, <1>i, <1>8 DEF CreatedStep, ThreadsOnly
<1>9. CASE JoinStep
  BY <1>4, <1>i, <1>9 DEF JoinStep, ThreadsOnly
<1>10. CASE CollectStep
  BY <1>4, <1>i, <1>10 DEF CollectStep
<1>11. CASE EndStep
  BY <1>4, <1>i, <1>11 DEF EndStep, signals
<1>12. CASE YieldStep
  BY <1>4, <1>i, <1>12 DEF YieldStep, ThreadsOnly
<1> QED
  BY <1>1, <1>2, <1>5, <1>6, <1>7, <1>8, <1>9, <1>10, <1>11, <1>12 DEF ThreadStep, ReadSome, MainSome

\* What the routine of tRead does, in the words of Disk.
LEMMA TRoutineSteps ==
  /\ T!queue_dequeue =>
       /\ HandlerAt("dequeue") /\ MaskAfterUnlock /\ pending_read_queue # <<>>
       /\ pending_read_queue' = Tail(pending_read_queue)
       /\ frames' = [frames EXCEPT ![Len(frames)].pc = "callback",
                                   ![Len(frames)].val = Head(pending_read_queue)]
       /\ UNCHANGED <<disk, isInterrupt>>
  /\ T!unblock =>
       /\ HandlerAt("callback") /\ GoTo("delivered") /\ T!T!ready_queue_enqueue(Last(frames).val)
       /\ UNCHANGED <<disk, masked, isInterrupt, pending_read_queue, self, state, joiner, sum, arg, place>>
<1>1. T!disk = disk /\ T!disk' = disk'
  BY DEF T!disk, disk
<1>2. T!queue_dequeue =>
       /\ HandlerAt("dequeue") /\ MaskAfterUnlock /\ pending_read_queue # <<>>
       /\ pending_read_queue' = Tail(pending_read_queue)
       /\ frames' = [frames EXCEPT ![Len(frames)].pc = "callback",
                                   ![Len(frames)].val = Head(pending_read_queue)]
       /\ UNCHANGED <<disk, isInterrupt>>
  BY <1>1, StepsT DEF T!queue_dequeue, T!MaskAfterUnlock, MaskAfterUnlock
<1>3. T!unblock =>
       /\ HandlerAt("callback") /\ GoTo("delivered") /\ T!T!ready_queue_enqueue(Last(frames).val)
       /\ UNCHANGED <<disk, masked, isInterrupt, pending_read_queue, self, state, joiner, sum, arg, place>>
  BY <1>1, StepsT DEF T!unblock, T!T!uthread_unblock, T!queue, T!own
<1> QED
  BY <1>2, <1>3

\* The service routine of tRead.
LEMMA TReadServes ==
  ASSUME SuiteInv, WakesThread, client = "tRead", UNCHANGED <<client, counter, blockno>>,
         T!unblock \/ ((T!LockQueue \/ T!queue_dequeue) /\ UNCHANGED <<T!sched, T!own>>)
  PROVE  SuiteInv' /\ WakesThread'
<1>h. HandlerInv /\ KeepsInt /\ ClientTypes /\ ThreadTypes /\ frames \in Seq(Frame)
  BY DEF SuiteInv, HandlerInv, DiskTypes
<1>q. ready_queue \in Seq(Threads) /\ pending_read_queue \in Seq(Threads)
  BY <1>h DEF ThreadTypes, WakesThread
<1>s. /\ {"isr", "dequeue", "callback", "delivered"} \subseteq Place
      /\ Serving = {"isr", "dequeue", "callback", "add", "count", "delivered"}
      /\ Fetching = {"deliver", "isr", "dequeue"}
  BY DEF Place, DiskPlace, Serving, Fetching
<1>1. CASE T!unblock
  <2>1. ServedFrom("callback", "delivered")
    BY <1>h, <1>s, <1>1, TRoutineSteps, GoToFrame DEF ServedFrom, HandlerAt
  <2>2. ClientTypes'
    BY <1>h, <1>1, TRoutineSteps DEF ClientTypes
  <2>3. Last(frames).val \in Threads
    <3>1. Interrupted /\ Last(frames).pc = "callback"
      BY <1>1, TRoutineSteps DEF HandlerAt
    <3>2. Len(frames) \in Nat \ {0} /\ Last(frames) = frames[Len(frames)]
      BY <1>h, <3>1, Innermost
    <3>3. Len(frames) \in 1 .. Len(frames)
      BY <3>2
    <3> QED
      BY <3>1, <3>2, <3>3 DEF WakesThread
  <2>4. Makes(Last(frames).val)
    BY <1>q, <1>1, TRoutineSteps, EnqueueSame
  <2>5. ready_queue' \in Seq(Threads)
    BY <1>q, <2>3, <2>4, MakesSet
  <2>6. UNCHANGED <<self, state, joiner, arg, place>>
    BY <1>1, TRoutineSteps
  <2>7. ThreadTypes' /\ (Unread' <=> Unread)
    BY <1>h, <2>5, <2>6 DEF ThreadTypes, Unread
  <2>8. WakesThread'
    BY <1>h, <1>s, <1>1, TRoutineSteps, WakesOthers DEF HandlerAt
  <2> QED
    BY <1>s, <1>1, <2>1, <2>2, <2>7, <2>8, TRoutineSteps, RoutineKeeps
<1>2. CASE T!LockQueue /\ UNCHANGED <<T!sched, T!own>>
  <2>0. UNCHANGED <<ready_queue, self, state, joiner, sum, arg, place>>
    BY <1>2 DEF T!own, T!sched
  <2>1. ServedFrom("isr", "dequeue") /\ UNCHANGED pending_read_queue
    BY <1>h, <1>s, <1>2, StepsT, GoToFrame DEF ServedFrom, HandlerAt
  <2>2. ClientTypes' /\ ThreadTypes' /\ (Unread' <=> Unread)
    BY <1>h, <2>0, <2>1 DEF ClientTypes, ThreadTypes, Unread
  <2>8. WakesThread'
    BY <1>h, <1>s, <1>2, StepsT, WakesOthers DEF HandlerAt
  <2> QED
    BY <1>s, <2>0, <2>1, <2>2, <2>8, RoutineKeeps
<1>3. CASE T!queue_dequeue /\ UNCHANGED <<T!sched, T!own>>
  <2>0. UNCHANGED <<ready_queue, self, state, joiner, sum, arg, place>>
    BY <1>3 DEF T!own, T!sched
  <2>1. /\ ServedFrom("dequeue", "callback") /\ Tail(pending_read_queue) \in Seq(Entry)
        /\ frames'[Len(frames)].val = Head(pending_read_queue)
    BY <1>3, TRoutineSteps, DequeueServes
  <2>2. pending_read_queue # <<>> /\ pending_read_queue' = Tail(pending_read_queue)
    BY <1>3, TRoutineSteps
  <2>3. ClientTypes' /\ ThreadTypes' /\ (Unread' <=> Unread)
    BY <1>h, <2>0, <2>1, <2>2 DEF ClientTypes, ThreadTypes, Unread
  <2>8. WakesThread'
    <3>1. Head(pending_read_queue) \in Threads /\ Tail(pending_read_queue) \in Seq(Threads)
      BY <1>q, <2>2, HeadTailProperties
    <3>2. PICK frame \in Frame : frames' = [frames EXCEPT ![Len(frames)] = frame]
      BY <2>1 DEF ServedFrom
    <3>3. /\ Len(frames') = Len(frames) /\ Len(frames) \in Nat
          /\ \A n \in 1 .. Len(frames) - 1 : frames'[n] = frames[n]
      BY <1>h, <2>1, <3>2, Changed DEF ServedFrom, HandlerAt
    <3>4. \A n \in 1 .. Len(frames) : n \in 1 .. Len(frames) - 1 \/ n = Len(frames)
      BY <3>3
    <3> QED
      BY <2>1, <2>2, <3>1, <3>3, <3>4 DEF WakesThread
  <2> QED
    BY <1>s, <2>0, <2>1, <2>2, <2>3, <2>8, RoutineKeeps
<1> QED
  BY <1>1, <1>2, <1>3

(***************************************************************************)
(* The suite, at any depth                                                 *)
(***************************************************************************)
\* The disk at the start.
Started == DiskInit /\ pending_read_queue = <<>> /\ sum = 0 /\ counter = 0 /\ blockno = 0

\* Each program starts with nothing read and nothing queued.
LEMMA Starts ==
  ASSUME SuiteInit
  PROVE  /\ Started /\ client \in {"aRead", "sRead", "treasureHunt", "tRead"}
         /\ client = "aRead" => pc = "enqueue" /\ arg = 0
         /\ client = "sRead" => pc = "flag" /\ arg = 0
         /\ client = "treasureHunt" => pc = "first" /\ arg \in starting_blocks
         /\ client = "tRead" => T!T!SoloInit /\ arg = 0 /\ pc = "tRead"
              /\ place = [t \in T!T!Thread |->
                           IF t = "main" THEN "create" ELSE IF t = "base" THEN "loop" ELSE "queue"]
<1>1. client \in {"aRead", "sRead", "treasureHunt", "tRead"}
  BY ClientsAssumption DEF SuiteInit
<1>2. CASE client = "aRead"
  <2>1. Init /\ arg = 0
    BY <1>2 DEF SuiteInit
  <2> QED
    BY <1>2, <2>1 DEF Init, Started
<1>3. CASE client = "sRead"
  <2>1. S!Init /\ NoQueue /\ arg = 0
    BY <1>3 DEF SuiteInit
  <2>2. S!DiskInit <=> DiskInit
    BY DEF S!DiskInit, DiskInit
  <2> QED
    BY <1>3, <2>1, <2>2 DEF S!Init, NoQueue, Started
<1>4. CASE client = "treasureHunt"
  <2>1. PICK block \in starting_blocks : H!Init(block)
    BY <1>4 DEF SuiteInit
  <2>2. H!DiskInit <=> DiskInit
    BY DEF H!DiskInit, DiskInit
  <2> QED
    BY <1>4, <2>1, <2>2 DEF H!Init, H!QueueInit, Started
<1>5. CASE client = "tRead"
  <2>1. T!Init /\ counter = 0 /\ blockno = 0 /\ pc = "tRead"
    BY <1>5 DEF SuiteInit
  <2>2. T!DiskInit <=> DiskInit
    BY DEF T!DiskInit, DiskInit
  <2> QED
    BY <1>5, <2>1, <2>2 DEF T!Init, T!QueueInit, Started
<1> QED
  BY <1>1, <1>2, <1>3, <1>4, <1>5

\* The invariants hold then.
LEMMA StartsInv == ASSUME SuiteInit PROVE SuiteInv /\ WakesThread
<1>0. Started /\ client \in {"aRead", "sRead", "treasureHunt", "tRead"}
  BY Starts
<1>1. arg \in Int
  <2>1. arg = 0 \/ arg \in starting_blocks
    BY <1>0, Starts
  <2> QED
    <3>1. CASE arg = 0
      BY <3>1
    <3>2. CASE arg \in starting_blocks
      <4>1. arg \in Nat
        BY <3>2, HuntsAssumption
      <4> QED
        BY <4>1
    <3> QED
      BY <2>1, <3>1, <3>2
<1>2. /\ buf = [b \in Buffer |-> 0] /\ prq = <<>> /\ taken = 0 /\ clock = 0
      /\ prq_mutex = FALSE /\ masked = FALSE /\ isInterrupt = FALSE /\ frames = <<>>
      /\ pending_read_queue = <<>> /\ sum = 0 /\ counter = 0 /\ blockno = 0
  BY <1>0 DEF Started, DiskInit
<1>3. /\ buf \in [Buffer -> Int] /\ prq \in Seq(Read) /\ frames \in Seq(Frame)
      /\ pending_read_queue \in Seq(Entry) /\ pending_read_queue \in Seq(Threads)
      /\ Len(prq) = 0 /\ Len(frames) = 0 /\ Len(pending_read_queue) = 0
  BY <1>2
<1>4. HandlerInv /\ ClientTypes
  <2>1. DiskTypes
    <3>1. clock \in Int /\ taken \in Int
      BY <1>2
    <3>2. prq_mutex \in BOOLEAN /\ masked \in BOOLEAN /\ isInterrupt \in BOOLEAN
      BY <1>2, Zenon
    <3> QED
      BY <1>3, <3>1, <3>2, Zenon DEF DiskTypes
  <2>2. HolderMasked /\ FlagOfServer
    BY <1>2 DEF HolderMasked, FlagOfServer
  <2>3. sum \in Int /\ counter \in Int /\ blockno \in Int
    BY <1>2
  <2> QED
    BY <1>0, <1>1, <1>3, <2>1, <2>2, <2>3 DEF HandlerInv, ClientTypes
<1>5. KeepsInt /\ WakesThread
  BY <1>3 DEF KeepsInt, WakesThread
<1>6. ThreadTypes
  <2>1. CASE client = "tRead"
    <3>1. /\ ready_queue = <<"base">> /\ self = "main"
          /\ state = [t \in Threads |-> IF t = "main" THEN "RUNNING" ELSE "NASCENT"]
          /\ joiner = [t \in Threads |-> "none"] /\ arg = 0
          /\ place = [t \in Threads |-> IF t = "main" THEN "create" ELSE IF t = "base" THEN "loop" ELSE "queue"]
      BY <2>1, Starts, Readers DEF T!T!SoloInit, Threads
    <3>2. ready_queue \in Seq(Threads) /\ self \in Threads
      BY <3>1 DEF Threads
    <3>3. state \in [Threads -> State] /\ joiner \in [Threads -> Threads \cup {"none"}]
      BY <3>1 DEF Threads, State
    <3>4. /\ place \in [Threads -> Reading \cup Joining \cup {"loop", "yielding"}]
          /\ \A t \in ReadThreads : place[t] \in Reading
          /\ place["main"] \in Joining /\ place["base"] \in {"loop", "yielding"}
          /\ \A t \in Threads : place[t] \in Held => self = t
      BY <3>1, Readers DEF Threads, Reading, Joining, Held
    <3>5. arg \in 0 .. Len(reader) /\ place["main"] \notin {"joining", "collect"}
      BY <3>1 DEF Threads
    <3> QED
      BY <3>2, <3>3, <3>4, <3>5 DEF ThreadTypes
  <2> QED
    BY <2>1 DEF ThreadTypes
<1>7. EntryInv
  <2>1. Underway = 0
    <3>1. InFlight(frames) = {}
      BY <1>2 DEF InFlight
    <3> QED
      BY <3>1, FS_EmptySet DEF Underway
  <2>2. ~Unread
    <3>1. client = "tRead" => place[self] # "schedule"
      BY Starts, Readers DEF T!T!SoloInit
    <3> QED
      BY <3>1, Starts DEF Unread
  <2> QED
    BY <1>3, <2>1, <2>2 DEF EntryInv
<1> QED
  BY <1>4, <1>5, <1>6, <1>7 DEF SuiteInv

\* The steps of disk.c, of time and of the signal.
DiskStep == handleTimerInterrupt \/ Tick \/ Interrupt

\* Every step is one of these.
LEMMA SuiteSteps ==
  ASSUME SuiteNext, client = "tRead" => ready_queue \in Seq(Threads)
  PROVE  /\ UNCHANGED client
         /\ \/ DiskStep /\ UNCHANGED <<threads, callbacks, totals, blockno, pc>>
            \/ client = "aRead" /\ UNCHANGED threads /\ (main \/ interrupt_service_routine)
            \/ /\ client = "sRead" /\ UNCHANGED <<threads, callbacks>>
               /\ S!main \/ S!interrupt_service_routine
            \/ /\ client = "treasureHunt" /\ UNCHANGED threads
               /\ \/ H!main
                  \/ H!callback
                  \/ (H!LockQueue \/ H!queue_dequeue) /\ UNCHANGED H!own
            \/ /\ client = "tRead" /\ UNCHANGED <<counter, blockno, pc>>
               /\ \/ ThreadStep
                  \/ T!unblock
                  \/ (T!LockQueue \/ T!queue_dequeue) /\ UNCHANGED <<T!sched, T!own>>
<1>1. CASE PassTime \/ SendSignal
  BY <1>1 DEF PassTime, SendSignal, Time, Signal, DiskStep, program
<1>2. CASE Alone("aRead") /\ (main \/ Handle)
  BY <1>2 DEF Alone, Is, Handle, DiskStep, program
<1>3. CASE Alone("sRead") /\ (S!main \/ S!Handle) /\ UNCHANGED callbacks
  <2>1. CASE S!handleTimerInterrupt /\ UNCHANGED S!own
    BY <1>3, <2>1, TimerS DEF Alone, Is, DiskStep, S!own, totals
  <2> QED
    BY <1>3, <2>1 DEF Alone, Is, S!Handle
<1>4. CASE Alone("treasureHunt") /\ (H!main \/ H!Handle)
  <2>1. CASE H!handleTimerInterrupt /\ UNCHANGED <<H!queue, H!own>>
    BY <1>4, <2>1, TimerH DEF Alone, Is, DiskStep, H!own, H!queue, totals, callbacks
  <2> QED
    BY <1>4, <2>1 DEF Alone, Is, H!Handle
<1>5. CASE Is("tRead") /\ (T!program \/ T!Handle) /\ UNCHANGED <<counter, program>>
  <2>0. client = "tRead" /\ UNCHANGED <<client, counter, blockno, pc>>
    BY <1>5 DEF Is, program
  <2>1. CASE T!handleTimerInterrupt /\ UNCHANGED <<T!queue, T!sched, T!own>>
    BY <2>0, <2>1, TimerT DEF DiskStep, T!own, T!queue, T!sched, totals, callbacks, threads
  <2>2. CASE T!program
    BY <2>0, <2>2, ThreadSteps
  <2>3. CASE T!unblock \/ ((T!LockQueue \/ T!queue_dequeue) /\ UNCHANGED <<T!sched, T!own>>)
    BY <2>0, <2>3
  <2> QED
    BY <1>5, <2>1, <2>2, <2>3 DEF T!Handle
<1> QED
  BY <1>1, <1>2, <1>3, <1>4, <1>5 DEF SuiteNext, RunProgram, RunHandler

\* The other programs have no threads.
LEMMA NoWakes == ASSUME client # "tRead", UNCHANGED client PROVE WakesThread'
BY DEF WakesThread

\* The invariants are inductive.
LEMMA Inductive ==
  ASSUME SuiteInv, WakesThread, [SuiteNext]_all
  PROVE  SuiteInv' /\ WakesThread'
<1>t. client = "tRead" => ready_queue \in Seq(Threads)
  BY DEF SuiteInv, ThreadTypes
<1>1. CASE UNCHANGED all
  <2>1. /\ UNCHANGED <<client, threads, callbacks, totals, blockno, pc>>
        /\ UNCHANGED <<disk, signals, frames, isInterrupt, masked, prq, pending_read_queue, prq_mutex>>
    BY <1>1 DEF all, vars, program, signals, disk, callbacks
  <2>2. HandlerInv' /\ Underway' = Underway
    BY <2>1, SameUnderway DEF SuiteInv, HandlerInv, DiskTypes, HolderMasked, FlagOfServer, Interrupted, disk
  <2>3. ClientTypes' /\ ThreadTypes' /\ KeepsInt' /\ WakesThread' /\ (Unread' <=> Unread)
    BY <2>1 DEF SuiteInv, ClientTypes, ThreadTypes, KeepsInt, WakesThread, Unread, threads, totals, callbacks
  <2> QED
    BY <2>1, <2>2, <2>3 DEF SuiteInv, EntryInv
<1>2. CASE UNCHANGED client /\ DiskStep /\ UNCHANGED <<threads, callbacks, totals, blockno, pc>>
  BY <1>2, DiskKeepsEntries, DiskKeepsWakes DEF DiskStep, callbacks
<1>3. CASE UNCHANGED client /\ client = "aRead" /\ UNCHANGED threads /\ (main \/ interrupt_service_routine)
  BY <1>3, AReadKeepsEntries, AReadServes, NoWakes
<1>4. CASE /\ UNCHANGED client /\ client = "sRead" /\ UNCHANGED <<threads, callbacks>>
           /\ S!main \/ S!interrupt_service_routine
  BY <1>4, SReadKeepsEntries, SReadServes, NoWakes
<1>5. CASE /\ UNCHANGED client /\ client = "treasureHunt" /\ UNCHANGED threads
           /\ \/ H!main
              \/ H!callback
              \/ (H!LockQueue \/ H!queue_dequeue) /\ UNCHANGED H!own
  BY <1>5, HuntKeepsEntries, HuntServes, NoWakes
<1>6. CASE UNCHANGED client /\ client = "tRead" /\ UNCHANGED <<counter, blockno>> /\ ThreadStep
  BY <1>6, TReadKeepsEntries, ThreadsKeepWakes
<1>7. CASE /\ UNCHANGED client /\ client = "tRead" /\ UNCHANGED <<counter, blockno>>
           /\ T!unblock \/ ((T!LockQueue \/ T!queue_dequeue) /\ UNCHANGED <<T!sched, T!own>>)
  BY <1>7, TReadServes
<1> QED
  BY <1>t, <1>1, <1>2, <1>3, <1>4, <1>5, <1>6, <1>7, SuiteSteps

\* In every state of a run.
LEMMA Reached == SuiteSpec => [](SuiteInv /\ WakesThread)
<1>1. SuiteInit => SuiteInv /\ WakesThread
  BY StartsInv
<1>2. SuiteInv /\ WakesThread /\ [SuiteNext]_all => (SuiteInv /\ WakesThread)'
  BY Inductive
<1> QED
  BY <1>1, <1>2, PTL DEF SuiteSpec

\* Whatever program runs and however deep handlers are nested, who holds prq_mutex has the signal
\* blocked: handleTimerInterrupt never spins for the lock of the code it interrupted.
THEOREM HandlersNeverSpin == SuiteSpec => []LockMasked
<1>1. SuiteInv => LockMasked
  BY DEF SuiteInv, HandlerInv, HolderMasked, LockMasked
<1> QED
  BY <1>1, Reached, PTL

\* The cardinality of an instance.
LEMMA SameCardinality == \A s : H!Cardinality(s) = Cardinality(s) /\ T!Cardinality(s) = Cardinality(s)
BY DEF H!Cardinality, T!Cardinality, Cardinality

\* At any depth the service routine of aRead, of treasureHunt and of tRead finds an entry for each
\* read it is called for: interrupt_service_routine never calls a null pointer.
THEOREM EntriesFound == SuiteSpec => []EntryFound
<1>1. Cardinality(Handlers(Fetching)) = Underway
  BY DEF Handlers, Underway, InFlight
<1>2. SuiteInv => EntryFound
  <2> SUFFICES ASSUME SuiteInv PROVE EntryFound
    OBVIOUS
  <2>0. Underway \in Nat /\ Len(prq) \in Nat
    BY UnderwayNat DEF SuiteInv
  <2>1. CASE client = "aRead"
    <3>1. Len(pending_read_queue) = Len(prq) + Underway + IF pc = "schedule" THEN 1 ELSE 0
      BY <2>1 DEF SuiteInv, EntryInv, Unread
    <3>2. CallbackForRead
      BY <2>0, <3>1, <1>1 DEF CallbackForRead, Fetching
    <3> QED
      BY <2>1, <3>2 DEF EntryFound
  <2>2. CASE client = "treasureHunt"
    <3>1. Len(pending_read_queue) = Len(prq) + Underway + IF pc \in {"first_read", "schedule"} THEN 1 ELSE 0
      BY <2>2 DEF SuiteInv, EntryInv, Unread
    <3>2. H!CallbackForRead
      BY <2>0, <3>1, SameCardinality DEF H!CallbackForRead, H!EntryForRead, Underway, InFlight, Fetching
    <3> QED
      BY <2>2, <3>2 DEF EntryFound
  <2>3. CASE client = "tRead"
    <3>1. /\ Len(pending_read_queue) =
               Len(prq) + Underway + IF Unread THEN 1 ELSE 0
          /\ Unread <=> self \in T!Range(reader) /\ place[self] = "schedule"
      BY <2>3, Readers DEF SuiteInv, EntryInv, Unread
    <3>2. T!CallbackForRead
      BY <2>0, <3>1, SameCardinality DEF T!CallbackForRead, T!EntryForRead, Underway, InFlight, Fetching
    <3> QED
      BY <2>3, <3>2 DEF EntryFound
  <2>4. CASE client = "sRead"
    BY <2>4 DEF EntryFound
  <2> QED
    BY <2>1, <2>2, <2>3, <2>4 DEF SuiteInv, ClientTypes
<1> QED
  BY <1>2, Reached, PTL

(***************************************************************************)
(* Handlers that are not nested                                            *)
(***************************************************************************)
\* Where the only handler is, and what it keeps.
OneHandler == Len(frames) =< 1
Phase == IF Interrupted THEN frames[Len(frames)].pc ELSE "none"
Kept == frames[Len(frames)].val

\* No read is between prq and the program.
Calm == {"none", "prq_lock", "prq", "return", "delivered"}

\* aRead: the reads under way are for the next blocks, in order, and what was counted is the sum of
\* the blocks before; a read that left prq is in the buffer, or in what the handler keeps.
Numbered ==
  /\ taken \in Nat /\ blockno = taken + Len(prq)
  /\ \A k \in 1 .. Len(prq) : prq[k] = [buf |-> result, blockNo |-> taken + k - 1]
Counted ==
  \/ /\ Phase \in Calm
     /\ counter = taken /\ sum = Total[taken]
  \/ /\ Phase \in {"deliver", "isr", "dequeue", "callback"}
     /\ counter \in Nat /\ taken = counter + 1
     /\ sum = Total[counter] /\ buf[result] = StoryAt(counter)
  \/ /\ Phase = "add"
     /\ counter \in Nat /\ taken = counter + 1
     /\ Kept = Total[taken]
  \/ /\ Phase = "count"
     /\ counter \in Nat /\ taken = counter + 1
     /\ sum = Total[taken]
AReadInv == client = "aRead" => Numbered /\ Counted

\* sRead: the read that is awaited is under way, or has just been delivered.
AtRest == prq = <<>> /\ Phase \in Calm
SReadInv ==
  client = "sRead" =>
    /\ blockno \in Nat /\ sum = Total[blockno] /\ pc \in {"flag", "schedule", "wait", "end"}
    /\ pc # "wait" => AtRest
    /\ pc = "schedule" => counter = 1
    /\ pc = "wait" =>
         \/ prq = <<[buf |-> result, blockNo |-> blockno]>> /\ Phase \in Calm /\ counter = 1
         \/ prq = <<>> /\ Phase \in {"deliver", "isr"} /\ counter = 1 /\ buf[result] = StoryAt(blockno)
         \/ AtRest /\ counter = 0 /\ buf[result] = StoryAt(blockno)

\* treasureHunt: the one read under way, with its entry.
Fetched(entry, block) ==
  \/ /\ prq = <<[buf |-> result, blockNo |-> block]>> /\ pending_read_queue = <<entry>>
     /\ Phase \in Calm
  \/ /\ prq = <<>> /\ pending_read_queue = <<entry>>
     /\ Phase \in Fetching /\ buf[result] = StoryAt(block)
  \/ /\ prq = <<>> /\ pending_read_queue = <<>>
     /\ Phase = "callback" /\ Kept = entry /\ buf[result] = StoryAt(block)
HuntRest == AtRest /\ pending_read_queue = <<>>
Hunting == sum = H!Steps /\ sum > 0 /\ blockno \in 0 .. sum
HuntInv ==
  client = "treasureHunt" =>
    /\ pc \in {"first", "first_read", "count", "hunt", "schedule", "wait", "end"}
    /\ pc \in {"first", "first_read", "count"} => counter = 0 /\ blockno = 0
    /\ pc = "first" => HuntRest /\ sum = 0
    /\ pc = "first_read" => AtRest /\ pending_read_queue = <<"handleFirstRead">> /\ sum = 0
    /\ pc = "count" => \/ Fetched("handleFirstRead", arg) /\ sum = 0
                       \/ HuntRest /\ sum = H!Steps /\ buf[result] = H!Steps
    /\ pc \in {"hunt", "end"} => HuntRest /\ Hunting /\ counter = blockno /\ buf[result] = H!Trail[blockno]
    /\ pc = "end" => blockno = sum
    /\ pc = "schedule" =>
         /\ AtRest /\ pending_read_queue = <<"handleOtherReads">> /\ Hunting /\ blockno < sum
         /\ counter = blockno /\ buf[result] = H!Trail[blockno]
    /\ pc = "wait" =>
         /\ Hunting /\ blockno < sum
         /\ \/ Fetched("handleOtherReads", H!Trail[blockno]) /\ counter = blockno
            \/ HuntRest /\ counter = blockno + 1 /\ buf[result] = H!Trail[blockno + 1]

\* tRead: the threads that read, the block of each and what has become of it.
BlockOf(t) == (CHOOSE k \in 1 .. Len(reader) : reader[k] = t) - 1
Here(t) == buf[t] = StoryAt(BlockOf(t))
Exited(t) == place[t] \in {"dying", "gone"}

\* Entries are in the order of the reads; the thread that has yet to schedule its read is the last.
Aligned ==
  /\ pending_read_queue \in Seq(ReadThreads)
  /\ \A n \in 1 .. Len(prq) : prq[n].buf \in ReadThreads /\ prq[n].blockNo = BlockOf(prq[n].buf)
  /\ Phase \notin Fetching => \A n \in 1 .. Len(prq) : pending_read_queue[n] = prq[n].buf
  /\ Phase \in Fetching =>
       /\ Here(pending_read_queue[1])
       /\ \A n \in 1 .. Len(prq) : pending_read_queue[n + 1] = prq[n].buf
  /\ Unread => pending_read_queue[Len(pending_read_queue)] = self
  /\ Phase = "callback" => Kept \in ReadThreads /\ Here(Kept)

\* A thread that has not queued its entry is woken only by uthread_create, the others by their read.
Woken ==
  /\ NoDuplicates(ready_queue)
  /\ \A n \in 1 .. Len(pending_read_queue) : place[pending_read_queue[n]] # "queue"
  /\ Phase = "callback" => place[Kept] # "queue"
  /\ \A t \in Queued(ready_queue) \cap ReadThreads : place[t] = "queue" \/ Here(t)
  /\ self \in ReadThreads /\ place[self] = "queue" => self \notin Queued(ready_queue)
  /\ self \in ReadThreads /\ place[self] = "add" => Here(self)

\* main is woken by the thread that it joins, when that has added its block.
Joined ==
  /\ \A t \in ReadThreads : state[t] \in {"DYING", "DEAD", "FREED"} => Exited(t)
  /\ \A t \in ReadThreads :
       joiner[t] # "none" =>
         /\ joiner[t] = "main"
         /\ Exited(t) \/ (place["main"] \in {"joining", "collect"} /\ t = reader[arg + 1])
  /\ "main" \in Queued(ready_queue) => place["main"] = "collect" /\ self # "main"
  /\ place["main"] = "collect" /\ (self = "main" \/ "main" \in Queued(ready_queue)) => Exited(reader[arg + 1])
  /\ place["main"] = "create" => \A t \in ReadThreads : place[t] = "queue"
  /\ place["main"] # "create" => \A k \in 1 .. arg : Exited(reader[k])
  /\ place["main"] = "end" => arg = Len(reader)

\* What each thread has added: the sums of the first numbers of a list.
SumTo(parts) ==
  CHOOSE F \in [Nat -> Int] : F[0] = 0 /\ \A n \in Nat : F[n + 1] = F[n] + parts[n]
Parts == [k \in Nat |-> IF k < Len(reader) /\ Exited(reader[k + 1]) THEN StoryAt(k) ELSE 0]
Added == sum = SumTo(Parts)[Len(reader)]

Waits(t) == place[t] = "block" \/ (place[t] = "add" /\ self # t)
NoneLost ==
  \A t \in ReadThreads :
    Waits(t) =>
      \/ \E n \in 1 .. Len(pending_read_queue) : pending_read_queue[n] = t
      \/ t \in Queued(ready_queue)
      \/ Phase = "callback" /\ Kept = t

TReadInv == client = "tRead" => Aligned /\ Woken /\ Joined /\ Added /\ NoneLost
DepthInv == OneHandler /\ AReadInv /\ SReadInv /\ HuntInv /\ TReadInv

(***************************************************************************)
(* The sum of the threads of tRead                                         *)
(***************************************************************************)
\* SumTo exists.
LEMMA SumAdds ==
  ASSUME NEW parts \in [Nat -> Int]
  PROVE  /\ SumTo(parts) \in [Nat -> Int] /\ SumTo(parts)[0] = 0
         /\ \A n \in Nat : SumTo(parts)[n + 1] = SumTo(parts)[n] + parts[n]
<1> DEFINE step == [n \in Nat |-> [x \in Int |-> x + parts[n]]]
<1>1. step \in [Nat -> [Int -> Int]]
  OBVIOUS
<1>2. PICK F \in [Nat -> Int] : F[0] = 0 /\ \A n \in Nat : F[n + 1] = step[n][F[n]]
  <2> HIDE DEF step
  <2>1. 0 \in Int
    OBVIOUS
  <2>2. Recursive(Int, 0, step) # {}
    BY <1>1, <2>1, Recursion, Zenon
  <2> QED
    BY <2>2 DEF Recursive
<1>3. F[0] = 0 /\ \A n \in Nat : F[n + 1] = F[n] + parts[n]
  BY <1>2
<1> HIDE DEF step
<1> QED
  BY <1>3 DEF SumTo

\* What is added up in the same way is the same.
LEMMA SumEquals ==
  ASSUME NEW parts \in [Nat -> Int], NEW m \in Nat, NEW F, F[0] = 0,
         \A n \in Nat : n < m => F[n + 1] = F[n] + parts[n]
  PROVE  SumTo(parts)[m] = F[m]
<1> DEFINE G == SumTo(parts)
           A == {n \in Nat : n <= m => G[n] = F[n]}
<1>1. G[0] = 0 /\ \A n \in Nat : G[n + 1] = G[n] + parts[n]
  BY SumAdds
<1> HIDE DEF G
<1>2. 0 \in A
  BY <1>1
<1>3. ASSUME NEW n \in A PROVE n + 1 \in A
  <2>1. n \in Nat /\ n + 1 \in Nat /\ G[n + 1] = G[n] + parts[n] /\ (n <= m => G[n] = F[n])
    BY <1>1
  <2>2. ASSUME n + 1 <= m PROVE G[n + 1] = F[n + 1]
    <3>1. n < m /\ n <= m
      BY <2>1, <2>2
    <3>2. F[n + 1] = F[n] + parts[n]
      BY <2>1, <3>1
    <3> QED
      BY <2>1, <3>1, <3>2
  <2> QED
    BY <2>1, <2>2
<1>4. A = Nat
  <2>1. A \subseteq Nat
    OBVIOUS
  <2> HIDE DEF A
  <2> QED
    BY <1>2, <1>3, <2>1, Induction
<1>5. m \in A
  BY <1>4
<1> QED
  BY <1>5 DEF G

LEMMA PartsTypes == Parts \in [Nat -> Int] /\ Parts' \in [Nat -> Int]
BY StoryNat DEF Parts

\* Nobody exits.
LEMMA AddedSame ==
  ASSUME Added, UNCHANGED sum, \A t \in ReadThreads : Exited(t)' <=> Exited(t)
  PROVE  Added'
<1>1. ASSUME NEW k \in Nat PROVE k < Len(reader) => reader[k + 1] \in ReadThreads
  BY Readers
<1>2. Parts' = Parts
  BY <1>1 DEF Parts
<1> QED
  BY <1>2 DEF Added

\* Nobody has exited.
LEMMA AddedNone == ASSUME sum = 0, \A t \in ReadThreads : ~Exited(t) PROVE Added
<1> DEFINE zero == [n \in Nat |-> 0]
<1>1. Len(reader) \in Nat /\ \A k \in Nat : k < Len(reader) => reader[k + 1] \in ReadThreads
  BY Readers
<1>2. \A n \in Nat : Parts[n] = 0
  BY <1>1 DEF Parts
<1>3. zero[0] = 0 /\ \A n \in Nat : n < Len(reader) => zero[n + 1] = zero[n] + Parts[n]
  BY <1>2
<1>4. zero[Len(reader)] = 0
  BY <1>1
<1> HIDE DEF zero
<1>5. SumTo(Parts)[Len(reader)] = zero[Len(reader)]
  BY <1>1, <1>3, PartsTypes, SumEquals
<1> QED
  BY <1>4, <1>5 DEF Added

\* All have exited.
LEMMA AddedAll ==
  ASSUME Added, \A k \in 1 .. Len(reader) : Exited(reader[k])
  PROVE  sum = Total[Len(reader)]
<1>1. Len(reader) \in Nat /\ \A k \in Nat : k < Len(reader) => Exited(reader[k + 1])
  BY Readers
<1>2. \A n \in Nat : n < Len(reader) => Parts[n] = StoryAt(n)
  BY <1>1 DEF Parts
<1>3. Total[0] = 0 /\ \A n \in Nat : n < Len(reader) => Total[n + 1] = Total[n] + Parts[n]
  BY <1>2, TotalAdds
<1> QED
  BY <1>1, <1>3, PartsTypes, SumEquals DEF Added

\* The number of a thread.
LEMMA BlockOfReader ==
  /\ \A k \in 1 .. Len(reader) : BlockOf(reader[k]) = k - 1
  /\ \A t \in ReadThreads :
       BlockOf(t) \in Nat /\ BlockOf(t) < Len(reader) /\ reader[BlockOf(t) + 1] = t
<1>1. ASSUME NEW k \in 1 .. Len(reader) PROVE BlockOf(reader[k]) = k - 1
  <2>1. \A j \in 1 .. Len(reader) : reader[j] = reader[k] => j = k
    BY Readers
  <2> QED
    BY <2>1 DEF BlockOf
<1>2. ASSUME NEW t \in ReadThreads
      PROVE  BlockOf(t) \in Nat /\ BlockOf(t) < Len(reader) /\ reader[BlockOf(t) + 1] = t
  <2>1. PICK k \in 1 .. Len(reader) : t = reader[k]
    BY Readers
  <2>2. BlockOf(t) = k - 1
    BY <1>1, <2>1
  <2> QED
    BY <2>1, <2>2, Readers
<1> QED
  BY <1>1, <1>2

\* One thread exits and adds its block.
LEMMA AddedOne ==
  ASSUME Added, NEW t \in ReadThreads, ~Exited(t), Exited(t)',
         \A x \in ReadThreads : x # t => (Exited(x)' <=> Exited(x)),
         sum' = sum + StoryAt(BlockOf(t))
  PROVE  Added'
<1> DEFINE j == BlockOf(t)
           F == [n \in Nat |-> SumTo(Parts)[n] + IF j < n THEN StoryAt(j) ELSE 0]
           more == Parts'
<1>1. Len(reader) \in Nat /\ \A k \in Nat : k < Len(reader) => reader[k + 1] \in ReadThreads
  BY Readers
<1>2. j \in Nat /\ j < Len(reader) /\ reader[j + 1] = t /\ StoryAt(j) \in Nat
  BY BlockOfReader, StoryNat
<1>3. \A k \in Nat : k < Len(reader) /\ k # j => reader[k + 1] # t
  <2>1. ASSUME NEW k \in Nat, k < Len(reader), reader[k + 1] = t PROVE k = j
    <3>1. k + 1 \in 1 .. Len(reader)
      BY <1>1, <2>1
    <3>2. BlockOf(reader[k + 1]) = (k + 1) - 1
      BY <3>1, BlockOfReader
    <3> QED
      BY <2>1, <3>2
  <2> QED
    BY <2>1
<1>4. Parts[j] = 0 /\ more[j] = StoryAt(j) /\ \A k \in Nat : k # j => more[k] = Parts[k]
  <2> HIDE DEF j
  <2>1. Parts[j] = 0 /\ more[j] = StoryAt(j)
    BY <1>2 DEF Parts
  <2>2. ASSUME NEW k \in Nat, k # j PROVE more[k] = Parts[k]
    <3>1. CASE k < Len(reader)
      <4>1. reader[k + 1] \in ReadThreads /\ reader[k + 1] # t
        BY <1>1, <1>3, <2>2, <3>1
      <4>2. Exited(reader[k + 1])' <=> Exited(reader[k + 1])
        BY <4>1
      <4> QED
        BY <4>2 DEF Parts
    <3>2. CASE ~(k < Len(reader))
      BY <3>2 DEF Parts
    <3> QED
      BY <3>1, <3>2
  <2> QED
    BY <2>1, <2>2
<1>5. more \in [Nat -> Int] /\ Parts \in [Nat -> Int]
  BY PartsTypes
<1>6. sum = SumTo(Parts)[Len(reader)]
  BY DEF Added
<1> HIDE DEF j, more
<1>7. /\ SumTo(Parts) \in [Nat -> Int] /\ SumTo(Parts)[0] = 0
      /\ \A n \in Nat : SumTo(Parts)[n + 1] = SumTo(Parts)[n] + Parts[n]
  BY <1>5, SumAdds
<1>8. F[0] = 0
  BY <1>2, <1>7
<1>9. \A n \in Nat : F[n + 1] = F[n] + more[n]
  <2>1. ASSUME NEW n \in Nat PROVE F[n + 1] = F[n] + more[n]
    <3> DEFINE G == SumTo(Parts)
    <3>a. G[n] \in Int /\ G[n + 1] = G[n] + Parts[n] /\ Parts[n] \in Int /\ StoryAt(j) \in Int
      <4> HIDE DEF F
      <4>1. G \in [Nat -> Int] /\ \A m \in Nat : G[m + 1] = G[m] + Parts[m]
        BY <1>7, Zenon
      <4> HIDE DEF G
      <4>2. G[n + 1] = G[n] + Parts[n]
        BY <4>1
      <4>3. G[n] \in Int /\ Parts[n] \in Int
        BY <1>5, <4>1
      <4> QED
        BY <1>2, <4>2, <4>3
    <3>b. \A m \in Nat : F[m] = G[m] + (IF j < m THEN StoryAt(j) ELSE 0)
      OBVIOUS
    <3>0. /\ G[n] \in Int /\ G[n + 1] = G[n] + Parts[n] /\ Parts[n] \in Int /\ StoryAt(j) \in Int
          /\ F[n] = G[n] + (IF j < n THEN StoryAt(j) ELSE 0)
          /\ F[n + 1] = G[n + 1] + (IF j < n + 1 THEN StoryAt(j) ELSE 0)
      <4> HIDE DEF F, G
      <4> QED
        BY <3>a, <3>b
    <3> HIDE DEF F, G
    <3>1. CASE n = j
      BY <1>2, <1>4, <3>0, <3>1
    <3>2. CASE n # j
      <4>1. more[n] = Parts[n] /\ (j < n <=> j < n + 1)
        BY <1>2, <1>4, <3>2
      <4> QED
        BY <3>0, <4>1
    <3> QED
      BY <3>1, <3>2
  <2> QED
    BY <2>1
<1>10. F[Len(reader)] = sum + StoryAt(j)
  BY <1>1, <1>2, <1>6
<1> HIDE DEF F
<1>11. SumTo(more)[Len(reader)] = F[Len(reader)]
  BY <1>1, <1>5, <1>8, <1>9, SumEquals
<1> QED
  BY <1>10, <1>11 DEF Added, j, more

\* The place of the handler, with what it keeps, when there is one.
LEMMA PhaseAt ==
  ASSUME frames \in Seq(Frame)
  PROVE  /\ \A where : HandlerAt(where) => Interrupted /\ Phase = where
         /\ Interrupted => Last(frames) = frames[Len(frames)] /\ Last(frames).val = Kept
         /\ ~Interrupted => Phase = "none"
BY Innermost DEF HandlerAt, Phase, Kept

\* As long as no handler moves.
LEMMA PhaseSame == ASSUME OneHandler, UNCHANGED frames PROVE OneHandler' /\ Phase' = Phase /\ Kept' = Kept
BY DEF OneHandler, Phase, Kept, Interrupted

\* A step of the handler.
LEMMA PhaseChanged ==
  ASSUME frames \in Seq(Frame), OneHandler, Interrupted, NEW frame \in Frame,
         frames' = [frames EXCEPT ![Len(frames)] = frame]
  PROVE  OneHandler' /\ Interrupted' /\ Phase' = frame.pc /\ Kept' = frame.val
BY Changed DEF OneHandler, Phase, Kept

\* GoTo is one.
LEMMA PhaseMoved ==
  ASSUME frames \in Seq(Frame), OneHandler, Interrupted, NEW where \in Place, GoTo(where)
  PROVE  OneHandler' /\ Interrupted' /\ Phase' = where /\ Kept' = Kept
BY Moved DEF OneHandler, Phase, Kept

\* The steps of the disk, for the clients: nothing happens, or the oldest read is completed.
Quiet ==
  /\ UNCHANGED <<buf, prq, taken>>
  /\ \/ Phase \in Calm /\ Phase' \in Calm
     \/ Phase' = Phase /\ Kept' = Kept
     \/ Phase = "deliver" /\ Phase' = "isr"
Completed ==
  /\ Phase \in Calm /\ Phase' = "deliver"
  /\ prq # <<>> /\ prq' = Tail(prq) /\ taken' = taken + 1
  /\ buf' = [buf EXCEPT ![Head(prq).buf] = StoryAt(Head(prq).blockNo)]

\* Every step of the disk is one of the two, because no handler interrupts another.
LEMMA DiskPhases ==
  ASSUME MaxDepth = 1, HandlerInv, OneHandler, DiskStep
  PROVE  OneHandler' /\ (Quiet \/ Completed)
<1>t. frames \in Seq(Frame) /\ Len(frames) \in Nat
  BY DEF HandlerInv, DiskTypes
<1>p. {"prq", "deliver", "return", "isr", "prq_lock"} \subseteq Place
  BY DEF Place, DiskPlace
<1>1. CASE Tick
  BY <1>1, PhaseSame DEF Tick, signals, Quiet
<1>2. CASE Interrupt
  <2>1. /\ frames' = Append(frames, [pc |-> "prq_lock", now |-> clock, val |-> 0])
        /\ UNCHANGED <<buf, prq, taken>> /\ Len(frames) = 0
    BY <1>t, <1>2 DEF Interrupt, disk
  <2>2. Len(frames') = 1 /\ frames'[1].pc = "prq_lock"
    BY <1>t, <2>1
  <2>3. ~Interrupted /\ Interrupted'
    BY <1>t, <2>1, <2>2 DEF Interrupted
  <2> QED
    BY <2>1, <2>2, <2>3 DEF OneHandler, Phase, Quiet, Calm
<1>3. CASE Return
  <2>1. Phase = "return" /\ Interrupted /\ frames' = Front(frames) /\ UNCHANGED <<buf, prq, taken>>
    BY <1>t, <1>3, PhaseAt DEF Return, disk, HandlerAt
  <2>2. Len(frames) = 1 /\ Len(frames') = 0 /\ frames' \in Seq(Frame)
    BY <1>t, <2>1, Innermost DEF OneHandler
  <2>3. ~Interrupted'
    BY <2>2 DEF Interrupted
  <2> QED
    BY <2>1, <2>2, <2>3 DEF OneHandler, Phase, Quiet, Calm
<1>4. CASE LockPrq
  BY <1>t, <1>p, <1>4, PhaseAt, PhaseMoved DEF LockPrq, Quiet, Calm
<1>5. CASE NoneDue
  BY <1>t, <1>p, <1>5, PhaseAt, PhaseMoved DEF NoneDue, Quiet, Calm
<1>6. CASE CompleteRead
  BY <1>t, <1>p, <1>6, PhaseAt, PhaseMoved DEF CompleteRead, Due, Completed, Calm
<1>7. CASE deliverInterrupt
  BY <1>t, <1>p, <1>7, PhaseAt, PhaseMoved DEF deliverInterrupt, disk, Quiet, Calm
<1> QED
  BY <1>1, <1>2, <1>3, <1>4, <1>5, <1>6, <1>7 DEF DiskStep, handleTimerInterrupt

\* The routine does not touch the disk, so this is what a step of it does.
LEMMA ServicePhase ==
  ASSUME HandlerInv, OneHandler, NEW from, NEW where \in Place, HandlerAt(from), GoTo(where)
  PROVE  OneHandler' /\ Phase = from /\ Phase' = where /\ Kept' = Kept
BY PhaseAt, PhaseMoved DEF HandlerInv, DiskTypes

\* It finds an entry and keeps it.
LEMMA DequeuePhase ==
  ASSUME HandlerInv, OneHandler, NEW val \in Value, HandlerAt("dequeue"),
         frames' = [frames EXCEPT ![Len(frames)].pc = "callback", ![Len(frames)].val = val]
  PROVE  OneHandler' /\ Phase = "dequeue" /\ Phase' = "callback" /\ Kept' = val
<1> DEFINE last == Len(frames)
           frame == [frames[last] EXCEPT !.pc = "callback", !.val = val]
<1>1. frames \in Seq(Frame) /\ Interrupted /\ Phase = "dequeue"
  BY PhaseAt DEF HandlerInv, DiskTypes
<1>2. last \in Nat \ {0} /\ frames[last] \in Frame
  BY <1>1, Innermost
<1>3. frame \in Frame /\ frame.pc = "callback" /\ frame.val = val
  BY <1>2 DEF Frame, Place
<1>4. frames' = [frames EXCEPT ![last] = frame]
  BY <1>2
<1> HIDE DEF frame
<1> QED
  BY <1>1, <1>3, <1>4, PhaseChanged

(***************************************************************************)
(* aRead                                                                   *)
(***************************************************************************)
\* The disk gives the next block.
LEMMA AReadDisk ==
  ASSUME HandlerInv, AReadInv, Quiet \/ Completed, UNCHANGED <<client, totals, blockno>>
  PROVE  AReadInv'
<1> SUFFICES ASSUME client = "aRead" PROVE Numbered' /\ Counted'
  BY DEF AReadInv
<1>1. Numbered /\ Counted /\ prq \in Seq(Read) /\ buf \in [Buffer -> Int] /\ result \in Buffer
  BY ResultAssumption DEF AReadInv, HandlerInv, DiskTypes
<1>2. CASE Quiet
  <2>1. Numbered'
    BY <1>1, <1>2 DEF Numbered, Quiet
  <2>2. UNCHANGED <<counter, sum, taken, buf>>
    BY <1>2 DEF Quiet, totals
  <2>3. CASE Phase \in Calm /\ Phase' \in Calm
    BY <1>1, <2>1, <2>2, <2>3 DEF Counted, Calm
  <2>4. CASE Phase' = Phase /\ Kept' = Kept
    BY <1>1, <2>1, <2>2, <2>4 DEF Counted
  <2>5. CASE Phase = "deliver" /\ Phase' = "isr"
    BY <1>1, <2>1, <2>2, <2>5 DEF Counted, Calm
  <2> QED
    BY <1>2, <2>1, <2>3, <2>4, <2>5 DEF Quiet
<1>3. CASE Completed
  <2>1. /\ Len(prq) \in Nat \ {0} /\ Len(prq') = Len(prq) - 1 /\ Head(prq) = prq[1]
        /\ \A k \in 1 .. Len(prq) - 1 : prq'[k] = prq[k + 1]
    BY <1>1, <1>3, HeadTailProperties DEF Completed
  <2>2. /\ taken \in Nat /\ taken' = taken + 1 /\ blockno' = blockno /\ blockno = taken + Len(prq)
        /\ \A k \in 1 .. Len(prq) : prq[k] = [buf |-> result, blockNo |-> taken + k - 1]
    BY <1>1, <1>3 DEF Numbered, Completed
  <2>3. Numbered'
    <3>1. ASSUME NEW k \in 1 .. Len(prq) - 1
          PROVE  prq'[k] = [buf |-> result, blockNo |-> taken' + k - 1]
      <4>1. k + 1 \in 1 .. Len(prq) /\ taken + (k + 1) - 1 = taken' + k - 1
        BY <2>1, <2>2
      <4>2. prq[k + 1] = [buf |-> result, blockNo |-> taken + (k + 1) - 1]
        BY <2>2, <4>1
      <4> QED
        BY <2>1, <4>1, <4>2
    <3> QED
      BY <2>1, <2>2, <3>1 DEF Numbered
  <2>4. Head(prq) = [buf |-> result, blockNo |-> taken]
    <3>1. 1 \in 1 .. Len(prq) /\ taken + 1 - 1 = taken
      BY <2>1, <2>2
    <3> QED
      BY <2>1, <2>2, <3>1
  <2>5. buf'[result] = StoryAt(taken)
    BY <1>1, <1>3, <2>4 DEF Completed
  <2>6. counter = taken /\ sum = Total[taken] /\ UNCHANGED <<counter, sum>>
    BY <1>1, <1>3 DEF Counted, Completed, Calm, totals
  <2> QED
    BY <1>3, <2>2, <2>3, <2>5, <2>6 DEF Counted, Completed
<1> QED
  BY <1>2, <1>3

\* main requests the next block.
LEMMA AReadMain ==
  ASSUME SuiteInv, OneHandler, AReadInv, client = "aRead", main, UNCHANGED client
  PROVE  OneHandler' /\ AReadInv'
<1>1. Numbered /\ Counted /\ prq \in Seq(Read) /\ result \in Buffer /\ frames \in Seq(Frame)
      /\ blockno \in Int
  BY ResultAssumption DEF SuiteInv, AReadInv, HandlerInv, DiskTypes, ClientTypes
<1>2. /\ UNCHANGED <<frames, taken, buf, totals>>
      /\ \/ UNCHANGED <<prq, blockno>>
         \/ prq' = Append(prq, [buf |-> result, blockNo |-> blockno]) /\ blockno' = blockno + 1
  BY DEF main, IssueRead, Poll, disk_schedule_read, disk, signals
<1>3. OneHandler' /\ Phase' = Phase /\ Kept' = Kept
  BY <1>2, PhaseSame
<1>4. Counted'
  BY <1>1, <1>2, <1>3 DEF Counted, totals
<1>5. CASE UNCHANGED <<prq, blockno>>
  BY <1>1, <1>2, <1>3, <1>4, <1>5 DEF Numbered, AReadInv
<1>6. CASE prq' = Append(prq, [buf |-> result, blockNo |-> blockno]) /\ blockno' = blockno + 1
  <2> DEFINE read == [buf |-> result, blockNo |-> blockno]
  <2>1. read \in Read
    BY <1>1 DEF Read
  <2>2. prq' = Append(prq, read)
    BY <1>6
  <2>n. /\ taken \in Nat /\ blockno = taken + Len(prq) /\ taken' = taken
        /\ \A k \in 1 .. Len(prq) : prq[k] = [buf |-> result, blockNo |-> taken + k - 1]
    BY <1>1, <1>2 DEF Numbered
  <2> HIDE DEF read
  <2>3. /\ Len(prq') = Len(prq) + 1 /\ prq'[Len(prq) + 1] = read /\ Len(prq) \in Nat
        /\ \A k \in 1 .. Len(prq) : prq'[k] = prq[k]
    BY <1>1, <2>1, <2>2, AppendProperties
  <2>4. read = [buf |-> result, blockNo |-> taken + (Len(prq) + 1) - 1]
    <3>1. taken + (Len(prq) + 1) - 1 = blockno
      BY <2>n, <2>3
    <3> QED
      BY <3>1 DEF read
  <2>5. \A k \in 1 .. Len(prq) + 1 : k \in 1 .. Len(prq) \/ k = Len(prq) + 1
    BY <2>3
  <2>6. Numbered'
    BY <1>6, <2>n, <2>3, <2>4, <2>5 DEF Numbered
  <2> QED
    BY <1>3, <1>4, <2>6 DEF AReadInv
<1> QED
  BY <1>2, <1>5, <1>6

\* The callback adds the block, then counts it.
LEMMA AReadRoutine ==
  ASSUME SuiteInv, OneHandler, AReadInv, client = "aRead", interrupt_service_routine, UNCHANGED client
  PROVE  OneHandler' /\ AReadInv'
<1>h. HandlerInv /\ Numbered /\ Counted /\ prq \in Seq(Read) /\ frames \in Seq(Frame)
  BY DEF SuiteInv, AReadInv, HandlerInv, DiskTypes
<1>s. {"isr", "dequeue", "callback", "add", "count", "delivered"} \subseteq Place
  BY DEF Place, DiskPlace
<1>0. UNCHANGED <<disk, program>>
  BY DEF interrupt_service_routine, LockQueue, queue_dequeue, handle_read
<1>n. Numbered' /\ UNCHANGED <<buf, taken>>
  BY <1>h, <1>0 DEF Numbered, disk, program
<1>1. CASE LockQueue
  <2>1. OneHandler' /\ Phase = "isr" /\ Phase' = "dequeue"
    BY <1>h, <1>s, <1>1, ServicePhase DEF LockQueue
  <2> QED
    BY <1>h, <1>n, <1>1, <2>1 DEF AReadInv, Counted, Calm, LockQueue, totals
<1>2. CASE queue_dequeue
  <2>1. OneHandler' /\ Phase = "dequeue" /\ Phase' = "callback"
    BY <1>h, <1>s, <1>2, ServicePhase DEF queue_dequeue
  <2> QED
    BY <1>h, <1>n, <1>2, <2>1 DEF AReadInv, Counted, Calm, queue_dequeue, totals
<1>3. CASE handle_read /\ HandlerAt("callback")
  <2> DEFINE last == Len(frames)
             added == [frames[last] EXCEPT !.pc = "add", !.val = sum + buf[result]]
  <2>1. Interrupted /\ Phase = "callback" /\ Last(frames).pc = "callback"
    BY <1>h, <1>3, PhaseAt DEF HandlerAt
  <2>2. last \in Nat \ {0} /\ frames[last] \in Frame
    BY <1>h, <2>1, Innermost
  <2>3. /\ frames' = [frames EXCEPT ![last].pc = "add", ![last].val = sum + buf[result]]
        /\ UNCHANGED totals
    BY <1>3, <2>1 DEF handle_read, HandlerAt
  <2>4. /\ counter \in Nat /\ taken = counter + 1
        /\ sum = Total[counter] /\ buf[result] = StoryAt(counter)
    BY <1>h, <2>1 DEF Counted, Calm
  <2>5. sum + buf[result] = Total[taken] /\ Total[taken] \in Int
    BY <2>4, TotalAdds
  <2>6. sum + buf[result] \in Value
    BY <2>5, Values, Zenon
  <2>7. added \in Frame /\ added.pc = "add" /\ added.val = sum + buf[result]
    BY <1>s, <2>2, <2>6 DEF Frame
  <2>8. frames' = [frames EXCEPT ![last] = added]
    BY <2>2, <2>3
  <2> HIDE DEF added
  <2>9. OneHandler' /\ Phase' = "add" /\ Kept' = sum + buf[result]
    BY <1>h, <2>1, <2>7, <2>8, PhaseChanged
  <2> QED
    BY <1>n, <2>3, <2>4, <2>5, <2>9 DEF AReadInv, Counted, totals
<1>4. CASE handle_read /\ HandlerAt("add")
  <2>1. Interrupted /\ Phase = "add" /\ Last(frames).pc = "add" /\ Last(frames).val = Kept
    BY <1>h, <1>4, PhaseAt DEF HandlerAt
  <2>2. GoTo("count") /\ sum' = Kept /\ UNCHANGED counter
    BY <1>4, <2>1 DEF handle_read, HandlerAt
  <2>3. OneHandler' /\ Phase' = "count"
    BY <1>h, <1>s, <1>4, <2>2, ServicePhase
  <2> QED
    BY <1>h, <1>n, <2>1, <2>2, <2>3 DEF AReadInv, Counted, Calm
<1>5. CASE handle_read /\ HandlerAt("count")
  <2>1. Interrupted /\ Phase = "count" /\ Last(frames).pc = "count"
    BY <1>h, <1>5, PhaseAt DEF HandlerAt
  <2>2. GoTo("delivered") /\ counter' = counter + 1 /\ UNCHANGED sum
    BY <1>5, <2>1 DEF handle_read, HandlerAt
  <2>3. OneHandler' /\ Phase' = "delivered"
    BY <1>h, <1>s, <1>5, <2>2, ServicePhase
  <2> QED
    BY <1>h, <1>n, <2>1, <2>2, <2>3 DEF AReadInv, Counted, Calm
<1> QED
  BY <1>1, <1>2, <1>3, <1>4, <1>5 DEF interrupt_service_routine, handle_read

(***************************************************************************)
(* sRead                                                                   *)
(***************************************************************************)
\* What the program of sRead does, place by place.
LEMMA SReadPlaces ==
  ASSUME S!main
  PROVE  /\ ~Interrupted /\ UNCHANGED <<frames, buf>>
         /\ \/ /\ pc = "flag" /\ counter' = 1 /\ pc' = "schedule" /\ UNCHANGED <<prq, sum, blockno>>
            \/ /\ pc = "schedule" /\ pc' = "wait" /\ UNCHANGED <<sum, blockno, counter>>
               /\ prq' = Append(prq, [buf |-> result, blockNo |-> blockno])
            \/ /\ pc = "wait" /\ counter = 0 /\ pc' = "flag" /\ UNCHANGED prq
               /\ sum' = sum + buf[result] /\ blockno' = blockno + 1
            \/ /\ pc = "flag" /\ pc' = "end" /\ UNCHANGED <<prq, sum, blockno>>
<1>1. S!disk = disk /\ S!signals = signals /\ S!disk' = disk' /\ S!signals' = signals'
  BY DEF S!disk, disk, S!signals, signals
<1>2. CASE S!ReadBlock
  BY <1>1, <1>2, StepsS DEF S!ReadBlock, disk_schedule_read, signals, disk
<1>3. CASE S!AddBlock
  BY <1>1, <1>3, StepsS DEF S!AddBlock, signals, disk
<1>4. CASE S!Finish
  BY <1>1, <1>4, StepsS DEF S!Finish, signals, disk
<1> QED
  BY <1>2, <1>3, <1>4 DEF S!main

\* The disk completes the one read.
LEMMA SReadDisk ==
  ASSUME HandlerInv, SReadInv, Quiet \/ Completed, UNCHANGED <<client, totals, blockno, pc>>
  PROVE  SReadInv'
<1> SUFFICES ASSUME client = "sRead" PROVE SReadInv'
  BY DEF SReadInv
<1>1. SReadInv /\ prq \in Seq(Read) /\ buf \in [Buffer -> Int] /\ result \in Buffer
      /\ UNCHANGED <<client, sum, counter, blockno, pc>>
  BY ResultAssumption DEF HandlerInv, DiskTypes, totals
<1>2. CASE Quiet
  <2>1. UNCHANGED <<prq, buf>>
    BY <1>2 DEF Quiet
  <2>2. \/ Phase \in Calm /\ Phase' \in Calm
        \/ Phase' = Phase
        \/ Phase = "deliver" /\ Phase' = "isr"
    BY <1>2 DEF Quiet
  <2>3. (Phase \in Calm => Phase' \in Calm) /\ (Phase \in {"deliver", "isr"} => Phase' \in {"deliver", "isr"})
    BY <2>2 DEF Calm
  <2> QED
    BY <1>1, <2>1, <2>3 DEF SReadInv, AtRest
<1>3. CASE Completed
  <2>1. Phase \in Calm /\ prq # <<>> /\ Phase' = "deliver" /\ prq' = Tail(prq)
        /\ buf' = [buf EXCEPT ![Head(prq).buf] = StoryAt(Head(prq).blockNo)]
    BY <1>3 DEF Completed
  <2>2. prq = <<[buf |-> result, blockNo |-> blockno]>> /\ counter = 1 /\ pc = "wait"
    BY <1>1, <2>1 DEF SReadInv, AtRest, Calm
  <2>3. Head(prq) = [buf |-> result, blockNo |-> blockno] /\ prq' = <<>>
    BY <2>1, <2>2
  <2>4. buf'[result] = StoryAt(blockno)
    BY <1>1, <2>1, <2>3
  <2> QED
    BY <1>1, <2>1, <2>2, <2>3, <2>4 DEF SReadInv
<1> QED
  BY <1>2, <1>3

\* The program adds the block it asked for.
LEMMA SReadMain ==
  ASSUME SuiteInv, OneHandler, SReadInv, client = "sRead", S!main, UNCHANGED client
  PROVE  OneHandler' /\ SReadInv'
<1>1. frames \in Seq(Frame) /\ prq \in Seq(Read)
  BY DEF SuiteInv, HandlerInv, DiskTypes
<1>2. /\ blockno \in Nat /\ sum = Total[blockno] /\ pc \in {"flag", "schedule", "wait", "end"}
      /\ pc # "wait" => AtRest
      /\ pc = "schedule" => counter = 1
      /\ pc = "wait" =>
           \/ prq = <<[buf |-> result, blockNo |-> blockno]>> /\ Phase \in Calm /\ counter = 1
           \/ prq = <<>> /\ Phase \in {"deliver", "isr"} /\ counter = 1 /\ buf[result] = StoryAt(blockno)
           \/ AtRest /\ counter = 0 /\ buf[result] = StoryAt(blockno)
  BY DEF SReadInv
<1>3. OneHandler' /\ Phase' = Phase /\ Phase \in Calm
  BY <1>1, PhaseSame, PhaseAt, SReadPlaces DEF Calm
<1>4. CASE /\ pc = "flag" /\ counter' = 1 /\ pc' = "schedule" /\ UNCHANGED <<prq, sum, blockno>>
  BY <1>2, <1>3, <1>4 DEF SReadInv, AtRest
<1>5. CASE /\ pc = "schedule" /\ pc' = "wait" /\ UNCHANGED <<sum, blockno, counter>>
           /\ prq' = Append(prq, [buf |-> result, blockNo |-> blockno])
  <2>1. prq' = <<[buf |-> result, blockNo |-> blockno]>>
    BY <1>2, <1>5 DEF AtRest
  <2> QED
    BY <1>2, <1>3, <1>5, <2>1 DEF SReadInv
<1>6. CASE /\ pc = "wait" /\ counter = 0 /\ pc' = "flag" /\ UNCHANGED prq
           /\ sum' = sum + buf[result] /\ blockno' = blockno + 1
  <2>1. AtRest /\ sum' = Total[blockno'] /\ blockno' \in Nat
    BY <1>2, <1>6, TotalAdds
  <2> QED
    BY <1>3, <1>6, <2>1 DEF SReadInv, AtRest
<1>7. CASE pc = "flag" /\ pc' = "end" /\ UNCHANGED <<prq, sum, blockno>>
  BY <1>2, <1>3, <1>7 DEF SReadInv, AtRest
<1> QED
  BY <1>4, <1>5, <1>6, <1>7, SReadPlaces

\* The routine clears the flag.
LEMMA SReadRoutine ==
  ASSUME SuiteInv, OneHandler, SReadInv, client = "sRead", S!interrupt_service_routine, UNCHANGED client
  PROVE  OneHandler' /\ SReadInv'
<1>1. OneHandler' /\ Phase = "isr" /\ Phase' = "delivered" /\ counter' = 0
      /\ UNCHANGED <<buf, prq, sum, blockno, pc>>
  BY SReadSteps, ServicePhase DEF SuiteInv, Place, DiskPlace, disk
<1> QED
  BY <1>1 DEF SReadInv, AtRest, Calm

(***************************************************************************)
(* treasureHunt                                                            *)
(***************************************************************************)
\* What Trail computes.
LEMMA TrailSteps ==
  ASSUME arg \in Int
  PROVE  /\ H!Steps = StoryAt(arg) /\ H!Steps \in Nat /\ H!Trail[0] = H!Steps
         /\ \A n \in 0 .. H!Steps : H!Trail[n] \in Int
         /\ \A n \in 0 .. H!Steps - 1 : H!Trail[n + 1] = StoryAt(H!Trail[n])
<1> DEFINE base == H!Steps
           step == [n \in Nat |-> [x \in Int |-> StoryAt(x)]]
<1>s. \A b : H!StoryAt(b) = StoryAt(b)
  BY Zenon DEF H!StoryAt, StoryAt, H!story, story
<1>0. base = StoryAt(arg) /\ base \in Nat
  BY <1>s, StoryNat DEF H!Steps
<1>1. step \in [Nat -> [Int -> Int]]
  BY StoryNat
<1>2. PICK F \in [Nat -> Int] : F[0] = base /\ \A n \in Nat : F[n + 1] = step[n][F[n]]
  <2> HIDE DEF step, base
  <2>1. base \in Int
    BY <1>0
  <2>2. Recursive(Int, base, step) # {}
    BY <1>1, <2>1, Recursion, Zenon
  <2> QED
    BY <2>2 DEF Recursive
<1>3. F[0] = base /\ \A n \in Nat : F[n + 1] = StoryAt(F[n])
  BY <1>2
<1> HIDE DEF base, step
<1> DEFINE G == [n \in 0 .. base |-> F[n]]
<1>4. G = [n \in 0 .. base |-> IF n = 0 THEN base ELSE StoryAt(G[n - 1])]
  <2>1. ASSUME NEW n \in 0 .. base, n # 0 PROVE F[n] = StoryAt(G[n - 1])
    <3>1. n - 1 \in Nat /\ (n - 1) + 1 = n /\ n - 1 \in 0 .. base
      BY <1>0, <2>1
    <3> QED
      BY <1>3, <3>1
  <2> QED
    BY <1>3, <2>1
<1> HIDE DEF G
<1>5. H!Trail = [n \in 0 .. base |-> IF n = 0 THEN base ELSE StoryAt(H!Trail[n - 1])]
  BY <1>4, <1>s DEF H!Trail, base
<1>6. /\ H!Trail[0] = base
      /\ \A n \in 0 .. base - 1 : H!Trail[n + 1] = StoryAt(H!Trail[n])
  <2> DEFINE f == H!Trail
  <2>1. f = [n \in 0 .. base |-> IF n = 0 THEN base ELSE StoryAt(f[n - 1])]
    BY <1>5
  <2> HIDE DEF f
  <2>2. f[0] = base
    <3>1. 0 \in 0 .. base
      BY <1>0
    <3> QED
      BY <2>1, <3>1
  <2>3. ASSUME NEW n \in 0 .. base - 1 PROVE f[n + 1] = StoryAt(f[n])
    <3>1. n + 1 \in 0 .. base /\ n + 1 # 0 /\ (n + 1) - 1 = n
      BY <1>0
    <3> QED
      BY <2>1, <3>1
  <2> QED
    BY <2>2, <2>3 DEF f
<1>7. ASSUME NEW n \in 0 .. base PROVE H!Trail[n] \in Int
  <2> DEFINE A == {m \in Nat : m =< base => H!Trail[m] \in Int}
  <2>1. 0 \in A
    BY <1>0, <1>6
  <2>2. ASSUME NEW m \in A PROVE m + 1 \in A
    <3>1. m + 1 =< base => m \in 0 .. base - 1 /\ m =< base
      BY <1>0
    <3>2. m + 1 =< base => H!Trail[m + 1] = StoryAt(H!Trail[m]) /\ H!Trail[m] \in Int
      BY <1>6, <3>1
    <3>3. m + 1 =< base => H!Trail[m + 1] \in Int
      BY <3>2, StoryNat
    <3> QED
      BY <3>3
  <2>3. A = Nat
    <3>1. A \subseteq Nat
      OBVIOUS
    <3> HIDE DEF A
    <3> QED
      BY <2>1, <2>2, <3>1, Induction
  <2> QED
    BY <1>0, <2>3
<1> QED
  BY <1>0, <1>6, <1>7 DEF base

\* It is the trail of the program's argument.
LEMMA TrailSame == UNCHANGED arg => H!Steps' = H!Steps /\ H!Trail' = H!Trail
BY DEF H!Steps, H!Trail

\* The disk completes the one read: it stays fetched.
LEMMA HuntFetched ==
  ASSUME HandlerInv, Quiet \/ Completed, UNCHANGED pending_read_queue, NEW entry, NEW block,
         Fetched(entry, block)
  PROVE  Fetched(entry, block)'
<1>1. prq \in Seq(Read) /\ buf \in [Buffer -> Int] /\ result \in Buffer
  BY ResultAssumption DEF HandlerInv, DiskTypes
<1>2. CASE Quiet
  <2>1. UNCHANGED <<prq, buf, pending_read_queue>>
    BY <1>2 DEF Quiet
  <2>2. (Phase \in Calm => Phase' \in Calm) /\ (Phase \in Fetching => Phase' \in Fetching)
        /\ (Phase = "callback" => Phase' = Phase /\ Kept' = Kept)
    BY <1>2 DEF Quiet, Calm, Fetching
  <2> QED
    BY <2>1, <2>2 DEF Fetched
<1>3. CASE Completed
  <2>1. Phase \in Calm /\ prq # <<>> /\ Phase' = "deliver" /\ prq' = Tail(prq)
        /\ buf' = [buf EXCEPT ![Head(prq).buf] = StoryAt(Head(prq).blockNo)]
    BY <1>3 DEF Completed
  <2>2. prq = <<[buf |-> result, blockNo |-> block]>> /\ pending_read_queue = <<entry>>
    BY <2>1 DEF Fetched
  <2>3. Head(prq) = [buf |-> result, blockNo |-> block] /\ prq' = <<>>
    BY <2>1, <2>2
  <2>4. buf'[result] = StoryAt(block)
    BY <1>1, <2>1, <2>3
  <2> QED
    BY <2>1, <2>2, <2>3, <2>4 DEF Fetched, Fetching
<1> QED
  BY <1>2, <1>3

\* And where there is none nothing comes.
LEMMA HuntStays == ASSUME AtRest, Quiet \/ Completed PROVE AtRest' /\ UNCHANGED buf
BY DEF AtRest, Quiet, Completed, Calm

\* The disk, for treasureHunt.
LEMMA HuntDisk ==
  ASSUME SuiteInv, HuntInv, Quiet \/ Completed, UNCHANGED <<client, threads, callbacks, totals, blockno, pc>>
  PROVE  HuntInv'
<1> SUFFICES ASSUME client = "treasureHunt" PROVE HuntInv'
  BY DEF HuntInv
<1>1. UNCHANGED <<client, arg, sum, counter, blockno, pc, pending_read_queue>> /\ HandlerInv
  BY DEF SuiteInv, threads, totals, callbacks
<1>2. H!Steps' = H!Steps /\ H!Trail' = H!Trail
  BY <1>1, TrailSame
<1>3. Hunting' <=> Hunting
  BY <1>1, <1>2 DEF Hunting
<1>4. AtRest => AtRest' /\ UNCHANGED buf
  BY HuntStays
<1>5. \A entry, block : Fetched(entry, block) => Fetched(entry, block)'
  BY <1>1, HuntFetched
<1>i. /\ pc \in {"first", "first_read", "count", "hunt", "schedule", "wait", "end"}
      /\ pc \in {"first", "first_read", "count"} => counter = 0 /\ blockno = 0
      /\ pc = "first" => HuntRest /\ sum = 0
      /\ pc = "first_read" => AtRest /\ pending_read_queue = <<"handleFirstRead">> /\ sum = 0
      /\ pc = "count" => \/ Fetched("handleFirstRead", arg) /\ sum = 0
                         \/ HuntRest /\ sum = H!Steps /\ buf[result] = H!Steps
      /\ pc \in {"hunt", "end"} => HuntRest /\ Hunting /\ counter = blockno /\ buf[result] = H!Trail[blockno]
      /\ pc = "end" => blockno = sum
      /\ pc = "schedule" =>
           /\ AtRest /\ pending_read_queue = <<"handleOtherReads">> /\ Hunting /\ blockno < sum
           /\ counter = blockno /\ buf[result] = H!Trail[blockno]
      /\ pc = "wait" =>
           /\ Hunting /\ blockno < sum
           /\ \/ Fetched("handleOtherReads", H!Trail[blockno]) /\ counter = blockno
              \/ HuntRest /\ counter = blockno + 1 /\ buf[result] = H!Trail[blockno + 1]
  BY DEF HuntInv
<1>6. /\ pc = "count" => \/ Fetched("handleFirstRead", arg') /\ sum = 0
                         \/ HuntRest' /\ sum = H!Steps /\ buf'[result] = H!Steps
      /\ pc = "first" => HuntRest'
      /\ pc = "first_read" => AtRest'
      /\ pc \in {"hunt", "end"} => HuntRest' /\ UNCHANGED buf
      /\ pc = "schedule" => AtRest' /\ UNCHANGED buf
  BY <1>1, <1>4, <1>i DEF HuntRest
<1>7. pc = "count" => \/ Fetched("handleFirstRead", arg)' /\ sum = 0
                      \/ HuntRest' /\ sum = H!Steps /\ buf'[result] = H!Steps
  BY <1>1, <1>5, <1>6, HuntFetched
<1>8. pc = "wait" =>
        \/ Fetched("handleOtherReads", H!Trail[blockno])' /\ counter = blockno
        \/ HuntRest' /\ counter = blockno + 1 /\ buf'[result] = H!Trail[blockno + 1]
  BY <1>1, <1>2, <1>4, <1>i, HuntFetched DEF HuntRest
<1> QED
  BY <1>1, <1>2, <1>3, <1>i, <1>6, <1>7, <1>8 DEF HuntInv

\* A read that is scheduled is fetched for its entry.
LEMMA HuntScheduled ==
  ASSUME AtRest, NEW entry, pending_read_queue = <<entry>>, NEW block,
         prq' = Append(prq, [buf |-> result, blockNo |-> block]), Phase' \in Calm,
         UNCHANGED <<pending_read_queue, buf>>
  PROVE  /\ prq' = <<[buf |-> result, blockNo |-> block]>> /\ pending_read_queue' = <<entry>>
         /\ Phase' \in Calm
BY DEF AtRest

\* The program follows the numbers.
LEMMA HuntMain ==
  ASSUME SuiteInv, OneHandler, HuntInv, client = "treasureHunt", H!main, UNCHANGED <<client, threads>>
  PROVE  OneHandler' /\ HuntInv'
<1>0. frames \in Seq(Frame) /\ UNCHANGED arg /\ arg \in Int
  BY DEF SuiteInv, HandlerInv, DiskTypes, ClientTypes, threads
<1>1. ~Interrupted /\ UNCHANGED <<frames, buf, sum, counter>>
  BY HuntSteps DEF H!main, disk_schedule_read, disk, signals
<1>2. OneHandler' /\ Phase' = Phase /\ Phase = "none" /\ Kept' = Kept
  BY <1>0, <1>1, PhaseSame, PhaseAt
<1>3. /\ H!Steps' = H!Steps /\ H!Trail' = H!Trail /\ H!Steps = StoryAt(arg) /\ H!Steps \in Nat
      /\ H!Trail[0] = H!Steps
      /\ \A n \in 0 .. H!Steps - 1 : H!Trail[n + 1] = StoryAt(H!Trail[n])
  BY <1>0, TrailSame, TrailSteps
<1>i. /\ pc \in {"first", "first_read", "count"} => counter = 0 /\ blockno = 0
      /\ pc = "first" => HuntRest /\ sum = 0
      /\ pc = "first_read" => AtRest /\ pending_read_queue = <<"handleFirstRead">> /\ sum = 0
      /\ pc = "count" => \/ Fetched("handleFirstRead", arg) /\ sum = 0
                         \/ HuntRest /\ sum = H!Steps /\ buf[result] = H!Steps
      /\ pc = "hunt" => HuntRest /\ Hunting /\ counter = blockno /\ buf[result] = H!Trail[blockno]
      /\ pc = "schedule" =>
           /\ AtRest /\ pending_read_queue = <<"handleOtherReads">> /\ Hunting /\ blockno < sum
           /\ counter = blockno /\ buf[result] = H!Trail[blockno]
      /\ pc = "wait" =>
           /\ Hunting /\ blockno < sum
           /\ \/ Fetched("handleOtherReads", H!Trail[blockno]) /\ counter = blockno
              \/ HuntRest /\ counter = blockno + 1 /\ buf[result] = H!Trail[blockno + 1]
  BY DEF HuntInv
<1>4. CASE H!ReadFirst /\ pc = "first"
  <2>1. /\ pc' = "first_read" /\ UNCHANGED <<disk, blockno>>
        /\ pending_read_queue' = Append(pending_read_queue, "handleFirstRead")
    BY <1>4, HuntSteps
  <2>2. pending_read_queue' = <<"handleFirstRead">> /\ AtRest'
    BY <1>2, <1>4, <1>i, <2>1 DEF HuntRest, AtRest, disk
  <2> QED
    BY <1>1, <1>2, <1>4, <1>i, <2>1, <2>2 DEF HuntInv
<1>5. CASE H!ReadFirst /\ pc = "first_read"
  <2>1. /\ pc' = "count" /\ UNCHANGED <<pending_read_queue, blockno>>
        /\ prq' = Append(prq, [buf |-> result, blockNo |-> arg])
    BY <1>5, HuntSteps DEF disk_schedule_read
  <2>2. prq' = <<[buf |-> result, blockNo |-> arg]>> /\ pending_read_queue' = <<"handleFirstRead">> /\ Phase' \in Calm
    BY <1>1, <1>2, <1>5, <1>i, <2>1, HuntScheduled DEF Calm
  <2>3. Fetched("handleFirstRead", arg)'
    BY <1>0, <2>2 DEF Fetched
  <2> QED
    BY <1>1, <1>2, <1>5, <1>i, <2>1, <2>3 DEF HuntInv
<1>6. CASE H!ReadOther /\ pc = "hunt"
  <2>1. /\ pc' = "schedule" /\ UNCHANGED <<disk, blockno>> /\ blockno < sum
        /\ pending_read_queue' = Append(pending_read_queue, "handleOtherReads")
    BY <1>6, HuntSteps
  <2>2. pending_read_queue' = <<"handleOtherReads">> /\ AtRest' /\ Hunting'
    BY <1>1, <1>2, <1>3, <1>6, <1>i, <2>1 DEF HuntRest, AtRest, disk, Hunting
  <2> QED
    BY <1>1, <1>2, <1>3, <1>6, <1>i, <2>1, <2>2 DEF HuntInv
<1>7. CASE H!ReadOther /\ pc = "schedule"
  <2>1. /\ pc' = "wait" /\ UNCHANGED <<pending_read_queue, blockno>>
        /\ prq' = Append(prq, [buf |-> result, blockNo |-> buf[result]])
    BY <1>7, HuntSteps DEF disk_schedule_read
  <2>2. /\ prq' = <<[buf |-> result, blockNo |-> buf[result]]>> /\ pending_read_queue' = <<"handleOtherReads">>
        /\ Phase' \in Calm
    BY <1>1, <1>2, <1>7, <1>i, <2>1, HuntScheduled DEF Calm
  <2>3. Fetched("handleOtherReads", H!Trail[blockno])' /\ Hunting'
    BY <1>1, <1>3, <1>7, <1>i, <2>1, <2>2 DEF Fetched, Hunting
  <2> QED
    BY <1>1, <1>2, <1>7, <1>i, <2>1, <2>3 DEF HuntInv
<1>8. CASE H!Poll /\ pc = "count"
  <2>1. sum # 0 /\ pc' = "hunt" /\ UNCHANGED <<blockno, prq, pending_read_queue>>
    BY <1>8, HuntSteps DEF disk
  <2>2. HuntRest' /\ Hunting' /\ counter' = blockno' /\ buf'[result] = H!Trail[blockno]
    BY <1>1, <1>2, <1>3, <1>8, <1>i, <2>1 DEF HuntRest, AtRest, Hunting
  <2> QED
    BY <1>1, <1>2, <1>3, <2>1, <2>2 DEF HuntInv
<1>9. CASE H!Poll /\ pc = "wait"
  <2>1. counter # blockno /\ pc' = "hunt" /\ blockno' = blockno + 1 /\ UNCHANGED <<prq, pending_read_queue>>
    BY <1>9, HuntSteps DEF disk
  <2>2. HuntRest' /\ Hunting' /\ counter' = blockno' /\ buf'[result] = H!Trail[blockno']
    BY <1>1, <1>2, <1>3, <1>9, <1>i, <2>1 DEF HuntRest, AtRest, Hunting
  <2> QED
    BY <1>1, <1>2, <1>3, <2>1, <2>2 DEF HuntInv
<1>10. CASE H!Poll /\ pc = "hunt"
  <2>1. blockno >= sum /\ pc' = "end" /\ UNCHANGED <<blockno, prq, pending_read_queue>>
    BY <1>10, HuntSteps DEF disk
  <2>2. HuntRest' /\ Hunting' /\ counter' = blockno' /\ buf'[result] = H!Trail[blockno'] /\ blockno' = sum'
    BY <1>1, <1>2, <1>3, <1>10, <1>i, <2>1 DEF HuntRest, AtRest, Hunting
  <2> QED
    BY <1>1, <1>2, <1>3, <2>1, <2>2 DEF HuntInv
<1>11. /\ H!ReadFirst => pc \in {"first", "first_read"}
       /\ H!ReadOther => pc \in {"hunt", "schedule"}
       /\ H!Poll => pc \in {"count", "wait", "hunt"}
  BY DEF H!ReadFirst, H!ReadOther, H!Poll
<1> QED
  BY <1>4, <1>5, <1>6, <1>7, <1>8, <1>9, <1>10, <1>11 DEF H!main

\* The routine takes the entry and calls what it names.
LEMMA HuntRoutine ==
  ASSUME SuiteInv, OneHandler, HuntInv, client = "treasureHunt", UNCHANGED <<client, threads>>,
         H!callback \/ ((H!LockQueue \/ H!queue_dequeue) /\ UNCHANGED H!own)
  PROVE  OneHandler' /\ HuntInv'
<1>0. /\ frames \in Seq(Frame) /\ HandlerInv /\ arg \in Int /\ pending_read_queue \in Seq(Entry) /\ UNCHANGED arg
      /\ blockno \in Int
  BY DEF SuiteInv, HandlerInv, DiskTypes, ClientTypes, threads
<1>3. /\ H!Steps' = H!Steps /\ H!Trail' = H!Trail /\ H!Steps = StoryAt(arg) /\ H!Steps \in Nat
      /\ \A n \in 0 .. H!Steps - 1 : H!Trail[n + 1] = StoryAt(H!Trail[n])
  BY <1>0, TrailSame, TrailSteps
<1>s. {"isr", "dequeue", "callback", "delivered"} \subseteq Place
  BY DEF Place, DiskPlace
<1>d. UNCHANGED <<prq, buf, blockno, pc>>
  BY StepsH, HuntSteps DEF disk, H!own
<1>i. /\ pc \in {"first", "first_read", "count", "hunt", "schedule", "wait", "end"}
      /\ pc \in {"first", "first_read", "hunt", "schedule", "end"} => Phase \in Calm
      /\ pc = "count" => /\ counter = 0 /\ blockno = 0
                         /\ \/ Fetched("handleFirstRead", arg) /\ sum = 0
                            \/ HuntRest /\ sum = H!Steps /\ buf[result] = H!Steps
      /\ pc = "wait" =>
           /\ Hunting /\ blockno < sum
           /\ \/ Fetched("handleOtherReads", H!Trail[blockno]) /\ counter = blockno
              \/ HuntRest /\ counter = blockno + 1 /\ buf[result] = H!Trail[blockno + 1]
  BY DEF HuntInv, HuntRest, AtRest
<1>r. HuntRest \/ AtRest => Phase \in Calm
  BY DEF HuntRest, AtRest
<1>f. Phase \notin Calm =>
        \/ pc = "count" /\ Fetched("handleFirstRead", arg) /\ sum = 0 /\ counter = 0 /\ blockno = 0
        \/ /\ pc = "wait" /\ Fetched("handleOtherReads", H!Trail[blockno]) /\ counter = blockno
           /\ Hunting /\ blockno < sum
  BY <1>i, <1>r
<1>1. ASSUME Phase \notin Calm, UNCHANGED <<sum, counter>>,
             \A entry, block : entry \in Entry /\ Fetched(entry, block) =>
               \/ /\ prq' = <<>> /\ pending_read_queue' = <<entry>> /\ Phase' \in Fetching
                  /\ buf'[result] = StoryAt(block)
               \/ /\ prq' = <<>> /\ pending_read_queue' = <<>> /\ Phase' = "callback" /\ Kept' = entry
                  /\ buf'[result] = StoryAt(block)
      PROVE  HuntInv'
  <2>1. CASE /\ pc = "count" /\ Fetched("handleFirstRead", arg) /\ sum = 0 /\ counter = 0 /\ blockno = 0
    <3>1. Fetched("handleFirstRead", arg)'
      BY <1>0, <1>1, <2>1 DEF Fetched, Entry
    <3> QED
      BY <1>d, <1>1, <2>1, <3>1 DEF HuntInv
  <2>2. CASE /\ pc = "wait" /\ Fetched("handleOtherReads", H!Trail[blockno]) /\ counter = blockno
             /\ Hunting /\ blockno < sum
    <3>1. Fetched("handleOtherReads", H!Trail[blockno])'
      BY <1>3, <1>d, <1>1, <2>2 DEF Fetched, Entry
    <3>2. Hunting'
      BY <1>3, <1>d, <1>1, <2>2 DEF Hunting
    <3> QED
      BY <1>d, <1>1, <2>2, <3>1, <3>2 DEF HuntInv
  <2> QED
    BY <1>f, <1>1, <2>1, <2>2
<1>4. CASE H!LockQueue /\ UNCHANGED H!own
  <2>1. OneHandler' /\ Phase = "isr" /\ Phase' = "dequeue" /\ UNCHANGED <<pending_read_queue, sum, counter>>
    BY <1>0, <1>s, <1>4, StepsH, ServicePhase DEF H!own
  <2> QED
    BY <1>1, <1>d, <2>1 DEF Fetched, Calm, Fetching
<1>5. CASE H!queue_dequeue /\ UNCHANGED H!own
  <2>1. /\ HandlerAt("dequeue") /\ pending_read_queue # <<>> /\ pending_read_queue' = Tail(pending_read_queue)
        /\ frames' = [frames EXCEPT ![Len(frames)].pc = "callback",
                                    ![Len(frames)].val = Head(pending_read_queue)]
        /\ UNCHANGED <<sum, counter>>
    BY <1>5, HuntSteps DEF H!own
  <2>2. Head(pending_read_queue) \in Value
    <3>1. Head(pending_read_queue) \in Entry
      BY <1>0, <2>1, HeadTailProperties
    <3> QED
      BY <3>1, Values, Zenon
  <2>3. OneHandler' /\ Phase = "dequeue" /\ Phase' = "callback" /\ Kept' = Head(pending_read_queue)
    BY <1>0, <2>1, <2>2, DequeuePhase
  <2>4. \A entry : pending_read_queue = <<entry>> => pending_read_queue' = <<>> /\ Kept' = entry
    BY <2>1, <2>3
  <2> QED
    BY <1>1, <1>d, <2>1, <2>3, <2>4 DEF Fetched, Calm, Fetching
<1>6. CASE H!callback
  <2>1. /\ OneHandler' /\ Phase = "callback" /\ Phase' = "delivered"
        /\ \/ Kept = "handleFirstRead" /\ sum' = buf[result] /\ UNCHANGED counter
           \/ Kept = "handleOtherReads" /\ counter' = counter + 1 /\ UNCHANGED sum
        /\ UNCHANGED pending_read_queue
    BY <1>0, <1>s, <1>6, HuntSteps, ServicePhase, PhaseAt
  <2>2. CASE pc = "count" /\ Fetched("handleFirstRead", arg) /\ sum = 0 /\ counter = 0 /\ blockno = 0
    <3>1. Kept = "handleFirstRead" /\ buf[result] = H!Steps /\ prq = <<>> /\ pending_read_queue = <<>>
      BY <1>3, <2>1, <2>2 DEF Fetched, Calm, Fetching
    <3>2. HuntRest' /\ sum' = H!Steps' /\ buf'[result] = H!Steps' /\ counter' = 0 /\ blockno' = 0
      BY <1>3, <1>d, <2>1, <2>2, <3>1 DEF HuntRest, AtRest, Calm
    <3> QED
      BY <1>d, <2>1, <2>2, <3>2 DEF HuntInv
  <2>3. CASE /\ pc = "wait" /\ Fetched("handleOtherReads", H!Trail[blockno]) /\ counter = blockno
             /\ Hunting /\ blockno < sum
    <3>1. Kept = "handleOtherReads" /\ buf[result] = StoryAt(H!Trail[blockno]) /\ prq = <<>>
          /\ pending_read_queue = <<>>
      BY <2>1, <2>3 DEF Fetched, Calm, Fetching
    <3>2. H!Trail[blockno + 1] = StoryAt(H!Trail[blockno])
      <4>1. blockno \in 0 .. H!Steps - 1
        BY <1>3, <2>3 DEF Hunting
      <4> QED
        BY <1>3, <4>1
    <3>3. HuntRest' /\ Hunting' /\ counter' = blockno' + 1 /\ buf'[result] = H!Trail[blockno + 1]
      BY <1>3, <1>d, <2>1, <2>3, <3>1, <3>2 DEF HuntRest, AtRest, Calm, Hunting
    <3> QED
      BY <1>3, <1>d, <2>1, <2>3, <3>1, <3>3 DEF HuntInv
  <2>4. Phase \notin Calm
    BY <2>1 DEF Calm
  <2> QED
    BY <1>f, <2>1, <2>2, <2>3, <2>4
<1> QED
  BY <1>4, <1>5, <1>6

(***************************************************************************)
(* tRead                                                                   *)
(***************************************************************************)
\* How many entries there are, and who they are for.
LEMMA EntriesOf ==
  ASSUME SuiteInv, OneHandler, client = "tRead", Aligned
  PROVE  /\ Len(prq) \in Nat /\ Len(pending_read_queue) \in Nat
         /\ Len(pending_read_queue) =
              Len(prq) + (IF Phase \in Fetching THEN 1 ELSE 0) + (IF Unread THEN 1 ELSE 0)
         /\ \A n \in 1 .. Len(pending_read_queue) : pending_read_queue[n] \in ReadThreads
<1>1. frames \in Seq(Frame) /\ prq \in Seq(Read) /\ pending_read_queue \in Seq(ReadThreads)
  BY DEF SuiteInv, HandlerInv, DiskTypes, Aligned
<1>2. Underway = IF Phase \in Fetching THEN 1 ELSE 0
  <2>1. CASE Interrupted
    <3>1. Len(frames) = 1 /\ Phase = frames[Len(frames)].pc
      <4>1. Len(frames) \in Nat \ {0}
        BY <1>1, <2>1, Innermost
      <4>2. Len(frames) = 1
        BY <4>1 DEF OneHandler
      <4>3. Phase = frames[Len(frames)].pc
        BY <2>1 DEF Phase
      <4> QED
        BY <4>2, <4>3
    <3>2. OuterInFlight(frames) = {}
      BY <3>1 DEF OuterInFlight
    <3>3. Underway = Cardinality(OuterInFlight(frames)) + IF frames[Len(frames)].pc \in Fetching THEN 1 ELSE 0
      <4>1. Len(frames) > 0
        BY <3>1
      <4> QED
        BY <1>1, <4>1, CountSplit DEF Underway
    <3> QED
      BY <3>1, <3>2, <3>3, FS_EmptySet
  <2>2. CASE ~Interrupted
    <3>1. InFlight(frames) = {} /\ Phase \notin Fetching
      BY <1>1, <2>2 DEF Interrupted, InFlight, Phase, Fetching
    <3> QED
      BY <3>1, FS_EmptySet DEF Underway
  <2> QED
    BY <2>1, <2>2
<1>3. Len(pending_read_queue) = Len(prq) + Underway + IF Unread THEN 1 ELSE 0
  BY DEF SuiteInv, EntryInv
<1>4. Len(prq) \in Nat /\ Len(pending_read_queue) \in Nat
  BY <1>1
<1>5. \A n \in 1 .. Len(pending_read_queue) : pending_read_queue[n] \in ReadThreads
  BY <1>1
<1> QED
  BY <1>2, <1>3, <1>4, <1>5

\* The threads that read, as the types say.
LEMMA ReadersOf ==
  ASSUME SuiteInv, client = "tRead"
  PROVE  /\ ReadThreads \subseteq Threads /\ ReadThreads \subseteq Buffer
         /\ "main" \in Threads \ ReadThreads /\ "base" \in Threads \ ReadThreads
         /\ \A t \in Threads : t \in ReadThreads \/ t = "main" \/ t = "base"
         /\ ready_queue \in Seq(Threads) /\ self \in Threads
         /\ \A t \in ReadThreads : place[t] \in Reading
         /\ place["main"] \in Joining /\ place["base"] \in {"loop", "yielding"}
         /\ place \in [Threads -> Reading \cup Joining \cup {"loop", "yielding"}]
         /\ \A t \in Threads : place[t] \in Held => self = t
         /\ state \in [Threads -> State] /\ joiner \in [Threads -> Threads \cup {"none"}]
         /\ arg \in 0 .. Len(reader) /\ (place["main"] \in {"joining", "collect"} => arg < Len(reader))
         /\ buf \in [Buffer -> Int] /\ prq \in Seq(Read) /\ frames \in Seq(Frame) /\ sum \in Int
         /\ pending_read_queue \in Seq(Entry)
         /\ Unread <=> self \in ReadThreads /\ place[self] = "schedule"
<1>1. /\ ReadThreads \subseteq Threads /\ ReadThreads \subseteq Buffer
      /\ "main" \in Threads \ ReadThreads /\ "base" \in Threads \ ReadThreads
      /\ \A t \in Threads : t \in ReadThreads \/ t = "main" \/ t = "base"
  BY Readers DEF Threads
<1>3. /\ ready_queue \in Seq(Threads) /\ self \in Threads
      /\ \A t \in ReadThreads : place[t] \in Reading
      /\ place["main"] \in Joining /\ place["base"] \in {"loop", "yielding"}
      /\ place \in [Threads -> Reading \cup Joining \cup {"loop", "yielding"}]
      /\ \A t \in Threads : place[t] \in Held => self = t
      /\ state \in [Threads -> State] /\ joiner \in [Threads -> Threads \cup {"none"}]
      /\ arg \in 0 .. Len(reader) /\ (place["main"] \in {"joining", "collect"} => arg < Len(reader))
  BY DEF SuiteInv, ThreadTypes
<1>4. /\ buf \in [Buffer -> Int] /\ prq \in Seq(Read) /\ frames \in Seq(Frame) /\ sum \in Int
      /\ pending_read_queue \in Seq(Entry)
  BY DEF SuiteInv, HandlerInv, DiskTypes, ClientTypes
<1>5. Unread <=> self \in ReadThreads /\ place[self] = "schedule"
  BY DEF Unread
<1> QED
  BY <1>1, <1>3, <1>4, <1>5

\* What the disk does for the handler of an entry.
LEMMA QuietPhases ==
  ASSUME Quiet \/ Completed
  PROVE  /\ Phase' = "callback" <=> Phase = "callback"
         /\ Phase = "callback" => Kept' = Kept
         /\ Quiet => (Phase' \in Fetching <=> Phase \in Fetching)
         /\ Completed => Phase \notin Fetching /\ Phase' \in Fetching
BY DEF Quiet, Completed, Calm, Fetching

\* The disk delivers the blocks in the order of the entries.
LEMMA TReadDisk ==
  ASSUME SuiteInv, OneHandler, TReadInv, client = "tRead", Quiet \/ Completed,
         UNCHANGED <<client, threads, callbacks, totals>>
  PROVE  TReadInv'
<1>i. Aligned /\ Woken /\ Joined /\ Added /\ NoneLost
  BY DEF TReadInv
<1>u. UNCHANGED <<ready_queue, self, state, joiner, arg, place, pending_read_queue, sum>> /\ (Unread' <=> Unread)
  BY DEF threads, callbacks, totals, Unread
<1>p. /\ Phase' = "callback" <=> Phase = "callback"
      /\ Phase = "callback" => Kept' = Kept
  BY QuietPhases
<1>c. Phase = "callback" => Kept \in ReadThreads
  BY <1>i DEF Aligned
<1>a. /\ pending_read_queue \in Seq(ReadThreads)
      /\ \A n \in 1 .. Len(prq) : prq[n].buf \in ReadThreads /\ prq[n].blockNo = BlockOf(prq[n].buf)
      /\ Phase \notin Fetching => \A n \in 1 .. Len(prq) : pending_read_queue[n] = prq[n].buf
      /\ Unread => pending_read_queue[Len(pending_read_queue)] = self
      /\ Phase = "callback" => Kept \in ReadThreads /\ Here(Kept)
  BY <1>i DEF Aligned
<1>1. (\A t \in ReadThreads : Here(t) => Here(t)') /\ Aligned'
  <2>1. CASE Quiet
    <3>1. UNCHANGED <<buf, prq>> /\ (Phase' \in Fetching <=> Phase \in Fetching)
      BY <2>1, QuietPhases DEF Quiet
    <3>2. \A t : Here(t)' <=> buf[t] = StoryAt(BlockOf(t))
      BY <3>1 DEF Here
    <3> QED
      BY <1>i, <1>u, <1>p, <3>1, <3>2 DEF Aligned, Here
  <2>2. CASE Completed
    <3>1. /\ Phase \notin Fetching /\ Phase' \in Fetching /\ prq # <<>> /\ prq' = Tail(prq)
          /\ buf' = [buf EXCEPT ![Head(prq).buf] = StoryAt(Head(prq).blockNo)]
      BY <2>2, QuietPhases DEF Completed
    <3>2. /\ Len(prq) \in Nat \ {0} /\ Len(prq') = Len(prq) - 1 /\ Head(prq) = prq[1]
          /\ \A n \in 1 .. Len(prq) - 1 : prq'[n] = prq[n + 1]
      BY <3>1, ReadersOf, HeadTailProperties
    <3>3. \A n \in 1 .. Len(prq) - 1 : n + 1 \in 1 .. Len(prq)
      BY <3>2
    <3>4. 1 \in 1 .. Len(prq)
      BY <3>2
    <3>5. Head(prq).buf \in ReadThreads /\ Head(prq).blockNo = BlockOf(Head(prq).buf)
          /\ pending_read_queue[1] = Head(prq).buf
      BY <1>a, <3>1, <3>2, <3>4
    <3>6. PICK b \in ReadThreads : b = Head(prq).buf
      BY <3>5
    <3>7. (\A t \in ReadThreads : Here(t) => Here(t)') /\ Here(b)'
      <4>1. b \in Buffer /\ buf \in [Buffer -> Int] /\ ReadThreads \subseteq Buffer
        BY ReadersOf
      <4>2. buf' = [buf EXCEPT ![b] = StoryAt(BlockOf(b))]
        BY <3>1, <3>5, <3>6
      <4>3. \A t \in ReadThreads : Here(t)' <=> buf'[t] = StoryAt(BlockOf(t))
        BY DEF Here
      <4> QED
        BY <4>1, <4>2, <4>3 DEF Here
    <3>8. Here(pending_read_queue[1])'
      BY <1>u, <3>5, <3>6, <3>7 DEF Here
    <3>9. \A n \in 1 .. Len(prq') : pending_read_queue[n + 1] = prq'[n].buf
                               /\ prq'[n].buf \in ReadThreads /\ prq'[n].blockNo = BlockOf(prq'[n].buf)
      BY <1>a, <3>1, <3>2, <3>3
    <3>10. Phase' = "callback" => Kept' \in ReadThreads /\ Here(Kept)'
      BY <1>p, <3>1 DEF Fetching
    <3> QED
      BY <1>a, <1>u, <3>1, <3>7, <3>8, <3>9, <3>10 DEF Aligned
  <2> QED
    BY <2>1, <2>2
<1>2. Woken'
  BY <1>i, <1>u, <1>p, <1>1 DEF Woken
<1>3. Joined' /\ NoneLost'
  BY <1>i, <1>u, <1>p DEF Joined, Exited, NoneLost, Waits
<1>4. Added'
  BY <1>i, <1>u, AddedSame DEF Exited
<1> QED
  BY <1>1, <1>2, <1>3, <1>4 DEF TReadInv

\* What the steps of threads have in common: no handler runs, and the disk has what it had.
LEMMA NoPhase ==
  ASSUME SuiteInv, OneHandler, client = "tRead", ~Interrupted, UNCHANGED <<frames, buf>>
  PROVE  /\ OneHandler' /\ Phase = "none" /\ Phase' = "none" /\ Phase \notin Fetching
         /\ \A t : Here(t)' <=> Here(t)
BY PhaseAt, PhaseSame DEF SuiteInv, HandlerInv, DiskTypes, Here, Fetching

\* What is the matter when main or the idle thread goes on: who is queued besides.
LEMMA OthersKeep ==
  ASSUME SuiteInv, OneHandler, TReadInv, client = "tRead", UNCHANGED client, ~Interrupted,
         self \in {"main", "base"}, UNCHANGED <<self, sum, pending_read_queue, frames, buf, prq>>,
         \A t \in ReadThreads : place'[t] = place[t],
         NoDuplicates(ready_queue'), Queued(ready_queue) \subseteq Queued(ready_queue'),
         \A t \in Queued(ready_queue') \cap ReadThreads : t \in Queued(ready_queue) \/ place[t] = "queue"
  PROVE  OneHandler' /\ Aligned' /\ Woken' /\ Added' /\ NoneLost'
<1>1. /\ OneHandler' /\ Phase = "none" /\ Phase' = "none" /\ Phase \notin Fetching
      /\ \A t : Here(t)' <=> Here(t)
  BY NoPhase
<1>2. self \notin ReadThreads /\ ~Unread /\ ~Unread'
  BY ReadersOf DEF Unread
<1>3. Aligned /\ Woken /\ Joined /\ Added /\ NoneLost
  BY DEF TReadInv
<1>4. Aligned'
  BY <1>1, <1>2, <1>3 DEF Aligned
<1>5. \A n \in 1 .. Len(pending_read_queue) : pending_read_queue[n] \in ReadThreads
  BY <1>3, EntriesOf
<1>6. Woken'
  BY <1>1, <1>2, <1>3, <1>5 DEF Woken
<1>7. Added' /\ NoneLost'
  BY <1>1, <1>2, <1>3, AddedSame DEF Exited, NoneLost, Waits
<1> QED
  BY <1>1, <1>4, <1>6, <1>7

\* The thread of a block queues its entry.
LEMMA QueueKeeps ==
  ASSUME SuiteInv, OneHandler, TReadInv, client = "tRead", UNCHANGED client, NEW t \in Threads, QueueStep(t)
  PROVE  OneHandler' /\ TReadInv'
<1>1. /\ self = t /\ place[t] = "queue" /\ place' = [place EXCEPT ![t] = "schedule"] /\ ~Interrupted
      /\ pending_read_queue' = Append(pending_read_queue, t)
      /\ UNCHANGED <<ready_queue, self, state, joiner, sum, arg, frames, buf, prq>>
  BY DEF QueueStep, Turn, disk
<1>2. /\ OneHandler' /\ Phase = "none" /\ Phase' = "none" /\ Phase \notin Fetching
      /\ \A x : Here(x)' <=> Here(x)
  BY <1>1, NoPhase
<1>i. Aligned /\ Woken /\ Joined /\ Added /\ NoneLost
  BY DEF TReadInv
<1>3. t \in ReadThreads
  BY <1>1, ReadersOf DEF Joining
<1>4. /\ place'[t] = "schedule" /\ \A x \in Threads : x # t => place'[x] = place[x]
  BY <1>1, ReadersOf
<1>5. ReadThreads \subseteq Threads /\ "main" \notin ReadThreads /\ "main" \in Threads
  BY ReadersOf
<1>6. Unread' /\ ~Unread /\ Len(pending_read_queue) = Len(prq) /\ Len(prq) \in Nat
  BY <1>i, <1>1, <1>2, <1>3, <1>4, EntriesOf DEF Unread, ReadThreads
<1>7. /\ pending_read_queue \in Seq(ReadThreads) /\ pending_read_queue' \in Seq(ReadThreads)
      /\ Len(pending_read_queue') = Len(prq) + 1
      /\ pending_read_queue'[Len(prq) + 1] = t
      /\ \A n \in 1 .. Len(prq) : pending_read_queue'[n] = pending_read_queue[n]
  BY <1>i, <1>1, <1>3, <1>6, AppendProperties DEF Aligned
<1>8. Aligned'
  BY <1>i, <1>1, <1>2, <1>6, <1>7 DEF Aligned
<1>n. \A n \in 1 .. Len(prq) + 1 : n \in 1 .. Len(prq) \/ n = Len(prq) + 1
  BY <1>6
<1>q. \A n \in 1 .. Len(prq) : pending_read_queue[n] \in ReadThreads
  BY <1>6, <1>7
<1>9. Woken'
  <2>1. \A x \in Threads : place'[x] = "queue" => place[x] = "queue"
    BY <1>4
  <2>2. \A n \in 1 .. Len(pending_read_queue') : place'[pending_read_queue'[n]] # "queue"
    BY <1>i, <1>3, <1>4, <1>5, <1>6, <1>7, <1>n, <1>q, <2>1 DEF Woken
  <2>3. \A x \in Queued(ready_queue') \cap ReadThreads : place'[x] = "queue" \/ Here(x)'
    BY <1>i, <1>1, <1>2, <1>3, <1>4, <1>5 DEF Woken
  <2> QED
    BY <1>i, <1>1, <1>2, <1>4, <2>2, <2>3 DEF Woken
<1>10. \A x \in ReadThreads : Exited(x)' <=> Exited(x)
  BY <1>1, <1>4, <1>5 DEF Exited
<1>11. Joined'
  <2>1. UNCHANGED place["main"] /\ place["main"] # "create"
    BY <1>1, <1>3, <1>4, <1>5, ReadersOf DEF Held
  <2>2. \A k \in 1 .. Len(reader) : reader[k] \in ReadThreads
    BY Readers DEF ReadThreads
  <2>3. arg \in 0 .. Len(reader) /\ (place["main"] = "collect" => arg < Len(reader))
    BY ReadersOf
  <2>4. place["main"] = "collect" => reader[arg + 1] \in ReadThreads
    BY <2>2, <2>3
  <2> QED
    BY <1>i, <1>1, <1>10, <2>1, <2>2, <2>3, <2>4 DEF Joined
<1>12. Added'
  BY <1>i, <1>1, <1>10, AddedSame
<1>13. NoneLost'
  <2>1. ASSUME NEW x \in ReadThreads, Waits(x)' PROVE Waits(x) /\ x # t
    BY <1>1, <1>4, <1>5, <2>1 DEF Waits
  <2> QED
    BY <1>i, <1>1, <1>2, <1>6, <1>7, <1>n, <2>1 DEF NoneLost
<1> QED
  BY <1>2, <1>8, <1>9, <1>11, <1>12, <1>13 DEF TReadInv

\* It schedules its read.
LEMMA ScheduleKeeps ==
  ASSUME SuiteInv, OneHandler, TReadInv, client = "tRead", UNCHANGED client,
         NEW t \in Threads, NEW k \in DOMAIN reader, reader[k] = t, ScheduleStep(t, k - 1)
  PROVE  OneHandler' /\ TReadInv'
<1>1. /\ self = t /\ place[t] = "schedule" /\ place' = [place EXCEPT ![t] = "block"] /\ ~Interrupted
      /\ prq' = Append(prq, [buf |-> t, blockNo |-> k - 1])
      /\ UNCHANGED <<ready_queue, self, state, joiner, sum, arg, frames, buf, pending_read_queue>>
  BY DEF ScheduleStep, Turn, disk_schedule_read
<1>2. /\ OneHandler' /\ Phase = "none" /\ Phase' = "none" /\ Phase \notin Fetching
      /\ \A x : Here(x)' <=> Here(x)
  BY <1>1, NoPhase
<1>i. Aligned /\ Woken /\ Joined /\ Added /\ NoneLost
  BY DEF TReadInv
<1>3. t \in ReadThreads /\ k - 1 = BlockOf(t) /\ k - 1 \in Int
  BY Readers, BlockOfReader
<1>4. /\ place'[t] = "block" /\ \A x \in Threads : x # t => place'[x] = place[x]
  BY <1>1, ReadersOf
<1>5. ReadThreads \subseteq Threads /\ "main" \notin ReadThreads /\ "main" \in Threads /\ ReadThreads \subseteq Buffer
  BY ReadersOf
<1>6. Unread /\ ~Unread' /\ Len(pending_read_queue) = Len(prq) + 1 /\ Len(prq) \in Nat
      /\ pending_read_queue[Len(prq) + 1] = t
  <2>1. Unread /\ ~Unread'
    BY <1>1, <1>3, <1>4 DEF Unread, ReadThreads
  <2>2. Len(pending_read_queue) = Len(prq) + 1 /\ Len(prq) \in Nat
    BY <1>i, <1>2, <2>1, EntriesOf
  <2>3. pending_read_queue[Len(pending_read_queue)] = self
    BY <1>i, <2>1 DEF Aligned
  <2> QED
    BY <1>1, <2>1, <2>2, <2>3
<1> DEFINE read == [buf |-> t, blockNo |-> k - 1]
<1>r. read \in Read /\ read.buf = t /\ read.blockNo = k - 1
  BY <1>3, <1>5 DEF Read
<1>7. /\ Len(prq') = Len(prq) + 1 /\ prq'[Len(prq) + 1] = read
      /\ \A n \in 1 .. Len(prq) : prq'[n] = prq[n]
  <2>1. prq \in Seq(Read) /\ prq' = Append(prq, read)
    BY <1>1, ReadersOf
  <2> HIDE DEF read
  <2> QED
    BY <1>r, <2>1, AppendProperties
<1> HIDE DEF read
<1>n. \A n \in 1 .. Len(prq) + 1 : n \in 1 .. Len(prq) \/ n = Len(prq) + 1
  BY <1>6
<1>8. Aligned'
  <2>1. \A n \in 1 .. Len(prq') : prq'[n].buf \in ReadThreads /\ prq'[n].blockNo = BlockOf(prq'[n].buf)
                                  /\ pending_read_queue[n] = prq'[n].buf
    BY <1>i, <1>2, <1>3, <1>6, <1>r, <1>7, <1>n DEF Aligned
  <2> QED
    BY <1>i, <1>1, <1>2, <1>6, <2>1 DEF Aligned
<1>9. Woken'
  <2>2. \A n \in 1 .. Len(pending_read_queue') : place'[pending_read_queue'[n]] # "queue"
    <3>1. \A n \in 1 .. Len(pending_read_queue) : pending_read_queue[n] \in ReadThreads
      BY <1>i, EntriesOf
    <3> QED
      BY <1>i, <1>1, <1>4, <1>5, <3>1 DEF Woken
  <2>3. \A x \in Queued(ready_queue') \cap ReadThreads : place'[x] = "queue" \/ Here(x)'
    BY <1>i, <1>1, <1>2, <1>3, <1>4, <1>5 DEF Woken
  <2> QED
    BY <1>i, <1>1, <1>2, <1>4, <2>2, <2>3 DEF Woken
<1>10. \A x \in ReadThreads : Exited(x)' <=> Exited(x)
  BY <1>1, <1>4, <1>5 DEF Exited
<1>11. Joined'
  <2>1. UNCHANGED place["main"] /\ place["main"] # "create"
    BY <1>1, <1>3, <1>4, <1>5, ReadersOf DEF Held
  <2>2. \A j \in 1 .. Len(reader) : reader[j] \in ReadThreads
    BY Readers DEF ReadThreads
  <2>3. arg \in 0 .. Len(reader) /\ (place["main"] = "collect" => arg < Len(reader))
    BY ReadersOf
  <2>4. place["main"] = "collect" => reader[arg + 1] \in ReadThreads
    BY <2>2, <2>3
  <2> QED
    BY <1>i, <1>1, <1>10, <2>1, <2>2, <2>3, <2>4 DEF Joined
<1>12. Added'
  BY <1>i, <1>1, <1>10, AddedSame
<1>13. NoneLost'
  <2>0. Len(prq) + 1 \in 1 .. Len(pending_read_queue)
    BY <1>6
  <2>1. ASSUME NEW x \in ReadThreads, Waits(x)' PROVE Waits(x) \/ x = t
    BY <1>1, <1>4, <1>5, <2>1 DEF Waits
  <2> QED
    BY <1>i, <1>1, <1>2, <1>6, <2>0, <2>1 DEF NoneLost
<1> QED
  BY <1>2, <1>8, <1>9, <1>11, <1>12, <1>13 DEF TReadInv

\* It adds its block, and wakes the one that joins it.
LEMMA AddKeeps ==
  ASSUME SuiteInv, OneHandler, TReadInv, client = "tRead", UNCHANGED client, NEW t \in Threads, AddStep(t)
  PROVE  OneHandler' /\ TReadInv'
<1>1. /\ self = t /\ place[t] = "add" /\ place' = [place EXCEPT ![t] = "dying"] /\ ~Interrupted
      /\ place["main"] # "end"
      /\ sum' = sum + buf[t] /\ state' = [state EXCEPT ![t] = "DYING"]
      /\ IF joiner[t] = "none" THEN UNCHANGED ready_queue ELSE Makes(joiner[t])
      /\ UNCHANGED <<self, joiner, arg, frames, buf, prq, pending_read_queue>>
  BY DEF AddStep, Turn, ThreadsOnly, disk
<1>2. /\ OneHandler' /\ Phase = "none" /\ Phase' = "none" /\ Phase \notin Fetching
      /\ \A x : Here(x)' <=> Here(x)
  BY <1>1, NoPhase
<1>i. Aligned /\ Woken /\ Joined /\ Added /\ NoneLost
  BY DEF TReadInv
<1>5. ReadThreads \subseteq Threads /\ "main" \notin ReadThreads /\ "main" \in Threads /\ "base" \notin ReadThreads
      /\ ready_queue \in Seq(Threads)
  BY ReadersOf
<1>3. t \in ReadThreads
  BY <1>1, ReadersOf DEF Joining
<1>4. /\ place'[t] = "dying" /\ \A x \in Threads : x # t => place'[x] = place[x]
  BY <1>1, ReadersOf
<1>6. ~Unread /\ ~Unread'
  BY <1>1, <1>4 DEF Unread
<1>7. place["main"]' = place["main"] /\ place["main"] \notin {"create", "joining"}
  BY <1>1, <1>3, <1>4, <1>5, ReadersOf DEF Held
<1>8. /\ ready_queue' \in Seq(Threads) /\ NoDuplicates(ready_queue')
      /\ \/ joiner[t] = "none" /\ Queued(ready_queue') = Queued(ready_queue)
         \/ joiner[t] = "main" /\ Queued(ready_queue') = Queued(ready_queue) \cup {"main"}
  <2>1. NoDuplicates(ready_queue) /\ (joiner[t] # "none" => joiner[t] = "main")
    BY <1>i, <1>3 DEF Woken, Joined
  <2>2. CASE joiner[t] = "none"
    BY <1>1, <1>5, <2>1, <2>2
  <2>3. CASE joiner[t] = "main"
    <3>1. Makes("main")
      BY <1>1, <2>3
    <3> QED
      BY <1>5, <2>1, <2>3, <3>1, MakesSet
  <2> QED
    BY <2>1, <2>2, <2>3
<1>9. Aligned'
  BY <1>i, <1>1, <1>2, <1>6 DEF Aligned
<1>10. Woken'
  <2>2. \A n \in 1 .. Len(pending_read_queue') : place'[pending_read_queue'[n]] # "queue"
    <3>1. \A n \in 1 .. Len(pending_read_queue) : pending_read_queue[n] \in ReadThreads
      BY <1>i, EntriesOf
    <3> QED
      BY <1>i, <1>1, <1>4, <1>5, <3>1 DEF Woken
  <2>3. \A x \in Queued(ready_queue') \cap ReadThreads : place'[x] = "queue" \/ Here(x)'
    BY <1>i, <1>1, <1>2, <1>3, <1>4, <1>5, <1>8 DEF Woken
  <2> QED
    BY <1>1, <1>2, <1>4, <1>8, <2>2, <2>3 DEF Woken
<1>11. Exited(t)' /\ ~Exited(t) /\ \A x \in ReadThreads : x # t => (Exited(x)' <=> Exited(x))
  BY <1>1, <1>4, <1>5 DEF Exited
<1>12. Joined'
  <2>2. \A j \in 1 .. Len(reader) : reader[j] \in ReadThreads
    BY Readers DEF ReadThreads
  <2>3. arg \in 0 .. Len(reader) /\ (place["main"] = "collect" => arg < Len(reader))
    BY ReadersOf
  <2>4. place["main"] = "collect" => reader[arg + 1] \in ReadThreads
    BY <2>2, <2>3
  <2>5. joiner[t] = "main" => place["main"] = "collect" /\ t = reader[arg + 1]
    BY <1>i, <1>3, <1>7, <1>11 DEF Joined
  <2>6. \A x \in ReadThreads : Exited(x) => Exited(x)'
    BY <1>11
  <2>7. \A x \in ReadThreads : state'[x] \in {"DYING", "DEAD", "FREED"} => Exited(x)'
    <3>1. \A x \in ReadThreads : x # t => state'[x] = state[x]
      BY <1>1, <1>5, ReadersOf
    <3> QED
      BY <1>i, <1>11, <3>1 DEF Joined
  <2>8. \A x \in ReadThreads :
          joiner'[x] # "none" =>
            /\ joiner'[x] = "main"
            /\ Exited(x)' \/ (place'["main"] \in {"joining", "collect"} /\ x = reader[arg' + 1])
    BY <1>i, <1>1, <1>7, <2>6 DEF Joined
  <2>9. "main" \in Queued(ready_queue') => place'["main"] = "collect" /\ self' # "main"
    BY <1>i, <1>1, <1>3, <1>5, <1>7, <1>8, <2>5 DEF Joined
  <2>10. place'["main"] = "collect" /\ (self' = "main" \/ "main" \in Queued(ready_queue')) => Exited(reader[arg + 1])'
    <3>1. CASE joiner[t] = "main"
      BY <1>1, <1>11, <2>5, <3>1 DEF Exited
    <3>2. CASE joiner[t] = "none"
      BY <1>i, <1>1, <1>7, <1>8, <2>4, <2>6, <3>2 DEF Joined, Exited
    <3> QED
      BY <1>8, <3>1, <3>2
  <2>11. \A k \in 1 .. arg : Exited(reader[k])'
    BY <1>i, <1>1, <1>7, <2>2, <2>3, <2>6 DEF Joined, Exited
  <2> QED
    BY <1>1, <1>7, <2>7, <2>8, <2>9, <2>10, <2>11 DEF Joined, Exited
<1>13. Added'
  <2>1. Here(t)
    BY <1>i, <1>1, <1>3 DEF Woken
  <2>2. buf[t] = StoryAt(BlockOf(t)) /\ StoryAt(BlockOf(t)) \in Int
    BY <1>3, <2>1, BlockOfReader, StoryNat DEF Here
  <2> QED
    BY <1>i, <1>1, <1>3, <1>11, <2>2, AddedOne
<1>14. NoneLost'
  <2>1. ASSUME NEW x \in ReadThreads, Waits(x)' PROVE Waits(x)
    BY <1>1, <1>4, <1>5, <2>1 DEF Waits
  <2> QED
    BY <1>i, <1>1, <1>2, <1>8, <2>1 DEF NoneLost
<1> QED
  BY <1>2, <1>9, <1>10, <1>12, <1>13, <1>14 DEF TReadInv

\* A thread stops and the next one goes on where it was.
LEMMA StopKeeps ==
  ASSUME SuiteInv, OneHandler, TReadInv, client = "tRead", UNCHANGED client, StopSome
  PROVE  OneHandler' /\ TReadInv'
<1>0. PICK from, becomes, where :
        /\ StopStep(from, becomes, where)
        /\ \/ from = "yielding" /\ becomes = "RUNABLE" /\ where = "loop"
           \/ from = "block" /\ becomes = "BLOCKED" /\ where = "add"
           \/ from = "joining" /\ becomes = "BLOCKED" /\ where = "collect"
           \/ from = "dying" /\ becomes = "DEAD" /\ where = "gone"
  BY DEF StopSome
<1>n. PICK next : next = Head(ready_queue)
  OBVIOUS
<1>1. /\ place[self] = from /\ place' = [place EXCEPT ![self] = where] /\ ~Interrupted
      /\ place["main"] # "end"
      /\ ready_queue # <<>> /\ ready_queue' = Tail(ready_queue) /\ self' = next
      /\ state' = [state EXCEPT ![self] = becomes, ![next] = "RUNNING"]
      /\ UNCHANGED <<joiner, sum, arg, frames, buf, prq, pending_read_queue>>
  BY <1>0, <1>n DEF StopStep, Turn, ThreadsOnly, disk
<1>2. /\ OneHandler' /\ Phase = "none" /\ Phase' = "none" /\ Phase \notin Fetching
      /\ \A x : Here(x)' <=> Here(x)
  BY <1>1, NoPhase
<1>i. Aligned /\ Woken /\ Joined /\ Added /\ NoneLost
  BY DEF TReadInv
<1>5. ReadThreads \subseteq Threads /\ "main" \notin ReadThreads /\ "main" \in Threads /\ "base" \notin ReadThreads
      /\ ready_queue \in Seq(Threads) /\ self \in Threads
  BY ReadersOf
<1>4. /\ place'[self] = where /\ \A x \in Threads : x # self => place'[x] = place[x]
  BY <1>1, ReadersOf
<1>w. /\ where \in {"loop", "add", "collect", "gone"} /\ from \in {"yielding", "block", "joining", "dying"}
      /\ from = "block" <=> where = "add"
      /\ from = "joining" <=> where = "collect"
      /\ from = "dying" <=> where = "gone"
      /\ becomes \in {"DYING", "DEAD", "FREED"} => from = "dying"
  BY <1>0
<1>h. \A x \in Threads : place'[x] \notin Held
  BY <1>4, <1>w, ReadersOf DEF Held
<1>q. /\ ready_queue' \in Seq(Threads) /\ next \in Threads /\ next \in Queued(ready_queue)
      /\ Queued(ready_queue') \subseteq Queued(ready_queue)
      /\ Queued(ready_queue) \subseteq Queued(ready_queue') \cup {next}
      /\ NoDuplicates(ready_queue') /\ next \notin Queued(ready_queue')
  BY <1>i, <1>n, <1>1, <1>5, TakesSet DEF Woken
<1>6. ~Unread'
  BY <1>h, <1>1, <1>q, <1>5 DEF Unread, Held
<1>9. Aligned'
  BY <1>i, <1>1, <1>2, <1>6 DEF Aligned
<1>r. \A x \in Threads : place'[x] = "queue" <=> place[x] = "queue"
  BY <1>1, <1>4, <1>w
<1>10. Woken'
  <2>2. \A n \in 1 .. Len(pending_read_queue') : place'[pending_read_queue'[n]] # "queue"
    <3>1. \A n \in 1 .. Len(pending_read_queue) : pending_read_queue[n] \in ReadThreads
      BY <1>i, EntriesOf
    <3> QED
      BY <1>i, <1>1, <1>r, <1>5, <3>1 DEF Woken
  <2>3. \A x \in Queued(ready_queue') \cap ReadThreads : place'[x] = "queue" \/ Here(x)'
    BY <1>i, <1>2, <1>r, <1>5, <1>q DEF Woken
  <2>4. self' \in ReadThreads /\ place'[self'] = "queue" => self' \notin Queued(ready_queue')
    BY <1>1, <1>q
  <2>5. self' \in ReadThreads /\ place'[self'] = "add" => Here(next)
    BY <1>i, <1>1, <1>r, <1>q DEF Woken
  <2>6. self' \in ReadThreads /\ place'[self'] = "add" => Here(self)'
    BY <1>1, <1>2, <2>5 DEF Here
  <2> QED
    BY <1>1, <1>2, <1>q, <2>2, <2>3, <2>4, <2>6 DEF Woken
<1>11. \A x \in ReadThreads : Exited(x)' <=> Exited(x)
  BY <1>1, <1>4, <1>5, <1>w DEF Exited
<1>12. Joined'
  <2>2. \A j \in 1 .. Len(reader) : reader[j] \in ReadThreads
    BY Readers DEF ReadThreads
  <2>3. arg \in 0 .. Len(reader) /\ (place["main"] \in {"joining", "collect"} => arg < Len(reader)) /\ place["main"] \in Joining
    BY ReadersOf
  <2>4. place["main"] \in {"joining", "collect"} => reader[arg + 1] \in ReadThreads
    BY <2>2, <2>3
  <2>5. /\ place["main"] = "create" <=> place'["main"] = "create"
        /\ place["main"] \in {"joining", "collect"} => place'["main"] \in {"joining", "collect"}
        /\ place'["main"] = "collect" => place["main"] = "collect" \/ (self = "main" /\ place["main"] = "joining")
        /\ place'["main"] # "end"
        /\ place["main"] = "collect" => place'["main"] = "collect"
    BY <1>1, <1>4, <1>5, <1>w
  <2>7. \A x \in ReadThreads : state'[x] \in {"DYING", "DEAD", "FREED"} => Exited(x)'
    <3>1. ASSUME NEW x \in ReadThreads, state'[x] \in {"DYING", "DEAD", "FREED"} PROVE Exited(x)
      <4>1. x # next
        BY <1>1, <1>q, <3>1, ReadersOf
      <4>2. CASE x = self
        BY <1>1, <1>w, <4>1, <4>2, <3>1, ReadersOf DEF Exited
      <4>3. CASE x # self
        BY <1>i, <1>1, <1>5, <4>1, <4>3, <3>1, ReadersOf DEF Joined
      <4> QED
        BY <4>2, <4>3
    <3> QED
      BY <1>11, <3>1
  <2>8. \A x \in ReadThreads :
          joiner'[x] # "none" =>
            /\ joiner'[x] = "main"
            /\ Exited(x)' \/ (place'["main"] \in {"joining", "collect"} /\ x = reader[arg' + 1])
    BY <1>i, <1>1, <1>11, <2>5 DEF Joined
  <2>9. "main" \in Queued(ready_queue') => place'["main"] = "collect" /\ self' # "main"
    BY <1>i, <1>1, <1>q, <2>5 DEF Joined
  <2>10. place'["main"] = "collect" /\ (self' = "main" \/ "main" \in Queued(ready_queue')) => Exited(reader[arg + 1])'
    <3>1. ASSUME self' = "main" \/ "main" \in Queued(ready_queue') PROVE Exited(reader[arg + 1])
      BY <1>i, <1>1, <1>q, <3>1 DEF Joined
    <3>2. "main" \in Queued(ready_queue) => reader[arg + 1] \in ReadThreads
      BY <1>i, <2>4 DEF Joined
    <3>3. self' = "main" \/ "main" \in Queued(ready_queue') => "main" \in Queued(ready_queue)
      BY <1>1, <1>q
    <3> QED
      BY <1>1, <1>11, <3>1, <3>2, <3>3 DEF Exited
  <2>11. place["main"] # "create" => \A k \in 1 .. arg : Exited(reader[k])'
    BY <1>i, <1>1, <1>11, <2>2, <2>3 DEF Joined, Exited
  <2>12. place["main"] = "create" => \A x \in ReadThreads : place'[x] = "queue"
    BY <1>i, <1>5, <1>r DEF Joined
  <2> QED
    BY <1>1, <2>5, <2>7, <2>8, <2>9, <2>10, <2>11, <2>12 DEF Joined, Exited
<1>13. Added'
  BY <1>i, <1>1, <1>11, AddedSame
<1>14. NoneLost'
  <2>1. ASSUME NEW x \in ReadThreads, Waits(x)' PROVE Waits(x) /\ x # next
    <3>1. place'[x] = "add" /\ x # next
      BY <1>1, <1>5, <1>h, <2>1 DEF Waits, Held
    <3> QED
      BY <1>1, <1>4, <1>5, <1>w, <3>1 DEF Waits
  <2> QED
    BY <1>i, <1>1, <1>2, <1>q, <2>1 DEF NoneLost
<1> QED
  BY <1>2, <1>9, <1>10, <1>12, <1>13, <1>14 DEF TReadInv

\* main and the idle thread.
LEMMA MainKeeps ==
  ASSUME SuiteInv, OneHandler, TReadInv, client = "tRead", UNCHANGED client, MainSome \/ YieldStep
  PROVE  OneHandler' /\ TReadInv'
<1>i. Aligned /\ Woken /\ Joined /\ Added /\ NoneLost
  BY DEF TReadInv
<1>5. /\ ReadThreads \subseteq Threads /\ "main" \notin ReadThreads /\ "main" \in Threads
      /\ "base" \notin ReadThreads /\ "base" \in Threads /\ "base" # "main"
      /\ ready_queue \in Seq(Threads) /\ NoDuplicates(ready_queue)
      /\ place \in [Threads -> Reading \cup Joining \cup {"loop", "yielding"}]
      /\ state \in [Threads -> State] /\ joiner \in [Threads -> Threads \cup {"none"}]
  BY <1>i, ReadersOf DEF Woken
<1>a. arg \in 0 .. Len(reader) /\ (place["main"] \in {"joining", "collect"} => arg < Len(reader))
  BY ReadersOf
<1>r. \A j \in 1 .. Len(reader) : reader[j] \in ReadThreads
  BY Readers DEF ReadThreads
<1>d. arg < Len(reader) => reader[arg + 1] \in ReadThreads
  BY <1>a, <1>r, Readers
<1>o. ASSUME ~Interrupted, self \in {"main", "base"}, UNCHANGED <<disk, frames, pending_read_queue, self, sum>>,
             \A t \in ReadThreads : place'[t] = place[t],
             \/ UNCHANGED ready_queue
             \/ Makes("base")
             \/ arg < Len(reader) /\ Makes(reader[arg + 1]) /\ place[reader[arg + 1]] = "queue",
             Joined'
      PROVE  OneHandler' /\ TReadInv'
  <2>1. /\ NoDuplicates(ready_queue') /\ Queued(ready_queue) \subseteq Queued(ready_queue')
        /\ \A t \in Queued(ready_queue') \cap ReadThreads : t \in Queued(ready_queue) \/ place[t] = "queue"
    <3>1. CASE UNCHANGED ready_queue
      BY <1>5, <3>1
    <3>2. CASE Makes("base")
      BY <1>5, <3>2, MakesSet
    <3>3. CASE arg < Len(reader) /\ Makes(reader[arg + 1]) /\ place[reader[arg + 1]] = "queue"
      <4>1. PICK t \in Threads : t = reader[arg + 1]
        BY <1>5, <1>d, <3>3
      <4>2. Makes(t)
        BY <3>3, <4>1
      <4> QED
        BY <1>5, <3>3, <4>1, <4>2, MakesSet
    <3> QED
      BY <1>o, <3>1, <3>2, <3>3
  <2>2. OneHandler' /\ Aligned' /\ Woken' /\ Added' /\ NoneLost'
    BY <1>o, <2>1, OthersKeep DEF disk
  <2> QED
    BY <1>o, <2>2 DEF TReadInv
<1>t. ASSUME NEW from, NEW where, Turn(from, where)
      PROVE  /\ place[self] = from /\ ~Interrupted
             /\ self \in Threads => place'[self] = where
             /\ \A t \in Threads : t # self => place'[t] = place[t]
  BY <1>5, <1>t DEF Turn
<1>e. ASSUME self \in {"main", "base"}, NEW from, NEW where, Turn(from, where)
      PROVE  \A t \in ReadThreads : place'[t] = place[t] /\ (Exited(t)' <=> Exited(t))
  BY <1>5, <1>e, <1>t DEF Exited
<1>j. /\ \A t \in ReadThreads : state[t] \in {"DYING", "DEAD", "FREED"} => Exited(t)
      /\ \A t \in ReadThreads :
           joiner[t] # "none" =>
             /\ joiner[t] = "main"
             /\ Exited(t) \/ (place["main"] \in {"joining", "collect"} /\ t = reader[arg + 1])
      /\ "main" \in Queued(ready_queue) => place["main"] = "collect" /\ self # "main"
      /\ place["main"] = "collect" /\ (self = "main" \/ "main" \in Queued(ready_queue)) => Exited(reader[arg + 1])
      /\ place["main"] = "create" => \A t \in ReadThreads : place[t] = "queue"
      /\ place["main"] # "create" => \A k \in 1 .. arg : Exited(reader[k])
      /\ place["main"] = "end" => arg = Len(reader)
  BY <1>i DEF Joined
<1>1. CASE CreateStep
  <2>1. /\ self = "main" /\ place["main"] = "create" /\ arg < Len(reader) /\ ~Interrupted
        /\ Makes(reader[arg + 1]) /\ arg' = arg + 1
        /\ UNCHANGED <<place, disk, frames, pending_read_queue, self, sum, state, joiner>>
    BY <1>1 DEF CreateStep, ThreadsOnly
  <2>2. PICK t \in ReadThreads : t = reader[arg + 1]
    BY <1>d, <2>1
  <2>3. "main" \notin Queued(ready_queue')
    BY <1>5, <1>j, <2>1, <2>2, MakesSet
  <2>4. Joined'
    BY <1>j, <2>1, <2>3 DEF Joined, Exited
  <2>5. place[reader[arg + 1]] = "queue"
    BY <1>j, <2>1, <2>2
  <2> QED
    BY <1>o, <2>1, <2>4, <2>5
<1>2. CASE CreatedStep
  <2>1. /\ self = "main" /\ Turn("create", "join") /\ arg' = 0
        /\ UNCHANGED <<ready_queue, disk, frames, pending_read_queue, self, sum, state, joiner>>
    BY <1>2 DEF CreatedStep, ThreadsOnly
  <2>2. place["main"] = "create" /\ place'["main"] = "join" /\ ~Interrupted
    BY <1>5, <1>t, <2>1
  <2>3. \A t \in ReadThreads : place'[t] = place[t] /\ (Exited(t)' <=> Exited(t))
    BY <1>e, <2>1
  <2>4. \A t \in ReadThreads : ~Exited(t)
    BY <1>j, <2>2 DEF Exited
  <2>5. Joined'
    BY <1>j, <2>1, <2>2, <2>3, <2>4 DEF Joined
  <2> QED
    BY <1>o, <2>1, <2>2, <2>3, <2>5
<1>3. CASE JoinStep
  <2>1. /\ self = "main" /\ Turn("join", "joining") /\ arg < Len(reader)
        /\ joiner' = [joiner EXCEPT ![reader[arg + 1]] = "main"]
        /\ UNCHANGED <<ready_queue, disk, frames, pending_read_queue, self, sum, state, arg>>
    BY <1>3 DEF JoinStep, ThreadsOnly
  <2>2. place["main"] = "join" /\ place'["main"] = "joining" /\ ~Interrupted
    BY <1>5, <1>t, <2>1
  <2>3. \A t \in ReadThreads : place'[t] = place[t] /\ (Exited(t)' <=> Exited(t))
    BY <1>e, <2>1
  <2>4. \A t \in ReadThreads :
          joiner'[t] # "none" => joiner'[t] = "main" /\ (Exited(t) \/ t = reader[arg + 1])
    BY <1>5, <1>d, <1>j, <2>1, <2>2
  <2>5. \A k \in 1 .. arg : Exited(reader[k])'
    <3>1. \A k \in 1 .. arg : reader[k] \in ReadThreads /\ Exited(reader[k])
      BY <1>a, <1>r, <1>j, <2>2
    <3>2. \A k : Exited(reader[k])' <=> place'[reader[k]] \in {"dying", "gone"}
      BY DEF Exited
    <3> QED
      BY <2>3, <3>1, <3>2 DEF Exited
  <2>6. Joined'
    BY <1>j, <2>1, <2>2, <2>3, <2>4, <2>5 DEF Joined
  <2> QED
    BY <1>o, <2>1, <2>2, <2>3, <2>6
<1>4. CASE CollectStep
  <2>1. /\ self = "main" /\ arg' = arg + 1
        /\ Turn("collect", "join")
             \/ (Turn("join", "join") /\ arg < Len(reader) /\ state[reader[arg + 1]] \in {"DYING", "DEAD"})
        /\ state' = [state EXCEPT ![reader[arg + 1]] = "FREED"]
        /\ UNCHANGED <<ready_queue, disk, frames, pending_read_queue, self, sum, joiner>>
    BY <1>4 DEF CollectStep
  <2>2. place["main"] \in {"join", "collect"} /\ place'["main"] = "join" /\ ~Interrupted
    BY <1>5, <1>t, <2>1
  <2>3. \A t \in ReadThreads : place'[t] = place[t] /\ (Exited(t)' <=> Exited(t))
    BY <1>e, <2>1
  <2>4. arg < Len(reader) /\ reader[arg + 1] \in ReadThreads
    BY <1>5, <1>a, <1>d, <1>t, <2>1
  <2>5. PICK t \in ReadThreads : t = reader[arg + 1]
    BY <2>4
  <2>6. Exited(t)
    <3>1. CASE Turn("collect", "join")
      BY <1>5, <1>j, <1>t, <2>1, <2>5, <3>1
    <3>2. CASE state[reader[arg + 1]] \in {"DYING", "DEAD"}
      BY <1>j, <2>5, <3>2
    <3> QED
      BY <2>1, <3>1, <3>2
  <2>7. \A x \in ReadThreads : state'[x] \in {"DYING", "DEAD", "FREED"} => Exited(x)
    BY <1>5, <1>j, <2>1, <2>5, <2>6
  <2>8. \A x \in ReadThreads : joiner[x] # "none" => joiner[x] = "main" /\ Exited(x)
    BY <1>j, <2>2, <2>5, <2>6
  <2>9. \A k \in 1 .. arg + 1 : reader[k] \in ReadThreads /\ Exited(reader[k])
    <3>1. \A k \in 1 .. arg + 1 : k \in 1 .. arg \/ k = arg + 1
      BY <1>a
    <3>2. \A k \in 1 .. arg + 1 : k \in 1 .. Len(reader)
      BY <1>a, <2>4
    <3> QED
      BY <1>r, <1>j, <2>2, <2>5, <2>6, <3>1, <3>2
  <2>10. \A k \in 1 .. arg' : Exited(reader[k])'
    <3>2. \A k : Exited(reader[k])' <=> place'[reader[k]] \in {"dying", "gone"}
      BY DEF Exited
    <3> QED
      BY <2>1, <2>3, <2>9, <3>2 DEF Exited
  <2>11. Joined'
    BY <1>j, <2>1, <2>2, <2>3, <2>7, <2>8, <2>10 DEF Joined
  <2> QED
    BY <1>o, <2>1, <2>2, <2>3, <2>11
<1>6. CASE EndStep
  <2>1. /\ self = "main" /\ Turn("join", "end") /\ arg = Len(reader)
        /\ UNCHANGED <<ready_queue, disk, frames, pending_read_queue, self, sum, state, joiner, arg>>
    BY <1>6 DEF EndStep, signals
  <2>2. place["main"] = "join" /\ place'["main"] = "end" /\ ~Interrupted
    BY <1>5, <1>t, <2>1
  <2>3. \A t \in ReadThreads : place'[t] = place[t] /\ (Exited(t)' <=> Exited(t))
    BY <1>e, <2>1
  <2>5. \A k \in 1 .. arg : Exited(reader[k])'
    <3>1. \A k \in 1 .. arg : reader[k] \in ReadThreads /\ Exited(reader[k])
      BY <1>a, <1>r, <1>j, <2>2
    <3>2. \A k : Exited(reader[k])' <=> place'[reader[k]] \in {"dying", "gone"}
      BY DEF Exited
    <3> QED
      BY <2>3, <3>1, <3>2 DEF Exited
  <2>6. Joined'
    BY <1>j, <2>1, <2>2, <2>3, <2>5 DEF Joined
  <2> QED
    BY <1>o, <2>1, <2>2, <2>3, <2>6
<1>7. CASE YieldStep
  <2>1. /\ self = "base" /\ Turn("loop", "yielding") /\ Makes("base")
        /\ UNCHANGED <<disk, frames, pending_read_queue, self, sum, state, joiner, arg>>
    BY <1>7 DEF YieldStep, ThreadsOnly
  <2>2. place'["main"] = place["main"] /\ ~Interrupted
    BY <1>5, <1>t, <2>1
  <2>3. \A t \in ReadThreads : place'[t] = place[t] /\ (Exited(t)' <=> Exited(t))
    BY <1>e, <2>1
  <2>4. "main" \in Queued(ready_queue') <=> "main" \in Queued(ready_queue)
    BY <1>5, <2>1, MakesSet
  <2>5. \A k \in ReadThreads \cup {reader[arg + 1]} : place["main"] = "collect" \/ k \in ReadThreads => k \in ReadThreads
    BY <1>a, <1>d
  <2>6. place["main"] = "collect" /\ "main" \in Queued(ready_queue) => Exited(reader[arg + 1])'
    <3>1. place["main"] = "collect" /\ "main" \in Queued(ready_queue) =>
            reader[arg + 1] \in ReadThreads /\ Exited(reader[arg + 1])
      BY <1>a, <1>d, <1>j
    <3> QED
      BY <2>1, <2>3, <3>1 DEF Exited
  <2>7. place["main"] # "create" => \A k \in 1 .. arg : Exited(reader[k])'
    <3>1. place["main"] # "create" => \A k \in 1 .. arg : reader[k] \in ReadThreads /\ Exited(reader[k])
      BY <1>a, <1>r, <1>j
    <3>2. \A k : Exited(reader[k])' <=> place'[reader[k]] \in {"dying", "gone"}
      BY DEF Exited
    <3> QED
      BY <2>3, <3>1, <3>2 DEF Exited
  <2>8. Joined'
    BY <1>j, <2>1, <2>2, <2>3, <2>4, <2>6, <2>7 DEF Joined, Exited
  <2> QED
    BY <1>o, <2>1, <2>2, <2>3, <2>8
<1> QED
  BY <1>1, <1>2, <1>3, <1>4, <1>6, <1>7 DEF MainSome

\* The routine takes the entry of the read that was completed and wakes its thread.
LEMMA TReadRoutine ==
  ASSUME SuiteInv, OneHandler, TReadInv, client = "tRead", UNCHANGED client,
         T!unblock \/ ((T!LockQueue \/ T!queue_dequeue) /\ UNCHANGED <<T!sched, T!own>>)
  PROVE  OneHandler' /\ TReadInv'
<1>i. Aligned /\ Woken /\ Joined /\ Added /\ NoneLost /\ HandlerInv
  BY DEF TReadInv, SuiteInv
<1>s. {"isr", "dequeue", "callback", "delivered"} \subseteq Place
  BY DEF Place, DiskPlace
<1>0. UNCHANGED <<self, state, joiner, sum, arg, place, buf, prq>>
  BY StepsT, TRoutineSteps DEF T!sched, T!own, disk
<1>h. (\A t : Here(t)' <=> Here(t)) /\ (Unread' <=> Unread) /\ (\A t : Exited(t)' <=> Exited(t))
  BY <1>0 DEF Here, Unread, Exited
<1>a. Added'
  BY <1>i, <1>0, AddedSame DEF Exited
<1>1. CASE T!LockQueue /\ UNCHANGED <<T!sched, T!own>>
  <2>1. /\ OneHandler' /\ Phase = "isr" /\ Phase' = "dequeue"
        /\ UNCHANGED <<ready_queue, pending_read_queue>>
    BY <1>i, <1>s, <1>1, StepsT, ServicePhase DEF T!sched
  <2>2. Phase \in Fetching /\ Phase' \in Fetching
    BY <2>1 DEF Fetching
  <2>3. Aligned' /\ Woken' /\ NoneLost'
    BY <1>i, <1>0, <1>h, <2>1, <2>2 DEF Aligned, Woken, NoneLost, Waits, Here
  <2>4. Joined'
    BY <1>i, <1>0, <2>1 DEF Joined, Exited
  <2> QED
    BY <1>a, <2>1, <2>3, <2>4 DEF TReadInv
<1>2. CASE T!queue_dequeue /\ UNCHANGED <<T!sched, T!own>>
  <2>1. /\ HandlerAt("dequeue") /\ pending_read_queue # <<>> /\ pending_read_queue' = Tail(pending_read_queue)
        /\ frames' = [frames EXCEPT ![Len(frames)].pc = "callback",
                                    ![Len(frames)].val = Head(pending_read_queue)]
        /\ UNCHANGED ready_queue
    BY <1>2, TRoutineSteps DEF T!sched
  <2>2. /\ pending_read_queue \in Seq(ReadThreads) /\ Head(pending_read_queue) \in ReadThreads
        /\ pending_read_queue' \in Seq(ReadThreads)
        /\ Head(pending_read_queue) = pending_read_queue[1]
        /\ Len(pending_read_queue) \in Nat \ {0} /\ Len(pending_read_queue') = Len(pending_read_queue) - 1
        /\ \A n \in 1 .. Len(pending_read_queue) - 1 : pending_read_queue'[n] = pending_read_queue[n + 1]
    BY <1>i, <2>1, HeadTailProperties DEF Aligned
  <2>3. Head(pending_read_queue) \in Value
    <3>1. Head(pending_read_queue) \in Entry
      BY <2>2, Readers DEF Entry
    <3> QED
      BY <3>1, Values, Zenon
  <2>4. /\ OneHandler' /\ Phase = "dequeue" /\ Phase' = "callback" /\ Kept' = pending_read_queue[1]
        /\ Phase \in Fetching /\ Phase' \notin Fetching
    BY <1>i, <2>1, <2>2, <2>3, DequeuePhase DEF Fetching
  <2>5. Len(pending_read_queue) = Len(prq) + 1 + (IF Unread THEN 1 ELSE 0) /\ Len(prq) \in Nat
    BY <1>i, <2>4, EntriesOf
  <2>6. PICK e \in ReadThreads : e = pending_read_queue[1]
    BY <2>2
  <2>7. Here(e)
    BY <1>i, <2>4, <2>6 DEF Aligned
  <2>8. Aligned'
    <3>1. \A n \in 1 .. Len(prq) : n \in 1 .. Len(pending_read_queue) - 1
      BY <2>5
    <3>2. \A n \in 1 .. Len(prq) : pending_read_queue'[n] = prq[n].buf
      BY <1>i, <2>2, <2>4, <3>1 DEF Aligned
    <3>3. Unread => pending_read_queue'[Len(pending_read_queue')] = self
      <4>1. Unread => Len(pending_read_queue') \in 1 .. Len(pending_read_queue) - 1
                      /\ Len(pending_read_queue') + 1 = Len(pending_read_queue)
        BY <2>2, <2>5
      <4> QED
        BY <1>i, <2>2, <4>1 DEF Aligned
    <3>4. Kept' \in ReadThreads /\ Here(e)' /\ Kept' = e
      BY <1>h, <2>4, <2>6, <2>7
    <3>5. Here(Kept)'
      BY <3>4 DEF Here
    <3> QED
      BY <1>i, <1>0, <1>h, <2>2, <2>4, <3>2, <3>3, <3>4, <3>5 DEF Aligned
  <2>n. \A n \in 1 .. Len(pending_read_queue) - 1 : n + 1 \in 1 .. Len(pending_read_queue)
    BY <2>2
  <2>9. Woken'
    <3>1. 1 \in 1 .. Len(pending_read_queue)
      BY <2>2
    <3>2. place[Kept'] # "queue"
      BY <1>i, <2>4, <3>1 DEF Woken
    <3>3. \A n \in 1 .. Len(pending_read_queue') : place[pending_read_queue'[n]] # "queue"
      BY <1>i, <2>2, <2>n DEF Woken
    <3> QED
      BY <1>i, <1>0, <1>h, <2>1, <3>2, <3>3 DEF Woken, Here
  <2>10. NoneLost'
    <3>1. ASSUME NEW n \in 1 .. Len(pending_read_queue), n # 1
          PROVE  \E m \in 1 .. Len(pending_read_queue') : pending_read_queue'[m] = pending_read_queue[n]
      <4>1. n - 1 \in 1 .. Len(pending_read_queue) - 1 /\ (n - 1) + 1 = n
        BY <2>2, <3>1
      <4> QED
        BY <2>2, <4>1
    <3>2. \A x : Waits(x)' <=> Waits(x)
      BY <1>0 DEF Waits
    <3> QED
      BY <1>i, <2>1, <2>4, <3>1, <3>2 DEF NoneLost
  <2>11. Joined'
    BY <1>i, <1>0, <2>1 DEF Joined, Exited
  <2> QED
    BY <1>a, <2>4, <2>8, <2>9, <2>10, <2>11 DEF TReadInv
<1>3. CASE T!unblock
  <2>1. /\ HandlerAt("callback") /\ GoTo("delivered") /\ T!T!ready_queue_enqueue(Last(frames).val)
        /\ UNCHANGED pending_read_queue
    BY <1>3, TRoutineSteps
  <2>2. OneHandler' /\ Phase = "callback" /\ Phase' = "delivered" /\ Last(frames).val = Kept
        /\ Phase \notin Fetching /\ Phase' \notin Fetching
    BY <1>i, <1>s, <2>1, ServicePhase, PhaseAt, ReadersOf DEF Fetching
  <2>3. PICK k \in ReadThreads : k = Kept
    BY <1>i, <2>2 DEF Aligned
  <2>4. Here(k) /\ place[k] # "queue" /\ k \in Threads /\ k # "main"
    BY <1>i, <2>2, <2>3, ReadersOf DEF Aligned, Woken
  <2>5. Makes(k) /\ ready_queue \in Seq(Threads) /\ NoDuplicates(ready_queue)
    BY <1>i, <2>1, <2>2, <2>3, EnqueueSame, ReadersOf DEF Woken
  <2>6. NoDuplicates(ready_queue') /\ Queued(ready_queue') = Queued(ready_queue) \cup {k}
    BY <2>4, <2>5, MakesSet
  <2>7. Aligned'
    BY <1>i, <1>0, <1>h, <2>1, <2>2 DEF Aligned
  <2>8. Woken'
    BY <1>i, <1>0, <1>h, <2>1, <2>2, <2>4, <2>6 DEF Woken
  <2>9. Joined'
    BY <1>i, <1>0, <2>4, <2>6 DEF Joined, Exited
  <2>10. NoneLost'
    BY <1>i, <1>0, <2>1, <2>2, <2>3, <2>6 DEF NoneLost, Waits
  <2> QED
    BY <1>a, <2>2, <2>7, <2>8, <2>9, <2>10 DEF TReadInv
<1> QED
  BY <1>1, <1>2, <1>3

\* The invariants of the clients hold at the start.
LEMMA DepthStarts == ASSUME SuiteInit PROVE DepthInv
<1>1. /\ buf = [b \in Buffer |-> 0] /\ prq = <<>> /\ taken = 0 /\ frames = <<>>
      /\ pending_read_queue = <<>> /\ sum = 0 /\ counter = 0 /\ blockno = 0
  BY Starts DEF Started, DiskInit
<1>2. ~Interrupted /\ OneHandler /\ Phase = "none"
  BY <1>1 DEF Interrupted, OneHandler, Phase
<1>3. Len(prq) = 0 /\ Phase \in Calm /\ AtRest /\ Total[0] = 0
  BY <1>1, <1>2, TotalAdds DEF Calm, AtRest
<1>4. AReadInv
  BY <1>1, <1>3 DEF AReadInv, Numbered, Counted
<1>5. SReadInv
  BY <1>1, <1>3, Starts DEF SReadInv
<1>6. HuntInv
  BY <1>1, <1>3, Starts DEF HuntInv, HuntRest
<1>7. ASSUME client = "tRead" PROVE TReadInv
  <2>1. /\ ready_queue = <<"base">> /\ self = "main" /\ arg = 0
        /\ state = [t \in Threads |-> IF t = "main" THEN "RUNNING" ELSE "NASCENT"]
        /\ joiner = [t \in Threads |-> "none"]
        /\ place = [t \in Threads |-> IF t = "main" THEN "create" ELSE IF t = "base" THEN "loop" ELSE "queue"]
    BY <1>7, Starts, Readers DEF T!T!SoloInit, Threads
  <2>2. /\ place["main"] = "create" /\ \A t \in ReadThreads : place[t] = "queue"
        /\ \A t \in ReadThreads : state[t] = "NASCENT" /\ joiner[t] = "none"
    BY <2>1, Readers
  <2>3. Queued(ready_queue) = {"base"} /\ NoDuplicates(ready_queue)
    <3>1. DOMAIN ready_queue = {1} /\ ready_queue[1] = "base"
      BY <2>1
    <3> QED
      BY <3>1 DEF Queued, NoDuplicates
  <2>4. "base" \notin ReadThreads /\ "main" \notin ReadThreads
    BY Readers
  <2>5. Aligned
    <3>1. ~Unread /\ Phase \notin Fetching /\ Phase # "callback"
      BY <1>2, <1>7, <2>1, <2>2 DEF Unread, Fetching
    <3> QED
      BY <1>1, <1>3, <3>1 DEF Aligned
  <2>6. Woken
    BY <1>1, <1>2, <2>1, <2>3, <2>4 DEF Woken
  <2>7. Joined
    <3>1. "main" \notin Queued(ready_queue)
      BY <2>3
    <3> QED
      BY <2>2, <3>1 DEF Joined
  <2>8. Added /\ NoneLost
    <3>1. \A t \in ReadThreads : ~Exited(t) /\ ~Waits(t)
      BY <2>2 DEF Exited, Waits
    <3> QED
      BY <1>1, <3>1, AddedNone DEF NoneLost
  <2> QED
    BY <2>5, <2>6, <2>7, <2>8 DEF TReadInv
<1>8. TReadInv
  BY <1>7 DEF TReadInv
<1> QED
  BY <1>2, <1>4, <1>5, <1>6, <1>8 DEF DepthInv

\* Nothing happens.
LEMMA DepthSame == ASSUME DepthInv, UNCHANGED all PROVE DepthInv'
<1>1. /\ UNCHANGED <<buf, prq, taken, frames, pending_read_queue, sum, counter, blockno, pc, client>>
      /\ UNCHANGED <<ready_queue, self, state, joiner, arg, place>>
  BY DEF all, vars, program, signals, disk, callbacks, totals, threads
<1>2. OneHandler' /\ Phase' = Phase /\ Kept' = Kept
  BY <1>1, PhaseSame DEF DepthInv
<1>3. H!Steps' = H!Steps /\ H!Trail' = H!Trail
  BY <1>1, TrailSame
<1>4. AReadInv'
  BY <1>1, <1>2 DEF DepthInv, AReadInv, Numbered, Counted
<1>5. SReadInv'
  BY <1>1, <1>2 DEF DepthInv, SReadInv, AtRest
<1>6. HuntInv'
  BY <1>1, <1>2, <1>3 DEF DepthInv, HuntInv, HuntRest, Hunting, AtRest, Fetched
<1>7. TReadInv'
  <2>1. Aligned => Aligned'
    BY <1>1, <1>2 DEF Aligned, Here, Unread
  <2>2. Woken => Woken'
    BY <1>1, <1>2 DEF Woken, Here
  <2>3. Joined => Joined'
    BY <1>1 DEF Joined, Exited
  <2>4. Added /\ NoneLost => Added' /\ NoneLost'
    BY <1>1, <1>2, AddedSame DEF NoneLost, Exited, Waits
  <2> QED
    BY <1>1, <2>1, <2>2, <2>3, <2>4 DEF DepthInv, TReadInv
<1> QED
  BY <1>2, <1>4, <1>5, <1>6, <1>7 DEF DepthInv

\* The invariants of the other clients say nothing.
LEMMA OthersIdle ==
  ASSUME UNCHANGED client
  PROVE  /\ client # "aRead" => AReadInv'
         /\ client # "sRead" => SReadInv'
         /\ client # "treasureHunt" => HuntInv'
         /\ client # "tRead" => TReadInv'
BY DEF AReadInv, SReadInv, HuntInv, TReadInv

\* When handlers are not nested, the invariants of the clients are inductive.
LEMMA DepthInductive ==
  ASSUME MaxDepth = 1, SuiteInv, DepthInv, [SuiteNext]_all
  PROVE  DepthInv'
<1>i. HandlerInv /\ OneHandler /\ AReadInv /\ SReadInv /\ HuntInv /\ TReadInv
  BY DEF SuiteInv, DepthInv
<1>t. client = "tRead" => ready_queue \in Seq(Threads)
  BY DEF SuiteInv, ThreadTypes
<1>c. client \in {"aRead", "sRead", "treasureHunt", "tRead"}
  BY DEF SuiteInv, ClientTypes
<1>1. CASE UNCHANGED all
  BY <1>1, DepthSame
<1>2. CASE UNCHANGED client /\ DiskStep /\ UNCHANGED <<threads, callbacks, totals, blockno, pc>>
  <2>1. OneHandler' /\ (Quiet \/ Completed)
    BY <1>i, <1>2, DiskPhases
  <2>2. CASE client = "aRead"
    BY <1>i, <1>2, <2>1, <2>2, AReadDisk, OthersIdle DEF DepthInv
  <2>3. CASE client = "sRead"
    BY <1>i, <1>2, <2>1, <2>3, SReadDisk, OthersIdle DEF DepthInv
  <2>4. CASE client = "treasureHunt"
    BY <1>i, <1>2, <2>1, <2>4, HuntDisk, OthersIdle DEF DepthInv
  <2>5. CASE client = "tRead"
    BY <1>i, <1>2, <2>1, <2>5, TReadDisk, OthersIdle DEF DepthInv
  <2> QED
    BY <1>c, <2>2, <2>3, <2>4, <2>5
<1>3. CASE UNCHANGED client /\ client = "aRead" /\ UNCHANGED threads /\ (main \/ interrupt_service_routine)
  BY <1>i, <1>3, AReadMain, AReadRoutine, OthersIdle DEF DepthInv
<1>4. CASE /\ UNCHANGED client /\ client = "sRead" /\ UNCHANGED <<threads, callbacks>>
           /\ S!main \/ S!interrupt_service_routine
  BY <1>i, <1>4, SReadMain, SReadRoutine, OthersIdle DEF DepthInv
<1>5. CASE /\ UNCHANGED client /\ client = "treasureHunt" /\ UNCHANGED threads
           /\ \/ H!main
              \/ H!callback
              \/ (H!LockQueue \/ H!queue_dequeue) /\ UNCHANGED H!own
  BY <1>i, <1>5, HuntMain, HuntRoutine, OthersIdle DEF DepthInv
<1>6. CASE UNCHANGED client /\ client = "tRead" /\ ThreadStep
  <2>1. CASE StopSome
    BY <1>i, <1>6, <2>1, StopKeeps, OthersIdle DEF DepthInv
  <2>2. CASE MainSome \/ YieldStep
    BY <1>i, <1>6, <2>2, MainKeeps, OthersIdle DEF DepthInv
  <2>3. ASSUME NEW t \in Threads, ReadSome(t) PROVE OneHandler' /\ TReadInv'
    <3>1. CASE QueueStep(t)
      BY <1>i, <1>6, <3>1, QueueKeeps
    <3>2. CASE AddStep(t)
      BY <1>i, <1>6, <3>2, AddKeeps
    <3>3. ASSUME NEW n \in DOMAIN reader, reader[n] = t, ScheduleStep(t, n - 1) PROVE OneHandler' /\ TReadInv'
      BY <1>i, <1>6, <3>3, ScheduleKeeps
    <3> QED
      BY <2>3, <3>1, <3>2, <3>3 DEF ReadSome
  <2> QED
    BY <1>6, <2>1, <2>2, <2>3, OthersIdle DEF ThreadStep, DepthInv
<1>7. CASE /\ UNCHANGED client /\ client = "tRead"
           /\ T!unblock \/ ((T!LockQueue \/ T!queue_dequeue) /\ UNCHANGED <<T!sched, T!own>>)
  BY <1>i, <1>7, TReadRoutine, OthersIdle DEF DepthInv
<1> QED
  BY <1>t, <1>1, <1>2, <1>3, <1>4, <1>5, <1>6, <1>7, SuiteSteps

\* In every state of a run.
LEMMA DepthReached == ASSUME MaxDepth = 1 PROVE SuiteSpec => [](SuiteInv /\ DepthInv)
<1>1. SuiteInit => SuiteInv /\ WakesThread /\ DepthInv
  BY StartsInv, DepthStarts
<1>2. SuiteInv /\ WakesThread /\ DepthInv /\ [SuiteNext]_all => (SuiteInv /\ WakesThread /\ DepthInv)'
  BY Inductive, DepthInductive
<1> QED
  BY <1>1, <1>2, PTL DEF SuiteSpec

(***************************************************************************)
(* What the programs compute                                               *)
(***************************************************************************)
\* The sums of sRead are those of the same blocks.
LEMMA SameTotal == S!Total = Total
<1>1. \A b : S!StoryAt(b) = StoryAt(b)
  BY Zenon DEF S!StoryAt, StoryAt, S!story, story
<1> QED
  BY <1>1, Zenon DEF S!Total, Total

\* When handlers are not nested, the sums are those of the first blocks, in the order of the disk:
\* aRead counts a block once, sRead adds the one it asked for, and tRead prints the sum of all.
THEOREM SumsInOrder == ASSUME MaxDepth = 1 PROVE SuiteSpec => []SummedInOrder
<1>1. ASSUME SuiteInv, DepthInv PROVE SummedInOrder
  <2>1. ASSUME client = "aRead" PROVE InRequestOrder
    <3>1. ASSUME ~Interrupted PROVE sum = Total[counter]
      <4>1. Phase = "none"
        BY <3>1 DEF Phase
      <4>2. Counted
        BY <1>1, <2>1 DEF DepthInv, AReadInv
      <4> QED
        BY <4>1, <4>2 DEF Counted
    <3> QED
      BY <3>1 DEF InRequestOrder
  <2>2. ASSUME client = "sRead" PROVE S!NoReadLeft
    <3>1. sum = Total[blockno] /\ (pc # "wait" => prq = <<>>)
      BY <1>1, <2>2 DEF DepthInv, SReadInv, AtRest
    <3> QED
      BY <3>1, SameTotal DEF S!NoReadLeft
  <2>3. ASSUME client = "tRead", place["main"] = "end" PROVE sum = Total[Len(reader)]
    <3>1. Joined /\ Added
      BY <1>1, <2>3 DEF DepthInv, TReadInv
    <3>2. \A k \in 1 .. Len(reader) : Exited(reader[k])
      BY <2>3, <3>1 DEF Joined
    <3> QED
      BY <3>1, <3>2, AddedAll
  <2> QED
    BY <2>1, <2>2, <2>3 DEF SummedInOrder
<1>2. SuiteInv /\ DepthInv => SummedInOrder
  BY <1>1
<1> QED
  BY <1>2, DepthReached, PTL

\* When handlers are not nested, treasureHunt ends at the number that the trail leads to after as
\* many steps as the first block says, none of them lost or taken twice.
THEOREM TreasuresFound == ASSUME MaxDepth = 1 PROVE SuiteSpec => []TreasureFound
<1>1. ASSUME DepthInv PROVE TreasureFound
  <2>1. ASSUME client = "treasureHunt", pc = "end"
        PROVE  H!Steps > 0 /\ buf[result] = H!Trail[H!Steps] /\ counter = H!Steps
    BY <1>1, <2>1 DEF DepthInv, HuntInv, Hunting
  <2> QED
    BY <2>1 DEF TreasureFound, H!Found
<1>2. SuiteInv /\ DepthInv => TreasureFound
  BY <1>1
<1> QED
  BY <1>2, DepthReached, PTL

\* When handlers are not nested, a thread of tRead that waits for its block is queued for it, or
\* ready, or about to be unblocked: an unblock that comes before uthread_block is not lost.
THEOREM NoWakeUpLost == ASSUME MaxDepth = 1 PROVE SuiteSpec => []WakeUpKept
<1>1. ASSUME SuiteInv, DepthInv, client = "tRead" PROVE T!WakeUpKept
  <2>1. NoneLost /\ frames \in Seq(Frame) /\ ready_queue \in Seq(Threads)
    BY <1>1, ReadersOf DEF DepthInv, TReadInv
  <2>2. \A n \in DOMAIN reader : reader[n] \in ReadThreads
    BY Readers DEF ReadThreads
  <2>3. ASSUME NEW t PROVE t \in Queued(ready_queue) => T!Contains(ready_queue, t)
    <3>1. DOMAIN ready_queue = 1 .. Len(ready_queue)
      BY <2>1
    <3> QED
      BY <3>1 DEF T!Contains, Queued
  <2>4. Phase = "callback" => T!HandlerAt("callback") /\ T!Last(frames).val = Kept
    <3>1. Phase = "callback" => Interrupted /\ frames[Len(frames)].pc = "callback"
      BY DEF Phase
    <3>2. Interrupted => Last(frames) = frames[Len(frames)] /\ Last(frames).val = Kept
      BY <2>1, PhaseAt
    <3> QED
      BY <3>1, <3>2, StepsT DEF HandlerAt
  <2>5. ASSUME NEW t \in ReadThreads, Waits(t)
        PROVE  \/ T!Contains(pending_read_queue, t) \/ T!Contains(ready_queue, t)
               \/ T!HandlerAt("callback") /\ T!Last(frames).val = t
    BY <2>1, <2>3, <2>4, <2>5 DEF NoneLost, T!Contains
  <2> QED
    BY <2>2, <2>5 DEF T!WakeUpKept, Waits
<1>2. SuiteInv /\ DepthInv => WakeUpKept
  BY <1>1 DEF WakeUpKept
<1> QED
  BY <1>2, DepthReached, PTL
=============================================================================
