--------------------------- MODULE ClockProofs ----------------------------
(***************************************************************************)
(* Proofs about the time of day, for any number of tries, updates and      *)
(* timer interrupts, at any instant from 2000 to 2037.                     *)
(*                                                                         *)
(* The argument.  A register read while the chip updates may be old or     *)
(* new, so a reading may mix two seconds; but the chip is at rest once     *)
(* between the two readings of a try (BothReadings), and no call takes a   *)
(* minute: equal seconds then belong to one instant, and so does the rest. *)
(* The calendar counts that instant back, day by day.                      *)
(***************************************************************************)
EXTENDS Clock, SequenceTheorems, WellFoundedInduction, TLAPS

-----------------------------------------------------------------------------
(* The types.                                                              *)

Modes == [binary : BOOLEAN, h24 : BOOLEAN]
Callers == {"none", "init", "get"}
Waits == {"wait1", "wait2"}
Reads == {"read1", "read2"}

ChipState == [t : Nat, uip : BOOLEAN, mode : Modes, updates : Nat]
CallState ==
  [pc : {"idle", "compare"} \cup Waits \cup Reads, for : Callers, tries : 0 .. Tries - 1,
   first : Seq(Int), second : Seq(Int), from : Nat]

\* How many registers each reading has, at each point of the call.
Progress ==
  /\ At("idle") \/ At("wait1") => rtc.first = <<>> /\ rtc.second = <<>>
  /\ At("read1") => Len(rtc.first) < 6 /\ rtc.second = <<>>
  /\ At("wait2") => Len(rtc.first) = 6 /\ rtc.second = <<>>
  /\ At("read2") => Len(rtc.first) = 6 /\ Len(rtc.second) < 6
  /\ At("compare") => Len(rtc.first) = 6 /\ Len(rtc.second) = 6

TypeInv == chip \in ChipState /\ rtc \in CallState /\ Progress

\* A date, and a register, hold integers.
LEMMA CivilIsInt ==
  ASSUME NEW days \in Int
  PROVE  Civil(days).year \in Int /\ Civil(days).mon \in Int /\ Civil(days).day \in Int
  BY DEF Civil

LEMMA CodedIsInt == ASSUME NEW mode \in Modes, NEW v \in Int PROVE Coded(mode, v) \in Int
  BY DEF Coded

LEMMA RegisterIsInt ==
  ASSUME NEW mode \in Modes, NEW t \in Nat, NEW i \in 1 .. 6
  PROVE  Register(mode, t, Fields[i]) \in Int
  <1>1. /\ DateTime(t).year \in Int /\ DateTime(t).mon \in Int /\ DateTime(t).day \in Int
        /\ DateTime(t).hour \in Int /\ DateTime(t).min \in Int /\ DateTime(t).sec \in Int
    BY CivilIsInt DEF DateTime
  <1>2. CodedHour(mode, DateTime(t).hour) \in Int
    BY <1>1, CodedIsInt DEF CodedHour
  <1>3. DateTime(t).year % 100 \in Int
    BY <1>1
  <1>4. Coded(mode, DateTime(t).year % 100) \in Int
    BY <1>3, CodedIsInt
  <1>5. \A field \in {"sec", "min", "day", "mon"} : Coded(mode, DateTime(t)[field]) \in Int
    BY <1>1, CodedIsInt
  <1>6. Fields[i] \in {"sec", "min", "hour", "day", "mon", "year"}
    BY DEF Fields
  <1> QED  BY <1>2, <1>4, <1>5, <1>6 DEF Register

\* The steps of the chip.
LEMMA UpdateBeginsMeans ==
  ASSUME chip \in ChipState, UpdateBegins
  PROVE  /\ chip' \in ChipState /\ chip'.uip /\ ~chip.uip /\ chip'.t = chip.t
         /\ chip'.mode = chip.mode /\ chip'.updates = chip.updates + 1 /\ chip.updates < MaxUpdates
         /\ At("idle") \/ Overtaken < MaxDelay
         /\ UNCHANGED <<rtc, clock, result>>
  <1> DEFINE new == [t |-> chip.t, uip |-> TRUE, mode |-> chip.mode, updates |-> chip.updates + 1]
  <1>0. chip' = new
    BY DEF UpdateBegins, ChipState
  <1>1. chip' \in ChipState
    <2>1. new \in ChipState
      BY DEF ChipState
    <2> QED  BY <1>0, <2>1
  <1>2. chip'.uip
    BY DEF UpdateBegins, ChipState
  <1> QED  BY <1>1, <1>2 DEF UpdateBegins, ChipState

LEMMA UpdateEndsMeans ==
  ASSUME chip \in ChipState, UpdateEnds
  PROVE  /\ chip' \in ChipState /\ chip.uip /\ ~chip'.uip /\ chip'.t = chip.t + 1
         /\ chip'.mode = chip.mode /\ chip'.updates = chip.updates
         /\ UNCHANGED <<rtc, clock, result>>
  <1> DEFINE new == [t |-> chip.t + 1, uip |-> FALSE, mode |-> chip.mode, updates |-> chip.updates]
  <1>0. chip' = new
    BY DEF UpdateEnds, ChipState
  <1>1. chip' \in ChipState
    <2>1. new \in ChipState
      BY DEF ChipState
    <2> QED  BY <1>0, <2>1
  <1>2. ~chip'.uip
    BY DEF UpdateEnds, ChipState
  <1> QED  BY <1>1, <1>2 DEF UpdateEnds, ChipState

\* What a read of a register adds to a reading.
LEMMA SeenMeans ==
  ASSUME chip \in ChipState, NEW got \in Seq(Int), Len(got) < 6, NEW v \in Seen(got)
  PROVE  /\ v \in Int /\ Append(got, v) \in Seq(Int) /\ Len(Append(got, v)) = Len(got) + 1
         /\ \A i \in 1 .. Len(got) : Append(got, v)[i] = got[i]
         /\ Append(got, v)[Len(got) + 1] = v
         /\ \E t \in chip.t .. chip.t + (IF chip.uip THEN 1 ELSE 0) :
              v = Register(chip.mode, t, Fields[Len(got) + 1])
  <1>1. PICK t \in chip.t .. (IF chip.uip THEN chip.t + 1 ELSE chip.t) :
          v = Register(chip.mode, t, Fields[Len(got) + 1])
    BY DEF Seen
  <1>2. Len(got) + 1 \in 1 .. 6 /\ chip.t \in Nat /\ chip.mode \in Modes /\ chip.uip \in BOOLEAN
    BY SMTT(30) DEF ChipState
  <1>3. t \in Nat /\ t \in chip.t .. chip.t + (IF chip.uip THEN 1 ELSE 0)
    BY <1>1, <1>2
  <1>4. v \in Int
    BY <1>1, <1>2, <1>3, RegisterIsInt
  <1> QED  BY <1>1, <1>3, <1>4

\* The steps of the call.
LEMMA WaitedMeans ==
  ASSUME rtc \in CallState, NEW from \in Waits, NEW to \in Reads, Waited(from, to)
  PROVE  /\ rtc' \in CallState /\ rtc.pc = from /\ rtc'.pc = to /\ ~chip.uip
         /\ UNCHANGED <<rtc.for, rtc.tries, rtc.first, rtc.second, rtc.from, chip, clock, result>>
  BY DEF Waited, At, CallState

LEMMA ReadFirstMeans ==
  ASSUME TypeInv, ReadFirst
  PROVE  /\ rtc' \in CallState /\ rtc.pc = "read1"
         /\ \E v \in Seen(rtc.first) : rtc'.first = Append(rtc.first, v)
         /\ rtc'.pc = IF Len(rtc.first) = 5 THEN "wait2" ELSE "read1"
         /\ UNCHANGED <<rtc.for, rtc.tries, rtc.second, rtc.from, chip, clock, result>>
  <1>1. PICK v \in Seen(rtc.first) : rtc' = [rtc EXCEPT !.first = Append(@, v),
          !.pc = IF Len(rtc.first) = 5 THEN "wait2" ELSE @]
    BY Zenon DEF ReadFirst
  <1>2. rtc.pc = "read1" /\ rtc.first \in Seq(Int) /\ Len(rtc.first) < 6
    BY DEF ReadFirst, At, TypeInv, CallState, Progress
  <1>3. Append(rtc.first, v) \in Seq(Int)
    BY <1>2, SeenMeans DEF TypeInv
  <1>4. rtc' \in CallState
    BY <1>1, <1>2, <1>3 DEF TypeInv, CallState, Waits, Reads
  <1>5. rtc'.first = Append(rtc.first, v)
    BY <1>1 DEF TypeInv, CallState
  <1> QED  BY <1>1, <1>2, <1>4, <1>5 DEF ReadFirst, TypeInv, CallState

LEMMA ReadSecondMeans ==
  ASSUME TypeInv, ReadSecond
  PROVE  /\ rtc' \in CallState /\ rtc.pc = "read2"
         /\ \E v \in Seen(rtc.second) : rtc'.second = Append(rtc.second, v)
         /\ rtc'.pc = IF Len(rtc.second) = 5 THEN "compare" ELSE "read2"
         /\ UNCHANGED <<rtc.for, rtc.tries, rtc.first, rtc.from, chip, clock, result>>
  <1>1. PICK v \in Seen(rtc.second) : rtc' = [rtc EXCEPT !.second = Append(@, v),
          !.pc = IF Len(rtc.second) = 5 THEN "compare" ELSE @]
    BY Zenon DEF ReadSecond
  <1>2. rtc.pc = "read2" /\ rtc.second \in Seq(Int) /\ Len(rtc.second) < 6
    BY DEF ReadSecond, At, TypeInv, CallState, Progress
  <1>3. Append(rtc.second, v) \in Seq(Int)
    BY <1>2, SeenMeans DEF TypeInv
  <1>4. rtc' \in CallState
    BY <1>1, <1>2, <1>3 DEF TypeInv, CallState, Waits, Reads
  <1>5. rtc'.second = Append(rtc.second, v)
    BY <1>1 DEF TypeInv, CallState
  <1> QED  BY <1>1, <1>2, <1>4, <1>5 DEF ReadSecond, TypeInv, CallState

LEMMA RetryMeans ==
  ASSUME rtc \in CallState, Retry
  PROVE  /\ rtc' \in CallState /\ rtc.pc = "compare" /\ rtc'.pc = "wait1"
         /\ rtc.first # rtc.second /\ rtc.tries # Tries - 1 /\ rtc'.tries = rtc.tries + 1
         /\ rtc'.first = <<>> /\ rtc'.second = <<>>
         /\ UNCHANGED <<rtc.for, rtc.from, chip, clock, result>>
  <1>1. rtc.tries + 1 \in 0 .. Tries - 1
    BY ClockAssumption, SMTT(30) DEF Retry, LastTry, CallState
  <1>2. rtc.pc = "compare" /\ rtc.first # rtc.second /\ rtc.tries # Tries - 1
    BY DEF Retry, At, Same, LastTry
  <1>3. rtc' = [rtc EXCEPT !.pc = "wait1", !.tries = @ + 1, !.first = <<>>, !.second = <<>>]
    BY DEF Retry
  <1>4. rtc' \in CallState
    <2>1. <<>> \in Seq(Int)
      OBVIOUS
    <2> QED  BY <1>1, <1>3, <2>1 DEF CallState, Waits
  <1>5. /\ rtc'.pc = "wait1" /\ rtc'.tries = rtc.tries + 1 /\ rtc'.first = <<>> /\ rtc'.second = <<>>
        /\ UNCHANGED <<rtc.for, rtc.from>>
    BY <1>3 DEF CallState
  <1> QED  BY <1>2, <1>4, <1>5 DEF Retry

LEMMA NoCallIsState == NoCall \in CallState
  BY ClockAssumption DEF NoCall, CallState, Callers

LEMMA BeginMeans ==
  ASSUME chip \in ChipState, At("idle"), Begin("get")
  PROVE  /\ rtc' \in CallState /\ rtc'.pc = "wait1" /\ rtc'.for = "get" /\ rtc'.tries = 0
         /\ rtc'.first = <<>> /\ rtc'.second = <<>> /\ rtc'.from = chip.t
         /\ UNCHANGED <<chip, clock, result>>
  <1>1. rtc' = [pc |-> "wait1", for |-> "get", tries |-> 0, first |-> <<>>, second |-> <<>>, from |-> chip.t]
    BY DEF Begin, NoCall
  <1>2. chip.t \in Nat /\ 0 \in 0 .. Tries - 1 /\ <<>> \in Seq(Int)
    BY ClockAssumption DEF ChipState
  <1>3. rtc' \in CallState
    BY <1>1, <1>2 DEF CallState, Callers, Waits
  <1>4. UNCHANGED <<chip, clock, result>>
    BY DEF Begin
  <1>5. /\ rtc'.pc = "wait1" /\ rtc'.for = "get" /\ rtc'.tries = 0
        /\ rtc'.first = <<>> /\ rtc'.second = <<>> /\ rtc'.from = chip.t
    BY ONLY <1>1
  <1> QED  BY <1>3, <1>4, <1>5

\* A return: what the call hands to its caller.
Returned ==
  /\ rtc.pc = "compare" /\ rtc' = NoCall
  /\ result'.for = rtc.for /\ result'.from = rtc.from /\ result'.overtaken = Overtaken
  /\ \/ result'.ok = TRUE /\ rtc.first = rtc.second /\ result'.date = Date(chip.mode, rtc.second)
     \/ result'.ok = FALSE /\ rtc.first # rtc.second /\ rtc.tries = Tries - 1
  /\ UNCHANGED chip

LEMMA ReturnsMean ==
  ASSUME InitReturns \/ GetReturns
  PROVE  Returned
  BY DEF InitReturns, GetReturns, Return, Returned, At, Same, LastTry

\* The types hold from the start, and each step keeps them.
LEMMA TypeInit == ASSUME Init PROVE TypeInv
  <1>1. PICK t \in Starts, binary \in BOOLEAN, h24 \in BOOLEAN :
          chip = [t |-> t, uip |-> FALSE, mode |-> [binary |-> binary, h24 |-> h24], updates |-> 0]
    BY DEF Init
  <1>2. t \in Nat
    BY ClockAssumption
  <1>3. chip \in ChipState
    BY <1>1, <1>2 DEF ChipState, Modes
  <1>4. rtc = [pc |-> "wait1", for |-> "init", tries |-> 0, first |-> <<>>, second |-> <<>>, from |-> chip.t]
    BY DEF Init, NoCall
  <1>5. chip.t \in Nat /\ 0 \in 0 .. Tries - 1 /\ <<>> \in Seq(Int)
    BY <1>1, <1>2, ClockAssumption
  <1>6. rtc \in CallState
    BY <1>4, <1>5 DEF CallState, Callers, Waits
  <1>7. Progress
    BY <1>4 DEF Progress, At
  <1> QED  BY <1>3, <1>6, <1>7 DEF TypeInv

LEMMA TypeStep == ASSUME TypeInv, [Next]_vars PROVE TypeInv'
  <1>1. CASE UNCHANGED vars
    BY <1>1 DEF vars, TypeInv, Progress, At
  <1>2. CASE UpdateBegins \/ UpdateEnds
    <2>1. chip' \in ChipState /\ UNCHANGED rtc
      BY <1>2, UpdateBeginsMeans, UpdateEndsMeans DEF TypeInv
    <2> QED  BY <2>1 DEF TypeInv, Progress, At
  <1>3. CASE At("idle") /\ Begin("get")
    BY <1>3, BeginMeans DEF TypeInv, Progress, At
  <1>4. CASE Waited("wait1", "read1")
    <2>1. rtc' \in CallState /\ rtc.pc = "wait1" /\ rtc'.pc = "read1"
          /\ UNCHANGED <<rtc.first, rtc.second, chip>>
      BY <1>4, WaitedMeans DEF TypeInv, Waits, Reads
    <2>2. Progress'
      BY <2>1 DEF TypeInv, Progress, At
    <2> QED  BY <2>1, <2>2 DEF TypeInv
  <1>5. CASE Waited("wait2", "read2")
    <2>1. rtc' \in CallState /\ rtc.pc = "wait2" /\ rtc'.pc = "read2"
          /\ UNCHANGED <<rtc.first, rtc.second, chip>>
      BY <1>5, WaitedMeans DEF TypeInv, Waits, Reads
    <2>2. Progress'
      BY <2>1 DEF TypeInv, Progress, At
    <2> QED  BY <2>1, <2>2 DEF TypeInv
  <1>6. CASE ReadFirst
    <2>1. PICK v \in Seen(rtc.first) : rtc'.first = Append(rtc.first, v)
      BY <1>6, ReadFirstMeans
    <2>2. /\ rtc' \in CallState /\ rtc.pc = "read1" /\ UNCHANGED <<rtc.second, chip>>
          /\ rtc'.pc = IF Len(rtc.first) = 5 THEN "wait2" ELSE "read1"
      BY <1>6, ReadFirstMeans
    <2>3. rtc.first \in Seq(Int) /\ Len(rtc.first) < 6 /\ rtc.second = <<>>
      BY <2>2 DEF TypeInv, CallState, Progress, At
    <2>4. Len(rtc.first) \in Nat /\ Len(rtc'.first) = Len(rtc.first) + 1
      BY <2>1, <2>3, SeenMeans DEF TypeInv
    <2>5. \/ rtc'.pc = "read1" /\ Len(rtc'.first) < 6
          \/ rtc'.pc = "wait2" /\ Len(rtc'.first) = 6
      <3>1. PICK n \in Nat : n = Len(rtc.first)
        BY <2>4
      <3>2. n < 6 /\ Len(rtc'.first) = n + 1
        BY <2>3, <2>4, <3>1
      <3>3. rtc'.pc = IF n = 5 THEN "wait2" ELSE "read1"
        BY <2>2, <3>1
      <3> QED  BY ONLY n \in Nat, <3>2, <3>3
    <2>6. rtc'.second = <<>>
      BY <2>2, <2>3
    <2>7. Progress'
      BY <2>5, <2>6 DEF Progress, At
    <2> QED  BY <2>2, <2>7 DEF TypeInv
  <1>7. CASE ReadSecond
    <2>1. PICK v \in Seen(rtc.second) : rtc'.second = Append(rtc.second, v)
      BY <1>7, ReadSecondMeans
    <2>2. /\ rtc' \in CallState /\ rtc.pc = "read2" /\ UNCHANGED <<rtc.first, chip>>
          /\ rtc'.pc = IF Len(rtc.second) = 5 THEN "compare" ELSE "read2"
      BY <1>7, ReadSecondMeans
    <2>3. rtc.second \in Seq(Int) /\ Len(rtc.second) < 6 /\ Len(rtc.first) = 6
      BY <2>2 DEF TypeInv, CallState, Progress, At
    <2>4. Len(rtc.second) \in Nat /\ Len(rtc'.second) = Len(rtc.second) + 1
      BY <2>1, <2>3, SeenMeans DEF TypeInv
    <2>5. \/ rtc'.pc = "read2" /\ Len(rtc'.second) < 6
          \/ rtc'.pc = "compare" /\ Len(rtc'.second) = 6
      <3>1. PICK n \in Nat : n = Len(rtc.second)
        BY <2>4
      <3>2. n < 6 /\ Len(rtc'.second) = n + 1
        BY <2>3, <2>4, <3>1
      <3>3. rtc'.pc = IF n = 5 THEN "compare" ELSE "read2"
        BY <2>2, <3>1
      <3> QED  BY ONLY n \in Nat, <3>2, <3>3
    <2>6. Len(rtc'.first) = 6
      BY <2>2, <2>3
    <2>7. Progress'
      BY <2>5, <2>6 DEF Progress, At
    <2> QED  BY <2>2, <2>7 DEF TypeInv
  <1>8. CASE Retry
    BY <1>8, RetryMeans DEF TypeInv, Progress, At
  <1>9. CASE InitReturns \/ GetReturns
    <2>1. rtc' = NoCall /\ UNCHANGED chip
      BY <1>9, ReturnsMean DEF Returned
    <2>2. rtc' \in CallState
      BY <2>1, NoCallIsState
    <2> QED  BY <2>1, <2>2 DEF TypeInv, Progress, At, NoCall
  <1>10. CASE TimerHandler
    BY <1>10 DEF TimerHandler, TypeInv, Progress, At
  <1> QED  BY <1>1, <1>2, <1>3, <1>4, <1>5, <1>6, <1>7, <1>8, <1>9, <1>10 DEF Next

-----------------------------------------------------------------------------
(* A call that fails: every try costs the chip an instant.                 *)

\* Every register read so far is the one shown now.
ShowsStill(reading) ==
  \A i \in 1 .. Len(reading) : reading[i] = Register(chip.mode, chip.t, Fields[i])

\* Every try so far, and this one once its readings differ, cost the chip an instant.
TriesInv ==
  /\ ~At("idle") => Overtaken >= rtc.tries
  /\ rtc.pc \in {"read1", "wait2", "read2", "compare"} =>
       \/ Overtaken >= rtc.tries + 1
       \/ ~chip.uip /\ ShowsStill(rtc.first) /\ ShowsStill(rtc.second)

LEMMA OvertakenIsInt == ASSUME TypeInv PROVE Overtaken \in Int
  BY DEF TypeInv, ChipState, CallState, Overtaken

\* What a step adds to Overtaken.
LEMMA OvertakenGrows ==
  ASSUME TypeInv
  PROVE  /\ UpdateBegins => Overtaken' = Overtaken + 1
         /\ UpdateEnds => Overtaken' = Overtaken
         /\ UNCHANGED <<chip, rtc.from>> => Overtaken' = Overtaken
  <1>1. chip.t \in Nat /\ rtc.from \in Nat
    BY DEF TypeInv, ChipState, CallState
  <1>2. ASSUME UpdateBegins PROVE Overtaken' = Overtaken + 1
    <2>1. ~chip.uip /\ chip'.uip /\ chip'.t = chip.t /\ rtc' = rtc
      BY <1>2, UpdateBeginsMeans DEF TypeInv
    <2> QED  BY <1>1, <2>1 DEF Overtaken
  <1>3. ASSUME UpdateEnds PROVE Overtaken' = Overtaken
    <2>1. chip.uip /\ ~chip'.uip /\ chip'.t = chip.t + 1 /\ rtc' = rtc
      BY <1>3, UpdateEndsMeans DEF TypeInv
    <2> QED  BY <1>1, <2>1 DEF Overtaken
  <1> QED  BY <1>2, <1>3 DEF Overtaken

\* A register read while the chip is at rest is the one shown.
LEMMA SeenAtRest ==
  ASSUME chip \in ChipState, ~chip.uip, NEW got \in Seq(Int), Len(got) < 6, NEW v \in Seen(got),
         ShowsStill(got)
  PROVE  \A i \in 1 .. Len(Append(got, v)) :
           Append(got, v)[i] = Register(chip.mode, chip.t, Fields[i])
  <1>1. PICK t \in chip.t .. chip.t + (IF chip.uip THEN 1 ELSE 0) :
          v = Register(chip.mode, t, Fields[Len(got) + 1])
    BY SeenMeans
  <1>2. t = chip.t
    BY <1>1 DEF ChipState
  <1>3. /\ Len(Append(got, v)) = Len(got) + 1 /\ Append(got, v)[Len(got) + 1] = v
        /\ \A i \in 1 .. Len(got) : Append(got, v)[i] = got[i]
    BY SeenMeans
  <1>4. \A i \in 1 .. Len(got) + 1 : i \in 1 .. Len(got) \/ i = Len(got) + 1
    OBVIOUS
  <1> QED  BY <1>1, <1>2, <1>3, <1>4 DEF ShowsStill

LEMMA TriesInit == ASSUME Init PROVE TriesInv
  <1>1. TypeInv
    BY TypeInit
  <1>2. rtc.pc = "wait1" /\ rtc.tries = 0 /\ rtc.from = chip.t
    BY DEF Init, NoCall
  <1>3. chip.t \in Nat
    BY <1>1 DEF TypeInv, ChipState
  <1> QED  BY <1>2, <1>3 DEF TriesInv, Overtaken, At

\* Two readings that differ were overtaken in this very try.
LEMMA DifferentMeansLate ==
  ASSUME TypeInv, TriesInv, rtc.pc = "compare", rtc.first # rtc.second
  PROVE  Overtaken >= rtc.tries + 1
  <1>1. /\ rtc.first \in Seq(Int) /\ Len(rtc.first) = 6
        /\ rtc.second \in Seq(Int) /\ Len(rtc.second) = 6
    BY DEF TypeInv, CallState, Progress, At
  <1>2. ASSUME ShowsStill(rtc.first), ShowsStill(rtc.second) PROVE FALSE
    <2>1. \A i \in 1 .. 6 : rtc.first[i] = rtc.second[i]
      BY <1>1, <1>2 DEF ShowsStill
    <2>2. rtc.first = rtc.second
      BY <1>1, <2>1, SeqEqual
    <2> QED  BY <2>2
  <1> QED  BY <1>2 DEF TriesInv

\* A try that begins is paid for by the one before it, whose readings differed.
LEMMA TriesStep == ASSUME TypeInv, TriesInv, [Next]_vars PROVE TriesInv'
  <1>1. Overtaken \in Int /\ rtc.tries \in Nat
    BY OvertakenIsInt, ClockAssumption DEF TypeInv, CallState
  <1>2. CASE UNCHANGED vars
    BY <1>2 DEF vars, TriesInv, Overtaken, ShowsStill, At
  <1>3. CASE UpdateBegins
    <2>1. Overtaken' = Overtaken + 1 /\ UNCHANGED rtc
      BY <1>3, OvertakenGrows, UpdateBeginsMeans DEF TypeInv
    <2> QED  BY <1>1, <2>1 DEF TriesInv, At
  <1>4. CASE UpdateEnds
    <2>1. Overtaken' = Overtaken /\ chip.uip /\ UNCHANGED rtc
      BY <1>4, OvertakenGrows, UpdateEndsMeans DEF TypeInv
    <2> QED  BY <1>1, <2>1 DEF TriesInv, At
  <1>5. CASE At("idle") /\ Begin("get")
    <2>1. rtc'.pc = "wait1" /\ rtc'.tries = 0 /\ rtc'.from = chip.t /\ UNCHANGED chip
      BY <1>5, BeginMeans DEF TypeInv
    <2>2. chip.t \in Nat
      BY DEF TypeInv, ChipState
    <2> QED  BY <2>1, <2>2 DEF TriesInv, Overtaken, At
  <1>6. CASE Waited("wait1", "read1")
    <2>1. /\ rtc.pc = "wait1" /\ rtc'.pc = "read1" /\ ~chip.uip
          /\ UNCHANGED <<rtc.tries, rtc.first, rtc.second, rtc.from, chip>>
      BY <1>6, WaitedMeans DEF TypeInv, Waits, Reads
    <2>2. rtc.first = <<>> /\ rtc.second = <<>>
      BY <2>1 DEF TypeInv, Progress, At
    <2>3. Overtaken' = Overtaken
      BY <2>1, OvertakenGrows
    <2>4. ~chip'.uip /\ ShowsStill(rtc.first)' /\ ShowsStill(rtc.second)'
      BY <2>1, <2>2 DEF ShowsStill
    <2> QED  BY <2>1, <2>3, <2>4 DEF TriesInv, At
  <1>7. CASE Waited("wait2", "read2")
    <2>1. /\ rtc.pc = "wait2" /\ rtc'.pc = "read2"
          /\ UNCHANGED <<rtc.tries, rtc.first, rtc.second, rtc.from, chip>>
      BY <1>7, WaitedMeans DEF TypeInv, Waits, Reads
    <2>2. Overtaken' = Overtaken
      BY <2>1, OvertakenGrows
    <2> QED  BY <2>1, <2>2 DEF TriesInv, ShowsStill, At
  <1>8. CASE ReadFirst
    <2>1. /\ rtc.pc = "read1" /\ rtc'.pc \in {"read1", "wait2"}
          /\ UNCHANGED <<rtc.tries, rtc.second, rtc.from, chip>>
      BY <1>8, ReadFirstMeans
    <2>2. PICK v \in Seen(rtc.first) : rtc'.first = Append(rtc.first, v)
      BY <1>8, ReadFirstMeans
    <2>3. rtc.first \in Seq(Int) /\ Len(rtc.first) < 6 /\ chip \in ChipState
      BY <2>1 DEF TypeInv, CallState, Progress, At
    <2>4. Overtaken' = Overtaken
      BY <2>1, OvertakenGrows
    <2>5. ASSUME ~chip.uip, ShowsStill(rtc.first), ShowsStill(rtc.second)
          PROVE  ~chip'.uip /\ ShowsStill(rtc.first)' /\ ShowsStill(rtc.second)'
      <3>1. \A i \in 1 .. Len(rtc'.first) : rtc'.first[i] = Register(chip.mode, chip.t, Fields[i])
        BY <2>2, <2>3, <2>5, SeenAtRest
      <3> QED  BY <2>1, <2>5, <3>1 DEF ShowsStill
    <2> QED  BY <2>1, <2>4, <2>5 DEF TriesInv, At
  <1>9. CASE ReadSecond
    <2>1. /\ rtc.pc = "read2" /\ rtc'.pc \in {"read2", "compare"}
          /\ UNCHANGED <<rtc.tries, rtc.first, rtc.from, chip>>
      BY <1>9, ReadSecondMeans
    <2>2. PICK v \in Seen(rtc.second) : rtc'.second = Append(rtc.second, v)
      BY <1>9, ReadSecondMeans
    <2>3. rtc.second \in Seq(Int) /\ Len(rtc.second) < 6 /\ chip \in ChipState
      BY <2>1 DEF TypeInv, CallState, Progress, At
    <2>4. Overtaken' = Overtaken
      BY <2>1, OvertakenGrows
    <2>5. ASSUME ~chip.uip, ShowsStill(rtc.first), ShowsStill(rtc.second)
          PROVE  ~chip'.uip /\ ShowsStill(rtc.first)' /\ ShowsStill(rtc.second)'
      <3>1. \A i \in 1 .. Len(rtc'.second) : rtc'.second[i] = Register(chip.mode, chip.t, Fields[i])
        BY <2>2, <2>3, <2>5, SeenAtRest
      <3> QED  BY <2>1, <2>5, <3>1 DEF ShowsStill
    <2> QED  BY <2>1, <2>4, <2>5 DEF TriesInv, At
  <1>10. CASE Retry
    <2>1. /\ rtc.pc = "compare" /\ rtc'.pc = "wait1" /\ rtc'.tries = rtc.tries + 1
          /\ rtc.first # rtc.second /\ UNCHANGED <<rtc.from, chip>>
      BY <1>10, RetryMeans DEF TypeInv
    <2>2. Overtaken' = Overtaken /\ Overtaken >= rtc.tries + 1
      BY <2>1, OvertakenGrows, DifferentMeansLate
    <2> QED  BY <2>1, <2>2 DEF TriesInv, At
  <1>11. CASE InitReturns \/ GetReturns
    <2>1. Returned
      BY <1>11, ReturnsMean
    <2>2. rtc'.pc = "idle"
      BY <2>1 DEF Returned, NoCall
    <2> QED  BY <2>2 DEF TriesInv, At
  <1>12. CASE TimerHandler
    BY <1>12 DEF TimerHandler, TriesInv, Overtaken, ShowsStill, At
  <1> QED  BY <1>2, <1>3, <1>4, <1>5, <1>6, <1>7, <1>8, <1>9, <1>10, <1>11, <1>12 DEF Next

\* A call that fails has used every try.
LEMMA FailsStep ==
  ASSUME TypeInv, TriesInv, FailsOnlyIfOvertaken, [Next]_vars
  PROVE  FailsOnlyIfOvertaken'
  <1>1. CASE UNCHANGED result
    BY <1>1 DEF FailsOnlyIfOvertaken
  <1>2. CASE InitReturns \/ GetReturns
    <2>1. Returned
      BY <1>2, ReturnsMean
    <2>2. CASE result'.ok = TRUE
      BY <2>2 DEF FailsOnlyIfOvertaken
    <2>3. CASE rtc.first # rtc.second /\ rtc.tries = Tries - 1
      <3>1. Overtaken >= rtc.tries + 1
        BY <2>1, <2>3, DifferentMeansLate DEF Returned
      <3>2. result'.overtaken >= Tries
        BY <2>1, <2>3, <3>1, ClockAssumption DEF Returned
      <3> QED  BY <3>2 DEF FailsOnlyIfOvertaken
    <2> QED  BY <2>1, <2>2, <2>3 DEF Returned
  <1> QED  BY <1>1, <1>2, Zenon DEF Next, vars, UpdateBegins, UpdateEnds, Begin, Waited, ReadFirst,
             ReadSecond, Retry, TimerHandler

-----------------------------------------------------------------------------
(* The calendar.                                                           *)

\* The days of 2000 .. 2037, and the day 1 March 2000.
Days == {n \in Nat : 10957 <= n /\ n <= 24836}
March2000 == 11017

EraYears == 0 .. 37
EraDays == 0 .. 365
EraMonths == 0 .. 11

\* Day d of the year that begins in March of the year 2000 + y is in its month p.
MarchDate(days, y, d, p) ==
  /\ days = March2000 + 365 * y + y \div 4 + d
  /\ d = 365 => y % 4 = 3
  /\ p = (5 * d + 2) \div 153
  /\ Civil(days).mon = IF p < 10 THEN p + 3 ELSE p - 9
  /\ Civil(days).day = d - (153 * p + 2) \div 5 + 1
  /\ Civil(days).year = 2000 + y + (IF p < 10 THEN 0 ELSE 1)

\* Quotient and remainder, from the parts and into them.
LEMMA DivMod ==
  ASSUME NEW n \in Nat, NEW q \in Nat, NEW r \in Nat, r < n
  PROVE  (n * q + r) % n = r /\ (n * q + r) \div n = q
  <1>1. (n * q + r) % n = r
    BY SMT
  <1>2. (n * q + r) \div n = q
    BY SMT
  <1> QED  BY <1>1, <1>2, SMT

LEMMA Divide ==
  ASSUME NEW n \in Nat, n > 0, NEW m \in Nat
  PROVE  \E q \in Nat, k \in Nat : m = n * q + k /\ k < n /\ m \div n = q /\ m % n = k
  <1>1. m \div n \in Nat
    BY SMT
  <1>2. m % n \in Nat /\ m % n < n
    BY SMT
  <1>3. m = n * (m \div n) + (m % n)
    BY SMT
  <1> QED  BY <1>1, <1>2, <1>3, SMT

\* The date of a day from 1 March 2000 on, and of the sixty days before it.
LEMMA CivilFromMarch ==
  ASSUME NEW days \in Days, days >= March2000
  PROVE  \E y \in EraYears, d \in EraDays, p \in EraMonths : MarchDate(days, y, d, p)
  <1>1. PICK doe \in Nat : doe = days - 11017 /\ doe <= 13819
    <2>1. days - 11017 \in Nat /\ days - 11017 <= 13819
      BY SMT DEF Days, March2000
    <2> QED  BY <2>1, SMT
  <1>2. (days + 719468) % 146097 = doe /\ (days + 719468) \div 146097 = 5
    <2>1. days + 719468 = 146097 * 5 + doe
      BY <1>1, SMT DEF Days
    <2>2. /\ (146097 * 5 + doe) % 146097 = doe
          /\ (146097 * 5 + doe) \div 146097 = 5
      BY ONLY doe \in Nat, <1>1, DivMod, SMT
    <2> QED  BY <2>1, <2>2, SMT
  <1>3. doe \div 36524 = 0
    BY <1>1, SMT
  <1>4. doe \div 146096 = 0
    BY <1>1, SMT
  <1>5. PICK c \in Nat, m \in Nat : doe = 1460 * c + m /\ m < 1460 /\ c = doe \div 1460
    BY Divide, SMT
  <1>6. PICK y \in Nat, k \in Nat : doe - c = 365 * y + k /\ k < 365 /\ y = (doe - c) \div 365
    <2>1. PICK x \in Nat : x = doe - c
      <3>1. doe - c \in Nat
        BY <1>5, SMT
      <3> QED  BY <3>1, SMT
    <2>2. \E y \in Nat, k \in Nat : x = 365 * y + k /\ k < 365 /\ x \div 365 = y
      BY ONLY x \in Nat, Divide, SMT
    <2> QED  BY <2>1, <2>2, SMT
  <1>7. (doe - doe \div 1460 + doe \div 36524 - doe \div 146096) \div 365 = y
    BY <1>3, <1>4, <1>5, <1>6, SMT
  <1>8. y \in 0 .. 37 /\ y \div 100 = 0
    <2>1. y <= 37
      BY <1>1, <1>5, <1>6, SMT
    <2>2. y \div 100 = 0
      BY <2>1, SMT
    <2> QED  BY <2>1, <2>2, SMT
  <1>9. PICK q \in Nat, l \in Nat : y = 4 * q + l /\ l < 4 /\ q = y \div 4 /\ l = y % 4
    BY ONLY y \in Nat, Divide, SMT
  <1>10. PICK d \in 0 .. 365 : d = doe - (365 * y + q) /\ (d = 365 => y % 4 = 3)
    <2>0. 1460 * q + 365 * l + k + c = 1460 * c + m /\ c <= 9
      BY <1>1, <1>5, <1>6, <1>9, SMTT(30)
    <2>4. q <= c
      BY <1>5, <2>0, SMT
    <2>5. q = c \/ q = c - 1
      BY <1>6, <1>9, <2>0, <2>4, SMT
    <2>6. q = c - 1 /\ k = 364 => l = 3
      BY <1>9, <2>0, SMT
    <2>1. q = c \/ (q = c - 1 /\ (k = 364 => l = 3))
      BY <2>5, <2>6
    <2>2. doe - (365 * y + q) \in 0 .. 365
      BY <1>5, <1>6, <1>9, <2>1, SMT
    <2>3. doe - (365 * y + q) = 365 => y % 4 = 3
      BY <1>5, <1>6, <1>9, <2>1, SMT
    <2> QED  BY <2>2, <2>3, SMT
  <1>11. doe - (365 * y + y \div 4 - y \div 100) = d
    <2>1. y \div 100 = 0 /\ y \div 4 = q
      BY <1>8, <1>9
    <2>2. doe - (365 * y + q - 0) = d
      BY <1>10, SMT
    <2> QED  BY <2>1, <2>2, SMT
  <1>12. PICK p \in 0 .. 11 : p = (5 * d + 2) \div 153
    <2>1. (5 * d + 2) \div 153 \in 0 .. 11
      BY SMT
    <2> QED  BY <2>1, SMT
  <1> DEFINE z == days + 719468
             doe1 == z % 146097
             yoe1 == (doe1 - doe1 \div 1460 + doe1 \div 36524 - doe1 \div 146096) \div 365
             doy1 == doe1 - (365 * yoe1 + yoe1 \div 4 - yoe1 \div 100)
             mp1 == (5 * doy1 + 2) \div 153
             mon1 == IF mp1 < 10 THEN mp1 + 3 ELSE mp1 - 9
  <1>16. Civil(days) = [year |-> yoe1 + (z \div 146097) * 400 + (IF mon1 <= 2 THEN 1 ELSE 0),
                        mon |-> mon1, day |-> doy1 - (153 * mp1 + 2) \div 5 + 1]
    BY SMT DEF Civil
  <1>17. doe1 = doe /\ z \div 146097 = 5
    BY <1>2, SMT
  <1> HIDE DEF z, doe1
  <1>18. yoe1 = y
    BY <1>7, <1>17, SMT
  <1> HIDE DEF yoe1
  <1>19. doy1 = d
    BY <1>11, <1>17, <1>18, SMT
  <1> HIDE DEF doy1
  <1>20. mp1 = p
    BY <1>12, <1>19, SMT
  <1> HIDE DEF mp1
  <1>13. Civil(days) = [year |-> y + 5 * 400 + (IF (IF p < 10 THEN p + 3 ELSE p - 9) <= 2 THEN 1 ELSE 0),
                        mon |-> IF p < 10 THEN p + 3 ELSE p - 9,
                        day |-> d - (153 * p + 2) \div 5 + 1]
    BY <1>16, <1>17, <1>18, <1>19, <1>20, SMT
  <1>14. /\ days = March2000 + 365 * y + y \div 4 + d
         /\ d = 365 => y % 4 = 3
         /\ p = (5 * d + 2) \div 153
    <2>1. days = March2000 + 365 * y + q + d
      BY <1>1, <1>10, SMT DEF Days, March2000
    <2> QED  BY <1>9, <1>10, <1>12, <2>1, ZenonT(60)
  <1>15. y + 5 * 400 + (IF (IF p < 10 THEN p + 3 ELSE p - 9) <= 2 THEN 1 ELSE 0)
           = 2000 + y + (IF p < 10 THEN 0 ELSE 1)
    BY SMT
  <1>21. MarchDate(days, y, d, p)
    <2>1. /\ Civil(days).mon = IF p < 10 THEN p + 3 ELSE p - 9
          /\ Civil(days).day = d - (153 * p + 2) \div 5 + 1
          /\ Civil(days).year = 2000 + y + (IF p < 10 THEN 0 ELSE 1)
      BY ONLY <1>13, <1>15, SMT
    <2> QED  BY <1>14, <2>1, SMT DEF MarchDate
  <1>22. y \in EraYears /\ d \in EraDays /\ p \in EraMonths
    BY <1>8, SMT DEF EraYears, EraDays, EraMonths
  <1> QED  BY <1>21, <1>22, SMT

LEMMA CivilToMarch ==
  ASSUME NEW days \in Days, days < March2000
  PROVE  Civil(days) = [year |-> 2000, mon |-> IF days < 10988 THEN 1 ELSE 2,
                        day |-> IF days < 10988 THEN days - 10956 ELSE days - 10987]
  <1>1. PICK doe \in Nat : doe = days + 135080 /\ 146037 <= doe /\ doe <= 146096
    <2>1. days + 135080 \in Nat /\ 146037 <= days + 135080 /\ days + 135080 <= 146096
      BY SMT DEF Days, March2000
    <2> QED  BY <2>1, SMT
  <1>2. (days + 719468) % 146097 = doe /\ (days + 719468) \div 146097 = 4
    <2>1. days + 719468 = 146097 * 4 + doe
      BY <1>1, SMT DEF Days
    <2>2. /\ (146097 * 4 + doe) % 146097 = doe
          /\ (146097 * 4 + doe) \div 146097 = 4
      BY ONLY doe \in Nat, <1>1, DivMod, SMT
    <2> QED  BY <1>1, <2>1, <2>2, SMT
  <1>3. doe \div 1460 = 100
    BY <1>1, SMT
  <1>4. (doe - doe \div 1460 + doe \div 36524 - doe \div 146096) \div 365 = 399
    <2>1. CASE doe = 146096
      BY <2>1, SMT
    <2>2. CASE doe < 146096
      <3>1. doe \div 36524 = 3
        BY <1>1, <2>2, SMT
      <3>2. doe \div 146096 = 0
        BY <1>1, <2>2, SMT
      <3>3. (doe - 100 + 3 - 0) \div 365 = 399
        BY <1>1, <2>2, SMT
      <3> QED  BY <1>3, <3>1, <3>2, <3>3, SMT
    <2>3. doe = 146096 \/ doe < 146096
      BY <1>1, SMT
    <2> QED  BY <2>1, <2>2, <2>3
  <1>5. 399 \div 4 = 99 /\ 399 \div 100 = 3
    BY SMT
  <1>6. PICK d \in 306 .. 365 : d = doe - 145731
    <2>1. doe - 145731 \in 306 .. 365
      BY <1>1, SMT
    <2> QED  BY <2>1, SMT
  <1>7. doe - (365 * 399 + 399 \div 4 - 399 \div 100) = d
    BY <1>5, <1>6, SMT
  <1> DEFINE p == (5 * d + 2) \div 153
  <1>8. p = IF d < 337 THEN 10 ELSE 11
    BY SMT
  <1> DEFINE z == days + 719468
             doe1 == z % 146097
             yoe1 == (doe1 - doe1 \div 1460 + doe1 \div 36524 - doe1 \div 146096) \div 365
             doy1 == doe1 - (365 * yoe1 + yoe1 \div 4 - yoe1 \div 100)
             mp1 == (5 * doy1 + 2) \div 153
             mon1 == IF mp1 < 10 THEN mp1 + 3 ELSE mp1 - 9
  <1>16. Civil(days) = [year |-> yoe1 + (z \div 146097) * 400 + (IF mon1 <= 2 THEN 1 ELSE 0),
                        mon |-> mon1, day |-> doy1 - (153 * mp1 + 2) \div 5 + 1]
    BY SMT DEF Civil
  <1>17. doe1 = doe /\ z \div 146097 = 4
    BY <1>2, SMT
  <1> HIDE DEF z, doe1
  <1>18. yoe1 = 399
    BY <1>4, <1>17, SMT
  <1> HIDE DEF yoe1
  <1>19. doy1 = d
    BY <1>7, <1>17, <1>18, SMT
  <1> HIDE DEF doy1
  <1>20. mp1 = p
    BY <1>19, SMT
  <1> HIDE DEF mp1
  <1>9. Civil(days) = [year |-> 399 + 4 * 400 + (IF (IF p < 10 THEN p + 3 ELSE p - 9) <= 2 THEN 1 ELSE 0),
                       mon |-> IF p < 10 THEN p + 3 ELSE p - 9,
                       day |-> d - (153 * p + 2) \div 5 + 1]
    BY <1>16, <1>17, <1>18, <1>19, <1>20, SMT
  <1>10. d = days + 306 - 10957 /\ days \in Nat
    BY <1>1, <1>6, SMT DEF Days
  <1> HIDE DEF p
  <1>11. CASE d < 337
    BY <1>8, <1>9, <1>10, <1>11, SMT
  <1>12. CASE d >= 337
    BY <1>8, <1>9, <1>10, <1>12, SMT
  <1> QED  BY <1>11, <1>12, SMT
\* What the fields of a date range over.
LEMMA CivilRange ==
  ASSUME NEW days \in Days
  PROVE  /\ Civil(days).year \in Nat /\ 2000 <= Civil(days).year /\ Civil(days).year <= 2037
         /\ Civil(days).mon \in 1 .. 12
         /\ Civil(days).day \in Nat /\ 1 <= Civil(days).day /\ Civil(days).day <= 31
  <1>1. CASE days < March2000
    BY <1>1, CivilToMarch, SMT DEF Days, March2000
  <1>2. CASE days >= March2000
    <2>1. PICK y \in EraYears, d \in EraDays, p \in EraMonths : MarchDate(days, y, d, p)
      BY <1>2, CivilFromMarch, SMT DEF Days, March2000
    <2>2. y \in 0 .. 37 /\ d \in 0 .. 365 /\ p \in 0 .. 11 /\ days \in Int /\ days <= 24836
      BY <2>1, SMT DEF EraYears, EraDays, EraMonths, Days
    <2>3. days = 11017 + 365 * y + y \div 4 + d /\ p = (5 * d + 2) \div 153
      BY <2>1, SMT DEF MarchDate, March2000
    <2>4. d - (153 * p + 2) \div 5 + 1 \in 1 .. 31
      BY <2>2, <2>3, SMT
    <2>5. (IF p < 10 THEN p + 3 ELSE p - 9) \in 1 .. 12
      BY <2>2, SMT
    <2>6. 2000 + y + (IF p < 10 THEN 0 ELSE 1) \in 2000 .. 2037
      BY <2>2, <2>3, SMT
    <2> QED  BY <2>1, <2>4, <2>5, <2>6, SMT DEF MarchDate
  <1> QED  BY <1>1, <1>2, SMT DEF Days, March2000

\* The fields of a date from 2000 to 2037.
InRange(d) ==
  /\ d.year \in Nat /\ 2000 <= d.year /\ d.year <= 2037 /\ d.mon \in 1 .. 12
  /\ d.day \in Nat /\ 1 <= d.day /\ d.day <= 31
  /\ d.hour \in 0 .. 23 /\ d.min \in Nat /\ d.min <= 59 /\ d.sec \in Nat /\ d.sec <= 59

LEMMA DateRange ==
  ASSUME NEW t \in Instants
  PROVE  t \div 86400 \in Days /\ InRange(DateTime(t))
  <1>1. t \in Int /\ 946684800 <= t /\ t <= 2145916799
    BY SMT DEF Instants
  <1>2. t \div 86400 \in Days
    BY <1>1, SMT DEF Days
  <1>3. (t % 86400) \div 3600 \in 0 .. 23
    BY <1>1, SMT
  <1>4. (t % 3600) \div 60 \in Nat /\ (t % 3600) \div 60 <= 59
    BY <1>1, SMT
  <1>5. t % 60 \in Nat /\ t % 60 <= 59
    BY <1>1, SMT
  <1>6. /\ DateTime(t).year = Civil(t \div 86400).year /\ DateTime(t).mon = Civil(t \div 86400).mon
        /\ DateTime(t).day = Civil(t \div 86400).day /\ DateTime(t).hour = (t % 86400) \div 3600
        /\ DateTime(t).min = (t % 3600) \div 60 /\ DateTime(t).sec = t % 60
    BY SMT DEF DateTime
  <1>7. PICK c : c = Civil(t \div 86400)
    BY SMT
  <1>8. /\ c.year \in Nat /\ 2000 <= c.year /\ c.year <= 2037 /\ c.mon \in 1 .. 12
        /\ c.day \in Nat /\ 1 <= c.day /\ c.day <= 31
    BY <1>2, <1>7, CivilRange, SMT
  <1> QED  BY <1>2, <1>3, <1>4, <1>5, <1>6, <1>7, <1>8, SMT DEF InRange

\* Instants of one minute differ in the seconds alone.
LEMMA SameMinute ==
  ASSUME NEW mode \in Modes, NEW t \in Nat, NEW u \in Nat, t \div 60 = u \div 60,
         NEW i \in 2 .. 6
  PROVE  Register(mode, t, Fields[i]) = Register(mode, u, Fields[i])
  <1>1. t \div 86400 = u \div 86400
    BY SMT
  <1>0. PICK k \in Nat, a \in Nat, b \in Nat : t = 60 * k + a /\ u = 60 * k + b /\ a < 60 /\ b < 60
    <2>1. PICK k \in Nat, a \in Nat : t = 60 * k + a /\ a < 60 /\ t \div 60 = k
      BY ONLY t \in Nat, Divide, SMT
    <2>2. PICK l \in Nat, b \in Nat : u = 60 * l + b /\ b < 60 /\ u \div 60 = l
      BY ONLY u \in Nat, Divide, SMT
    <2> QED  BY <2>1, <2>2, SMT
  <1>2. (t % 86400) \div 3600 = (u % 86400) \div 3600
    <2>1. PICK e \in Nat, f \in Nat : k = 1440 * e + f /\ f < 1440 /\ k \div 1440 = e
      BY ONLY k \in Nat, Divide, SMT
    <2>2. t % 86400 = 60 * f + a
      BY <1>0, <2>1, SMT
    <2>3. u % 86400 = 60 * f + b
      BY <1>0, <2>1, SMT
    <2>4. (60 * f + a) \div 3600 = f \div 60
      BY <1>0, <2>1, SMT
    <2>5. (60 * f + b) \div 3600 = f \div 60
      BY <1>0, <2>1, SMT
    <2> QED  BY <2>2, <2>3, <2>4, <2>5, SMT
  <1>3. (t % 3600) \div 60 = (u % 3600) \div 60
    BY <1>0, SMT
  <1> DEFINE c == Civil(t \div 86400)
             h == (t % 86400) \div 3600
             m == (t % 3600) \div 60
  <1>4. /\ DateTime(t) = [year |-> c.year, mon |-> c.mon, day |-> c.day, hour |-> h, min |-> m, sec |-> t % 60]
        /\ DateTime(u) = [year |-> c.year, mon |-> c.mon, day |-> c.day, hour |-> h, min |-> m, sec |-> u % 60]
    BY <1>1, <1>2, <1>3, SMT DEF DateTime
  <1> HIDE DEF c, h, m
  <1>5. \A f \in {"min", "hour", "day", "mon", "year"} : DateTime(t)[f] = DateTime(u)[f]
    BY <1>4, SMT
  <1>6. Fields[i] \in {"min", "hour", "day", "mon", "year"}
    BY SMT DEF Fields
  <1>7. DateTime(t).hour = DateTime(u).hour /\ DateTime(t).year = DateTime(u).year
    BY <1>5, SMT
  <1> QED  BY <1>5, <1>6, <1>7, SMT DEF Register

\* What a register shows, decoded.
TwoDigits == {v \in Nat : v <= 99}

LEMMA DecodedCoded ==
  ASSUME NEW mode \in Modes, NEW v \in TwoDigits
  PROVE  Decoded(mode, Coded(mode, v)) = v
  <1>1. (((v \div 10) * 16 + (v % 10)) % 16) + (((v \div 10) * 16 + (v % 10)) \div 16) * 10 = v
    BY SMT DEF TwoDigits
  <1> QED  BY <1>1, SMT DEF Decoded, Coded, Bin

\* Coding in BCD keeps numbers of two digits apart, and decoding gives them back.
LEMMA CodedDiffer ==
  ASSUME NEW mode \in Modes, NEW v \in TwoDigits, NEW w \in TwoDigits, Coded(mode, v) = Coded(mode, w)
  PROVE  v = w
  BY DecodedCoded, SMT

\* The hour comes back from the 12-hour mode too.
LEMMA DecodedHourCoded ==
  ASSUME NEW mode \in Modes, NEW h \in 0 .. 23
  PROVE  DecodedHour(mode, CodedHour(mode, h)) = h
  <1>1. CASE mode.h24
    <2>1. h \in TwoDigits
      BY SMT DEF TwoDigits
    <2> QED  BY <1>1, <2>1, DecodedCoded, SMT DEF DecodedHour, CodedHour
  <1>2. CASE ~mode.h24
    <2> DEFINE k == IF h % 12 = 0 THEN 12 ELSE h % 12
               after == IF h >= 12 THEN 128 ELSE 0
    <2>1. k \in 1 .. 12
      BY SMT
    <2>2. Coded(mode, k) \in 0 .. 127
      BY <2>1, SMT DEF Coded
    <2>3. Decoded(mode, Coded(mode, k)) = k
      BY <2>1, DecodedCoded, SMT DEF TwoDigits
    <2> DEFINE code == Coded(mode, k)
    <2>4. CodedHour(mode, h) = code + after
      BY <1>2, SMT DEF CodedHour
    <2> HIDE DEF code
    <2>5. (code + after) % 128 = code /\ (code + after >= 128 <=> h >= 12)
      BY <2>2, SMT DEF code
    <2>6. DecodedHour(mode, code + after) =
            CASE code + after >= 128 /\ k < 12 -> k + 12
              [] ~(code + after >= 128) /\ k = 12 -> 0
              [] OTHER -> k
      BY <1>2, <2>3, <2>5, SMT DEF DecodedHour, code
    <2>7. DecodedHour(mode, code + after) =
            IF h >= 12 /\ k < 12 THEN k + 12 ELSE IF h < 12 /\ k = 12 THEN 0 ELSE k
      BY <2>5, <2>6, SMT
    <2> QED  BY <2>4, <2>7, SMT
  <1> QED  BY <1>1, <1>2, SMT

YearHasTwo(d) == \E y \in TwoDigits : y = d.year % 100 /\ 2000 + y = d.year

LEMMA InTwoDigits ==
  ASSUME NEW d, InRange(d)
  PROVE  /\ d.mon \in TwoDigits /\ d.day \in TwoDigits /\ d.min \in TwoDigits /\ d.sec \in TwoDigits
         /\ d.hour \in 0 .. 23
         /\ YearHasTwo(d)
  <1>1. d.mon \in TwoDigits /\ d.day \in TwoDigits /\ d.min \in TwoDigits /\ d.sec \in TwoDigits
    BY SMT DEF InRange, TwoDigits
  <1>2. d.hour \in 0 .. 23
    BY SMT DEF InRange
  <1>3. PICK z \in Nat : z = d.year /\ 2000 <= z /\ z <= 2037
    BY SMT DEF InRange
  <1>4. z % 100 = z - 2000
    BY <1>3, SMT
  <1>5. z - 2000 \in TwoDigits
    BY <1>3, SMT DEF TwoDigits
  <1>6. YearHasTwo(d)
    BY <1>3, <1>4, <1>5, SMT DEF YearHasTwo
  <1> QED  BY <1>1, <1>2, <1>6

\* Registers that all show one instant are decoded to its date.
LEMMA DecodedRegisters ==
  ASSUME NEW mode \in Modes, NEW t \in Instants, NEW r \in Seq(Int), Len(r) = 6,
         \A i \in 1 .. 6 : r[i] = Register(mode, t, Fields[i])
  PROVE  Date(mode, r) = DateTime(t)
  <1>0. PICK d : d = DateTime(t)
    BY Zenon
  <1>1. InRange(d)
    BY <1>0, DateRange
  <1>11. /\ d.mon \in TwoDigits /\ d.day \in TwoDigits /\ d.min \in TwoDigits /\ d.sec \in TwoDigits
         /\ d.hour \in 0 .. 23
    BY <1>1, InTwoDigits, Zenon
  <1>2. /\ r[1] = Coded(mode, d.sec) /\ r[2] = Coded(mode, d.min)
        /\ r[3] = CodedHour(mode, d.hour) /\ r[4] = Coded(mode, d.day)
        /\ r[5] = Coded(mode, d.mon) /\ r[6] = Coded(mode, d.year % 100)
    BY <1>0, SMT DEF Register, Fields
  <1>3. PICK y \in TwoDigits : y = d.year % 100 /\ 2000 + y = d.year
    <2>1. YearHasTwo(d)
      BY <1>1, InTwoDigits, Zenon
    <2> QED  BY ONLY <2>1, SMT DEF YearHasTwo
  <1>4. Decoded(mode, r[1]) = d.sec
    BY <1>11, <1>2, DecodedCoded, ZenonT(60)
  <1>5. Decoded(mode, r[2]) = d.min
    BY <1>11, <1>2, DecodedCoded, ZenonT(60)
  <1>6. Decoded(mode, r[4]) = d.day
    BY <1>11, <1>2, DecodedCoded, ZenonT(60)
  <1>7. Decoded(mode, r[5]) = d.mon
    BY <1>11, <1>2, DecodedCoded, ZenonT(60)
  <1>8. 2000 + Decoded(mode, r[6]) = d.year
    <2>1. Coded(mode, y) = r[6]
      BY <1>2, <1>3, SMT
    <2>2. Decoded(mode, r[6]) = y
      BY <2>1, DecodedCoded, SMT
    <2> QED  BY <1>3, <2>2, SMT
  <1>9. DecodedHour(mode, r[3]) = d.hour
    BY <1>11, <1>2, DecodedHourCoded, ZenonT(60)
  <1>10. Date(mode, r) = [sec |-> d.sec, min |-> d.min, hour |-> d.hour,
                          day |-> d.day, mon |-> d.mon, year |-> d.year]
    BY <1>4, <1>5, <1>6, <1>7, <1>8, <1>9, SMT DEF Date
  <1> QED  BY <1>0, <1>10, SMT DEF DateTime

\* The sums of the calendar, written out.
YearsSum(y) == 365 * (y - 1970) + ((y - 1969) \div 4)

LEMMA YearsAre == \A y : y \in Years <=> y \in Nat /\ 1970 <= y /\ y <= 2038
  BY SMT DEF Years

LEMMA YearDaysAre ==
  ASSUME NEW y \in Nat, 1970 <= y, y <= 2038
  PROVE  /\ IsLeap(y) <=> y % 4 = 0
         /\ YearsSum(y + 1) = YearsSum(y) + YearDays(y)
  <1>1. IsLeap(y) <=> y % 4 = 0
    <2>1. y % 100 = 0 => y = 2000
      BY SMT
    <2>2. 2000 % 400 = 0
      BY SMT
    <2> QED  BY <2>1, <2>2, SMT DEF IsLeap
  <1>2. (y - 1968) \div 4 = ((y - 1969) \div 4) + (IF y % 4 = 0 THEN 1 ELSE 0)
    BY SMT
  <1>3. YearDays(y) = 365 + (IF y % 4 = 0 THEN 1 ELSE 0)
    BY <1>1, SMT DEF YearDays
  <1>4. YearsSum(y + 1) = 365 * (y - 1969) + ((y - 1968) \div 4)
    BY SMT DEF YearsSum
  <1> QED  BY <1>1, <1>2, <1>3, <1>4, SMT DEF YearsSum

LEMMA Least ==
  ASSUME NEW S, S \subseteq Nat, S # {}
  PROVE  \E n \in S : \A m \in S : n <= m
  <1>1. PICK n \in S : \A m \in S : ~(<<m, n>> \in OpToRel(<, Nat))
    BY NatLessThanWellFounded, WFMin, Zenon
  <1>2. ASSUME NEW m \in S PROVE n <= m
    <2>1. m \in Nat /\ n \in Nat
      BY Zenon
    <2>2. ASSUME m < n PROVE FALSE
      <3>1. <<m, n>> \in OpToRel(<, Nat)
        BY <2>1, <2>2, Zenon DEF OpToRel
      <3> QED  BY <1>1, <3>1, Zenon
    <2> QED  BY <2>1, <2>2, SMT
  <1> QED  BY <1>2, Zenon

\* The days before year n, if f tells those before the years up to it.
BeforeYear(f, n) == IF n = 1970 THEN 0 ELSE f[n - 1] + YearDays(n - 1)

\* The table of the days before a year holds their sum.
LEMMA DaysToYearIs == ASSUME NEW y \in Years PROVE DaysToYear[y] = YearsSum(y)
  <1> DEFINE Sum(f) == [n \in Years |-> BeforeYear(f, n)]
             days == CHOOSE f : f = Sum(f)
             table == [n \in Years |-> YearsSum(n)]
  <1>1. DaysToYear = [n \in Years |-> days[n]]
    BY SMT DEF DaysToYear, BeforeYear
  <1>2. table = Sum(table)
    <2>1. ASSUME NEW n \in Years PROVE YearsSum(n) = BeforeYear(table, n)
      <3>1. n \in Nat /\ 1970 <= n /\ n <= 2038
        BY YearsAre, SMT
      <3>2. CASE n = 1970
        BY <3>2, SMT DEF YearsSum, BeforeYear
      <3>3. CASE n > 1970
        <4>1. PICK k \in Nat : k = n - 1 /\ 1970 <= k /\ k <= 2038 /\ n = k + 1
          BY <3>1, <3>3, SMT
        <4>2. k \in Years
          BY <4>1, YearsAre, SMT
        <4>3. YearsSum(k + 1) = YearsSum(k) + YearDays(k)
          BY <4>1, YearDaysAre
        <4>4. table[k] = YearsSum(k)
          BY <4>2
        <4> QED  BY <3>3, <4>1, <4>3, <4>4, SMT DEF BeforeYear
      <3> QED  BY <3>1, <3>2, <3>3, SMT
    <2> QED  BY <2>1, Zenon
  <1>3. days = Sum(days)
    <2> HIDE DEF table, Sum
    <2> QED  BY <1>2, Zenon
  <1> HIDE DEF table, days
  <1> DEFINE wrong == {n \in Years : days[n] # table[n]}
  <1>4. ASSUME NEW n \in Years, \A m \in wrong : n <= m
        PROVE  days[n] = table[n]
    <2>1. days[n] = BeforeYear(days, n) /\ table[n] = BeforeYear(table, n)
      BY <1>2, <1>3, Zenon
    <2>2. n \in Nat /\ 1970 <= n /\ n <= 2038
      BY YearsAre, SMT
    <2>3. CASE n = 1970
      BY <2>1, <2>3, SMT DEF BeforeYear
    <2>4. CASE n # 1970
      <3>1. n - 1 \in Years
        BY <2>2, <2>4, YearsAre, SMT
      <3>2. n - 1 \notin wrong
        BY <1>4, <2>2, SMT
      <3>3. days[n - 1] = table[n - 1]
        BY <3>1, <3>2, Zenon
      <3> QED  BY <2>1, <2>4, <3>3, SMT DEF BeforeYear
    <2> QED  BY <2>3, <2>4
  <1>5. wrong = {}
    <2>1. wrong \subseteq Nat
      BY YearsAre, SMT
    <2>2. ASSUME wrong # {} PROVE FALSE
      <3>1. PICK n \in wrong : \A m \in wrong : n <= m
        BY <2>1, <2>2, Least, Zenon
      <3> QED  BY <1>4, <3>1, Zenon
    <2> QED  BY <2>2
  <1> QED  BY <1>1, <1>5 DEF table

\* Days before month m, of a year with so many days in February.
MonthsSum(m, feb) ==
  <<0, 31, 31 + feb, 62 + feb, 92 + feb, 123 + feb, 153 + feb, 184 + feb, 215 + feb,
    245 + feb, 276 + feb, 306 + feb>>[m]

LEMMA DaysInMonthAre ==
  ASSUME NEW y \in Years
  PROVE  /\ \A m \in 1 .. 12 : m # 2 =>
              DaysInMonth(y, m) = <<31, 28, 31, 30, 31, 30, 31, 31, 30, 31, 30, 31>>[m]
         /\ DaysInMonth(y, 2) = 28 + (IF y % 4 = 0 THEN 1 ELSE 0)
  <1>1. y \in Nat /\ 1970 <= y /\ y <= 2038
    BY YearsAre, SMT
  <1>2. IsLeap(y) <=> y % 4 = 0
    BY <1>1, YearDaysAre
  <1>3. DaysInMonth(y, 2) = IF IsLeap(y) THEN 29 ELSE 28
    BY SMT DEF DaysInMonth
  <1>4. \A m \in 1 .. 12 : m # 2 =>
          DaysInMonth(y, m) = <<31, 28, 31, 30, 31, 30, 31, 31, 30, 31, 30, 31>>[m]
    BY SMT DEF DaysInMonth
  <1> QED  BY <1>2, <1>3, <1>4, SMT

\* The days before month m, if f tells those before the months up to it.
BeforeMonth(y, f, m) == IF m = 1 THEN 0 ELSE f[m - 1] + DaysInMonth(y, m - 1)

\* The table of the days before a month holds their sum.
LEMMA DaysToMonthIs ==
  ASSUME NEW y \in Years, NEW m \in 1 .. 12
  PROVE  DaysToMonth[y][m] = MonthsSum(m, DaysInMonth(y, 2))
  <1> DEFINE Sum(f) == [n \in 1 .. 12 |-> BeforeMonth(y, f, n)]
             days == CHOOSE f : f = Sum(f)
             feb == DaysInMonth(y, 2)
             table == [n \in 1 .. 12 |-> MonthsSum(n, feb)]
  <1>1. DaysToMonth[y] = [n \in 1 .. 12 |-> days[n]]
    BY SMT DEF DaysToMonth, BeforeMonth
  <1>2. feb \in Nat
    <2>1. feb = 28 \/ feb = 29
      BY DaysInMonthAre, SMT
    <2> QED  BY <2>1, SMT
  <1> HIDE DEF feb
  <1>3. table = Sum(table)
    <2>1. ASSUME NEW n \in 1 .. 12 PROVE MonthsSum(n, feb) = BeforeMonth(y, table, n)
      <3>1. \A k \in 1 .. 12 : table[k] = MonthsSum(k, feb)
        OBVIOUS
      <3>2. \A k \in 1 .. 12 : k # 2 =>
              DaysInMonth(y, k) = <<31, 28, 31, 30, 31, 30, 31, 31, 30, 31, 30, 31>>[k]
        BY DaysInMonthAre
      <3>3. DaysInMonth(y, 2) = feb
        BY DEF feb
      <3> HIDE DEF table
      <3>4. CASE n \in 1 .. 4
        BY <1>2, <3>1, <3>2, <3>3, <3>4, SMT DEF MonthsSum, BeforeMonth
      <3>5. CASE n \in 5 .. 8
        BY <1>2, <3>1, <3>2, <3>5, SMT DEF MonthsSum, BeforeMonth
      <3>6. CASE n \in 9 .. 12
        BY <1>2, <3>1, <3>2, <3>6, SMT DEF MonthsSum, BeforeMonth
      <3> QED  BY <3>4, <3>5, <3>6, SMT
    <2> QED  BY <2>1, Zenon
  <1>4. days = Sum(days)
    <2> HIDE DEF table, Sum
    <2> QED  BY <1>3, Zenon
  <1> HIDE DEF table, days
  <1>5. \A n \in 1 .. 12 : days[n] = BeforeMonth(y, days, n) /\ table[n] = BeforeMonth(y, table, n)
    BY <1>3, <1>4, Zenon
  <1>6. days[1] = table[1]
    BY <1>5, SMT DEF BeforeMonth
  <1>7. \A n \in 1 .. 11 : days[n] = table[n] => days[n + 1] = table[n + 1]
    BY <1>5, SMT DEF BeforeMonth
  <1>8. days[2] = table[2] /\ days[3] = table[3] /\ days[4] = table[4]
    BY <1>6, <1>7, SMT
  <1>9. days[5] = table[5] /\ days[6] = table[6] /\ days[7] = table[7]
    BY <1>7, <1>8, SMT
  <1>10. days[8] = table[8] /\ days[9] = table[9] /\ days[10] = table[10]
    BY <1>7, <1>9, SMT
  <1>11. days[11] = table[11] /\ days[12] = table[12]
    BY <1>7, <1>10, SMT
  <1>12. days[m] = table[m]
    BY <1>6, <1>8, <1>9, <1>10, <1>11, SMT
  <1> QED  BY <1>1, <1>12, SMT DEF table, feb

\* datetime_to_epoch counts the days a date was made from.
LEMMA CivilIsDay ==
  ASSUME NEW days \in Days
  PROVE  DaysSinceEpoch(Civil(days).year, Civil(days).mon, Civil(days).day) = days
  <1>1. PICK c : c = Civil(days)
    BY SMT
  <1>2. c.year \in Years /\ c.mon \in 1 .. 12 /\ c.day \in Nat /\ c.year \in Nat /\ days \in Nat
    BY <1>1, CivilRange, YearsAre, SMT DEF Days
  <1>3. /\ DaysToYear[c.year] = YearsSum(c.year)
        /\ DaysToMonth[c.year][c.mon] = MonthsSum(c.mon, DaysInMonth(c.year, 2))
    BY <1>2, DaysToYearIs, DaysToMonthIs, Zenon
  <1>4. DaysInMonth(c.year, 2) = 28 + (IF c.year % 4 = 0 THEN 1 ELSE 0)
    BY <1>2, DaysInMonthAre, SMT
  <1> SUFFICES YearsSum(c.year) + MonthsSum(c.mon, DaysInMonth(c.year, 2)) + (c.day - 1) = days
    BY <1>1, <1>3, SMT DEF DaysSinceEpoch
  <1>5. CASE days < March2000
    <2>1. c = [year |-> 2000, mon |-> IF days < 10988 THEN 1 ELSE 2,
               day |-> IF days < 10988 THEN days - 10956 ELSE days - 10987]
      BY <1>1, <1>5, CivilToMarch, SMT
    <2>2. YearsSum(2000) = 10957
      BY SMT DEF YearsSum
    <2>3. \A feb : MonthsSum(1, feb) = 0 /\ MonthsSum(2, feb) = 31
      BY SMT DEF MonthsSum
    <2>4. CASE days < 10988
      BY <1>2, <2>1, <2>2, <2>3, <2>4, SMT
    <2>5. CASE days >= 10988
      BY <1>2, <2>1, <2>2, <2>3, <2>5, SMT
    <2> QED  BY <1>2, <2>4, <2>5, SMT
  <1>6. CASE days >= March2000
    <2>1. PICK y \in EraYears, d \in EraDays, p \in EraMonths : MarchDate(days, y, d, p)
      BY <1>6, CivilFromMarch
    <2>2. y \in Nat /\ d \in Nat /\ p \in 0 .. 11
      BY SMT DEF EraYears, EraDays, EraMonths
    <2>3. /\ days = 11017 + 365 * y + (y \div 4) + d
          /\ c.mon = IF p < 10 THEN p + 3 ELSE p - 9
          /\ c.day = d - ((153 * p + 2) \div 5) + 1
          /\ c.year = 2000 + y + (IF p < 10 THEN 0 ELSE 1)
      BY <1>1, <2>1, SMT DEF MarchDate, March2000
    <2>4. PICK q \in Nat, l \in Nat : y = 4 * q + l /\ l < 4 /\ y \div 4 = q
      BY <2>2, Divide, SMT
    <2>5. CASE p < 10
      <3>1. c.year = 2000 + 4 * q + l /\ c.mon = p + 3
        BY <2>2, <2>3, <2>4, <2>5, SMT
      <3>2. YearsSum(c.year) = 365 * (30 + y) + 7 + q + (IF l = 0 THEN 0 ELSE 1)
        BY <2>4, <3>1, SMT DEF YearsSum
      <3>3. DaysInMonth(c.year, 2) = 28 + (IF l = 0 THEN 1 ELSE 0)
        BY <1>4, <2>4, <3>1, SMT
      <3>4. PICK o \in Nat : /\ o = (153 * p + 2) \div 5
                          /\ MonthsSum(p + 3, DaysInMonth(c.year, 2)) = o + 59 + (IF l = 0 THEN 1 ELSE 0)
        <4>1. (153 * p + 2) \div 5 \in Nat
          BY <2>2, SMT
        <4>2. MonthsSum(p + 3, DaysInMonth(c.year, 2)) = ((153 * p + 2) \div 5) + 59 + (IF l = 0 THEN 1 ELSE 0)
          BY <2>2, <2>5, <3>3, SMT DEF MonthsSum
        <4> QED  BY <4>1, <4>2, SMT
      <3>5. c.day = d - o + 1 /\ days = 11017 + 365 * y + q + d
        BY <2>3, <2>4, <3>4, SMT
      <3> QED  BY <2>2, <3>1, <3>2, <3>4, <3>5, SMT
    <2>6. CASE p >= 10
      <3>1. c.year = 2001 + 4 * q + l /\ c.mon = p - 9
        BY <2>2, <2>3, <2>4, <2>6, SMT
      <3>2. YearsSum(c.year) = 365 * (31 + y) + 8 + q
        BY <2>4, <3>1, SMT DEF YearsSum
      <3>3. p = 10 \/ p = 11
        BY <2>2, <2>6, SMT
      <3>4. PICK o \in Nat : /\ o = (153 * p + 2) \div 5
                          /\ MonthsSum(p - 9, DaysInMonth(c.year, 2)) = o + (0 - 306)
        <4>1. (153 * p + 2) \div 5 \in Nat
          BY <2>2, SMT
        <4>2. MonthsSum(p - 9, DaysInMonth(c.year, 2)) = ((153 * p + 2) \div 5) + (0 - 306)
          BY <3>3, SMT DEF MonthsSum
        <4> QED  BY <4>1, <4>2, SMT
      <3>5. c.day = d - o + 1 /\ days = 11017 + 365 * y + q + d
        BY <2>3, <2>4, <3>4, SMT
      <3> QED  BY <2>2, <3>1, <3>2, <3>4, <3>5, SMT
    <2> QED  BY <2>2, <2>5, <2>6, SMT
  <1> QED  BY <1>2, <1>5, <1>6, SMT DEF March2000

\* An instant's date is counted back to the instant.
LEMMA EpochIsInstant == ASSUME NEW t \in Instants PROVE Epoch(DateTime(t)) = t
  <1>1. PICK n \in Nat, s \in Nat : t = 86400 * n + s /\ s < 86400 /\ t \div 86400 = n /\ t % 86400 = s
    BY Divide, SMT DEF Instants
  <1>2. n \in Days
    BY <1>1, DateRange, SMT
  <1>3. DaysSinceEpoch(DateTime(t).year, DateTime(t).mon, DateTime(t).day) = n
    <2>1. /\ DateTime(t).year = Civil(n).year /\ DateTime(t).mon = Civil(n).mon
          /\ DateTime(t).day = Civil(n).day
      BY <1>1, SMT DEF DateTime
    <2> QED  BY <1>2, <2>1, CivilIsDay
  <1>4. /\ DateTime(t).hour = s \div 3600 /\ DateTime(t).min = (t % 3600) \div 60
        /\ DateTime(t).sec = t % 60
    BY <1>1, SMT DEF DateTime
  <1>5. t % 3600 = s % 3600 /\ t % 60 = s % 60
    <2>1. t % 3600 = s % 3600
      BY <1>1, SMT
    <2>2. t % 60 = s % 60
      BY <1>1, SMT
    <2> QED  BY <2>1, <2>2
  <1>6. (s \div 3600) * 3600 + ((s % 3600) \div 60) * 60 + (s % 60) = s
    BY SMT
  <1> QED  BY <1>1, <1>3, <1>4, <1>5, <1>6, SMT DEF Epoch

-----------------------------------------------------------------------------
(* A reading put together from registers of several instants.              *)

\* The seconds are those of the instant x, and no other register is older than the instant
\* before: a read during an update may give the new second, and the next one the old minute.
FirstFrom(mode, r, x, hi) ==
  /\ Len(r) > 0 => r[1] = Register(mode, x, Fields[1])
  /\ \A i \in 2 .. Len(r) :
       \E y \in Nat : x - 1 <= y /\ y <= hi /\ r[i] = Register(mode, y, Fields[i])

SecondFrom(mode, r, lo, hi) ==
  \A i \in 1 .. Len(r) : \E y \in Nat : lo <= y /\ y <= hi /\ r[i] = Register(mode, y, Fields[i])

FirstReading(mode, r, from, hi) ==
  \E x \in Nat : from <= x /\ x <= hi /\ FirstFrom(mode, r, x, hi)

\* Between the two readings there is an instant the chip showed at rest.
BothReadings(mode, r, s, from, now, hi) ==
  \E x, t \in Nat : /\ from <= x /\ x <= t /\ t <= now
                    /\ FirstFrom(mode, r, x, t) /\ SecondFrom(mode, s, t, hi)

\* A reading stays one as the chip goes on.
LEMMA FirstGrows ==
  ASSUME NEW mode \in Modes, NEW r \in Seq(Int), NEW from \in Nat, NEW hi \in Nat, NEW later \in Nat,
         hi <= later, FirstReading(mode, r, from, hi)
  PROVE  FirstReading(mode, r, from, later)
  <1>1. PICK x \in Nat : from <= x /\ x <= hi /\ FirstFrom(mode, r, x, hi)
    BY DEF FirstReading
  <1>2. FirstFrom(mode, r, x, later)
    BY <1>1, SMT DEF FirstFrom
  <1>3. x <= later
    BY <1>1, SMT
  <1> QED  BY <1>1, <1>2, <1>3 DEF FirstReading

LEMMA BothGrow ==
  ASSUME NEW mode \in Modes, NEW r \in Seq(Int), NEW s \in Seq(Int), NEW from \in Nat,
         NEW now \in Nat, NEW hi \in Nat, NEW then \in Nat, NEW later \in Nat,
         now <= then, hi <= later, BothReadings(mode, r, s, from, now, hi)
  PROVE  BothReadings(mode, r, s, from, then, later)
  <1>1. PICK x \in Nat, t \in Nat : /\ from <= x /\ x <= t /\ t <= now
                                    /\ FirstFrom(mode, r, x, t) /\ SecondFrom(mode, s, t, hi)
    BY DEF BothReadings
  <1>2. SecondFrom(mode, s, t, later)
    BY <1>1, SMT DEF SecondFrom
  <1>3. t <= then
    BY <1>1, SMT
  <1> QED  BY <1>1, <1>2, <1>3 DEF BothReadings

\* One more register read keeps a reading one.
LEMMA FirstAppend ==
  ASSUME NEW mode \in Modes, NEW r \in Seq(Int), NEW from \in Nat, NEW hi \in Nat,
         FirstReading(mode, r, from, hi), Len(r) < 6,
         NEW u \in Nat, from <= u, u <= hi, hi <= u + 1, NEW v \in Int, v = Register(mode, u, Fields[Len(r) + 1])
  PROVE  FirstReading(mode, Append(r, v), from, hi)
  <1>1. PICK n \in Nat : n = Len(r)
    OBVIOUS
  <1>2. /\ Len(Append(r, v)) = n + 1 /\ Append(r, v)[n + 1] = v
        /\ \A i \in 1 .. n : Append(r, v)[i] = r[i]
    BY <1>1
  <1> DEFINE s == Append(r, v)
  <1> HIDE DEF s
  <1>3. CASE n = 0
    <2>1. FirstFrom(mode, s, u, hi)
      BY <1>1, <1>2, <1>3, SMT DEF FirstFrom, s
    <2> QED  BY <2>1 DEF FirstReading, s
  <1>4. CASE n > 0
    <2>1. PICK x \in Nat : from <= x /\ x <= hi /\ FirstFrom(mode, r, x, hi)
      BY DEF FirstReading
    <2>2. Len(s) = n + 1 /\ s[1] = Register(mode, x, Fields[1])
      BY <1>1, <1>2, <1>4, <2>1, SMT DEF FirstFrom, s
    <2>3. ASSUME NEW i \in 2 .. n + 1
          PROVE  \E y \in Nat : x - 1 <= y /\ y <= hi /\ s[i] = Register(mode, y, Fields[i])
      <3>1. CASE i = n + 1
        <4>1. s[i] = Register(mode, u, Fields[i]) /\ x - 1 <= u /\ u <= hi
          BY <1>1, <1>2, <2>1, <3>1, SMT DEF s
        <4> QED  BY <4>1
      <3>2. CASE i \in 2 .. n
        <4>1. s[i] = r[i]
          BY <1>2, <3>2, SMT DEF s
        <4> QED  BY <1>1, <2>1, <3>2, <4>1 DEF FirstFrom
      <3> QED  BY <3>1, <3>2
    <2>4. FirstFrom(mode, s, x, hi)
      BY <2>2, <2>3, Zenon DEF FirstFrom
    <2> QED  BY <2>1, <2>4 DEF FirstReading, s
  <1> QED  BY <1>1, <1>3, <1>4

LEMMA SecondAppend ==
  ASSUME NEW mode \in Modes, NEW r \in Seq(Int), NEW s \in Seq(Int), NEW from \in Nat,
         NEW now \in Nat, NEW hi \in Nat, BothReadings(mode, r, s, from, now, hi), Len(s) < 6,
         NEW u \in Nat, now <= u, u <= hi, NEW v \in Int, v = Register(mode, u, Fields[Len(s) + 1])
  PROVE  BothReadings(mode, r, Append(s, v), from, now, hi)
  <1>1. PICK x \in Nat, t \in Nat : /\ from <= x /\ x <= t /\ t <= now
                                    /\ FirstFrom(mode, r, x, t) /\ SecondFrom(mode, s, t, hi)
    BY DEF BothReadings
  <1>2. PICK n \in Nat : n = Len(s)
    OBVIOUS
  <1>3. /\ Len(Append(s, v)) = n + 1 /\ Append(s, v)[n + 1] = v
        /\ \A i \in 1 .. n : Append(s, v)[i] = s[i]
    BY <1>2
  <1> DEFINE w == Append(s, v)
  <1> HIDE DEF w
  <1>4. ASSUME NEW i \in 1 .. n + 1
        PROVE  \E y \in Nat : t <= y /\ y <= hi /\ w[i] = Register(mode, y, Fields[i])
    <2>1. CASE i = n + 1
      <3>1. w[i] = Register(mode, u, Fields[i]) /\ t <= u
        BY <1>1, <1>2, <1>3, <2>1, SMT DEF w
      <3> QED  BY <3>1
    <2>2. CASE i \in 1 .. n
      <3>1. w[i] = s[i]
        BY <1>3, <2>2, SMT DEF w
      <3> QED  BY <1>1, <1>2, <2>2, <3>1 DEF SecondFrom
    <2> QED  BY <2>1, <2>2
  <1>5. SecondFrom(mode, w, t, hi)
    BY <1>3, <1>4 DEF SecondFrom, w
  <1> QED  BY <1>1, <1>5 DEF BothReadings, w

\* Equal seconds, less than a minute apart, are those of one instant.
LEMMA SameSeconds ==
  ASSUME NEW mode \in Modes, NEW x \in Nat, NEW u \in Nat, x <= u, u < x + 60,
         Register(mode, x, Fields[1]) = Register(mode, u, Fields[1])
  PROVE  x = u
  <1>1. Coded(mode, x % 60) = Coded(mode, u % 60)
    BY SMT DEF Register, Fields, DateTime
  <1>2. x % 60 \in TwoDigits /\ u % 60 \in TwoDigits
    BY SMT DEF TwoDigits
  <1>3. x % 60 = u % 60
    BY <1>1, <1>2, CodedDiffer
  <1>4. PICK a \in Nat, b \in Nat : x = 60 * a + b /\ b < 60 /\ x % 60 = b
    BY Divide, SMT
  <1>5. PICK c \in Nat, d \in Nat : u = 60 * c + d /\ d < 60 /\ u % 60 = d
    BY Divide, SMT
  <1>6. x = 60 * a + b /\ u = 60 * c + b
    BY <1>3, <1>4, <1>5
  <1> QED  BY <1>4, <1>6, SMT

\* Two equal readings are a reading of the instant between them.
LEMMA EqualReadings ==
  ASSUME NEW mode \in Modes, NEW r \in Seq(Int), Len(r) = 6, NEW from \in Instants, NEW now \in Nat,
         NEW hi \in Instants, now <= hi, hi < from + 60, BothReadings(mode, r, r, from, now, hi)
  PROVE  \E t \in Instants : from <= t /\ t <= now /\ Date(mode, r) = DateTime(t)
  <1>1. PICK x \in Nat, t \in Nat : /\ from <= x /\ x <= t /\ t <= now
                                    /\ FirstFrom(mode, r, x, t) /\ SecondFrom(mode, r, t, hi)
    BY DEF BothReadings
  <1>2. from \in Nat /\ hi \in Nat
    BY SMT DEF Instants
  <1>3. PICK u \in Nat : t <= u /\ u <= hi /\ r[1] = Register(mode, u, Fields[1])
    BY <1>1, SMT DEF SecondFrom
  <1>4. r[1] = Register(mode, x, Fields[1])
    BY <1>1, SMT DEF FirstFrom
  <1>5. x = t /\ u = t
    <2>1. x <= u /\ u < x + 60
      BY <1>1, <1>2, <1>3, SMT
    <2>2. x = u
      BY <1>3, <1>4, <2>1, SameSeconds
    <2> QED  BY <1>1, <1>3, <2>2, SMT
  <1>6. PICK q \in Nat, k \in Nat : t = 60 * q + k /\ k < 60 /\ t \div 60 = q
    BY Divide, SMT
  <1>7. ASSUME NEW i \in 2 .. 6 PROVE r[i] = Register(mode, t, Fields[i])
    <2>1. PICK y \in Nat : t - 1 <= y /\ y <= t /\ r[i] = Register(mode, y, Fields[i])
      BY <1>1, <1>5, SMT DEF FirstFrom
    <2>2. PICK z \in Nat : t <= z /\ z <= hi /\ r[i] = Register(mode, z, Fields[i])
      BY <1>1, SMTT(30) DEF SecondFrom
    <2>3. CASE k = 0
      <3>1. z = 60 * q + (z - t) /\ z - t \in Nat /\ z - t < 60
        BY <1>1, <1>2, <1>6, <2>2, <2>3, SMT
      <3>2. z \div 60 = q
        BY <3>1, DivMod, SMT
      <3>3. t \div 60 = z \div 60
        BY <1>6, <3>2
      <3>4. Register(mode, t, Fields[i]) = Register(mode, z, Fields[i])
        BY ONLY mode \in Modes, t \in Nat, z \in Nat, i \in 2 .. 6, <3>3, SameMinute, SMT
      <3> QED  BY <2>2, <3>4
    <2>4. CASE k > 0
      <3>1. y = 60 * q + (k - (t - y)) /\ k - (t - y) \in Nat /\ k - (t - y) < 60
        BY <1>6, <2>1, <2>4, SMT
      <3>2. y \div 60 = q
        BY <3>1, DivMod, SMT
      <3>3. t \div 60 = y \div 60
        BY <1>6, <3>2
      <3>4. Register(mode, t, Fields[i]) = Register(mode, y, Fields[i])
        BY ONLY mode \in Modes, t \in Nat, y \in Nat, i \in 2 .. 6, <3>3, SameMinute, SMT
      <3> QED  BY <2>1, <3>4
    <2> QED  BY <1>6, <2>3, <2>4, SMT
  <1>8. \A i \in 1 .. 6 : r[i] = Register(mode, t, Fields[i])
    BY <1>4, <1>5, <1>7, SMT
  <1>9. t \in Instants
    BY <1>1, <1>3, <1>5, SMT DEF Instants
  <1>10. Date(mode, r) = DateTime(t)
    BY <1>8, <1>9, DecodedRegisters
  <1> QED  BY <1>1, <1>2, <1>5, <1>9, <1>10, SMT

-----------------------------------------------------------------------------
(* The reading of a call under way.                                        *)

\* The last instant a register may show.
LastSeen == chip.t + (IF chip.uip THEN 1 ELSE 0)

\* The instants left to the chip stay in the calendar, and a call takes less than a minute.
TimeInv ==
  /\ 946684800 <= chip.t
  /\ chip.updates <= MaxUpdates /\ LastSeen + (MaxUpdates - chip.updates) <= 2145916799
  /\ ~At("idle") => 946684800 <= rtc.from /\ rtc.from <= chip.t /\ Overtaken < 60

\* What the readings of the call hold, at each point of it.
ReadInv ==
  /\ rtc.pc \in {"read1", "wait2"} => FirstReading(chip.mode, rtc.first, rtc.from, LastSeen)
  /\ rtc.pc \in {"read2", "compare"} =>
       BothReadings(chip.mode, rtc.first, rtc.second, rtc.from, chip.t, LastSeen)

\* The instants a call sees, all of one calendar and less than a minute apart.
LEMMA TimesAre ==
  ASSUME TypeInv, TimeInv
  PROVE  /\ chip.t \in Instants /\ LastSeen \in Instants /\ LastSeen \in Nat
         /\ chip.t <= LastSeen /\ LastSeen <= chip.t + 1 /\ (~chip.uip => LastSeen = chip.t)
         /\ ~At("idle") => rtc.from \in Instants /\ rtc.from <= chip.t /\ LastSeen < rtc.from + 60
  <1>1. /\ chip.t \in Nat /\ chip.uip \in BOOLEAN /\ chip.updates \in Nat /\ rtc.from \in Nat
        /\ MaxUpdates \in Nat /\ MaxDelay \in Nat /\ MaxDelay < 60
    BY ClockAssumption, TimesAssumption DEF TypeInv, ChipState, CallState
  <1>2. LastSeen \in Nat /\ chip.t <= LastSeen /\ LastSeen <= chip.t + 1 /\ (~chip.uip => LastSeen = chip.t)
    BY <1>1, SMT DEF LastSeen
  <1>3. LastSeen <= 2145916799
    BY <1>1, <1>2, SMT DEF TimeInv
  <1>4. chip.t \in Instants /\ LastSeen \in Instants
    BY <1>1, <1>2, <1>3, SMT DEF TimeInv, Instants
  <1>5. ASSUME ~At("idle")
        PROVE  rtc.from \in Instants /\ rtc.from <= chip.t /\ LastSeen < rtc.from + 60
    <2>1. 946684800 <= rtc.from /\ rtc.from <= chip.t /\ Overtaken < 60
      BY <1>5, SMT DEF TimeInv
    <2>2. LastSeen = rtc.from + Overtaken /\ Overtaken \in Int
      BY <1>1, SMT DEF LastSeen, Overtaken
    <2>3. rtc.from \in Instants
      BY <1>1, <1>2, <1>3, <2>1, SMT DEF Instants
    <2>4. LastSeen < rtc.from + 60
      BY <1>1, <2>1, <2>2, SMT
    <2> QED  BY <2>1, <2>3, <2>4
  <1> QED  BY <1>2, <1>4, <1>5

LEMMA TimeInit == ASSUME Init PROVE TimeInv
  <1>1. PICK t \in Starts : chip.t = t /\ chip.uip = FALSE /\ chip.updates = 0
    BY DEF Init
  <1>2. rtc.pc = "wait1" /\ rtc.from = chip.t
    BY DEF Init, NoCall
  <1>3. t \in Instants /\ t + MaxUpdates \in Instants /\ MaxUpdates \in Nat /\ MaxDelay \in Nat
    BY ClockAssumption, TimesAssumption, SMT
  <1>4. t \in Nat /\ 946684800 <= t /\ t + MaxUpdates <= 2145916799
    BY <1>3, SMT DEF Instants
  <1>5. LastSeen = t /\ Overtaken = 0
    BY <1>1, <1>2, <1>4, SMT DEF LastSeen, Overtaken
  <1> QED  BY <1>1, <1>2, <1>3, <1>4, <1>5, SMT DEF TimeInv

LEMMA TimeStep == ASSUME TypeInv, TimeInv, [Next]_vars PROVE TimeInv'
  <1>1. /\ chip.t \in Nat /\ chip.updates \in Nat /\ rtc.from \in Nat /\ Overtaken \in Int
        /\ MaxUpdates \in Nat /\ MaxDelay \in Nat /\ MaxDelay < 60 /\ chip.uip \in BOOLEAN
    BY ClockAssumption, TimesAssumption, OvertakenIsInt DEF TypeInv, ChipState, CallState
  <1>2. CASE UNCHANGED <<chip, rtc.pc, rtc.from>>
    BY <1>2 DEF TimeInv, LastSeen, Overtaken, At
  <1>3. CASE UpdateBegins
    <2>1. /\ chip'.uip /\ ~chip.uip /\ chip'.t = chip.t /\ chip'.updates = chip.updates + 1
          /\ chip.updates < MaxUpdates /\ (At("idle") \/ Overtaken < MaxDelay) /\ UNCHANGED rtc
      BY <1>3, UpdateBeginsMeans DEF TypeInv
    <2>2. Overtaken' = Overtaken + 1
      BY <1>3, OvertakenGrows
    <2>3. LastSeen = chip.t /\ LastSeen' = chip.t + 1
      BY <1>1, <2>1, SMT DEF LastSeen
    <2>4. LastSeen' + (MaxUpdates - chip'.updates) <= 2145916799
      BY <1>1, <2>1, <2>3, SMT DEF TimeInv
    <2>5. chip'.updates <= MaxUpdates
      BY <1>1, <2>1, SMT
    <2>6. ~At("idle") => 946684800 <= rtc.from /\ rtc.from <= chip.t /\ Overtaken' < 60
      BY <1>1, <2>1, <2>2, SMT DEF TimeInv
    <2> QED  BY <2>1, <2>4, <2>5, <2>6 DEF TimeInv, At
  <1>4. CASE UpdateEnds
    <2>1. /\ ~chip'.uip /\ chip.uip /\ chip'.t = chip.t + 1 /\ UNCHANGED <<chip.updates, rtc>>
      BY <1>4, UpdateEndsMeans DEF TypeInv
    <2>2. Overtaken' = Overtaken
      BY <1>4, OvertakenGrows
    <2>3. LastSeen' = LastSeen
      BY <1>1, <2>1, SMT DEF LastSeen
    <2>4. 946684800 <= chip'.t /\ (rtc.from <= chip.t => rtc.from <= chip'.t)
      BY <1>1, <2>1, SMT DEF TimeInv
    <2> QED  BY <2>1, <2>2, <2>3, <2>4 DEF TimeInv, At
  <1>5. CASE At("idle") /\ Begin("get")
    <2>1. rtc'.pc = "wait1" /\ rtc'.from = chip.t /\ UNCHANGED chip
      BY <1>5, BeginMeans DEF TypeInv
    <2>2. LastSeen' = LastSeen
      BY <2>1 DEF LastSeen
    <2>4. Overtaken' < 60
      BY <1>1, <2>1, SMT DEF Overtaken
    <2> QED  BY <1>1, <2>1, <2>2, <2>4, SMT DEF TimeInv, At
  <1>6. CASE Waited("wait1", "read1") \/ Waited("wait2", "read2") \/ ReadFirst \/ ReadSecond \/ Retry
    <2>1. /\ UNCHANGED <<chip, rtc.from>> /\ rtc.pc # "idle" /\ rtc'.pc # "idle"
      <3>1. CASE Waited("wait1", "read1") \/ Waited("wait2", "read2")
        BY <3>1, WaitedMeans DEF TypeInv, Waits, Reads
      <3>2. CASE ReadFirst
        BY <3>2, ReadFirstMeans
      <3>3. CASE ReadSecond
        BY <3>3, ReadSecondMeans
      <3>4. CASE Retry
        BY <3>4, RetryMeans DEF TypeInv
      <3> QED  BY <1>6, <3>1, <3>2, <3>3, <3>4
    <2> QED  BY <2>1 DEF TimeInv, LastSeen, Overtaken, At
  <1>7. CASE InitReturns \/ GetReturns
    <2>1. Returned
      BY <1>7, ReturnsMean
    <2>2. rtc'.pc = "idle" /\ UNCHANGED chip
      BY <2>1 DEF Returned, NoCall
    <2> QED  BY <2>2 DEF TimeInv, LastSeen, At
  <1>8. CASE UNCHANGED vars \/ TimerHandler
    BY <1>2, <1>8 DEF vars, TimerHandler
  <1> QED  BY <1>3, <1>4, <1>5, <1>6, <1>7, <1>8 DEF Next

LEMMA ReadInit == ASSUME Init PROVE ReadInv
  BY DEF Init, NoCall, ReadInv

\* Each read of a register, wait and return keeps the readings what they are.
LEMMA ReadStep == ASSUME TypeInv, TimeInv, ReadInv, [Next]_vars PROVE ReadInv'
  <1>1. /\ chip.t \in Nat /\ LastSeen \in Nat /\ rtc.from \in Nat /\ chip.mode \in Modes
        /\ rtc.first \in Seq(Int) /\ rtc.second \in Seq(Int) /\ chip.t <= LastSeen
        /\ chip \in ChipState /\ rtc \in CallState
    BY TimesAre DEF TypeInv, ChipState, CallState
  <1>2. CASE UNCHANGED <<chip, rtc>>
    BY <1>2 DEF ReadInv, LastSeen
  <1>3. CASE UpdateBegins \/ UpdateEnds
    <2>1. chip'.t \in Nat /\ chip.t <= chip'.t /\ chip'.mode = chip.mode /\ UNCHANGED rtc
      BY <1>1, <1>3, UpdateBeginsMeans, UpdateEndsMeans
    <2>2. LastSeen' \in Nat /\ LastSeen <= LastSeen'
      <3>1. CASE UpdateBegins
        <4>1. LastSeen = chip.t /\ LastSeen' = chip.t + 1
          BY <1>1, <3>1, UpdateBeginsMeans DEF LastSeen
        <4> QED  BY <1>1, <4>1
      <3>2. CASE UpdateEnds
        <4>1. LastSeen = chip.t + 1 /\ LastSeen' = chip.t + 1
          BY <1>1, <3>2, UpdateEndsMeans DEF LastSeen
        <4> QED  BY <1>1, <4>1
      <3> QED  BY <1>3, <3>1, <3>2
    <2>3. ASSUME FirstReading(chip.mode, rtc.first, rtc.from, LastSeen)
          PROVE  FirstReading(chip.mode, rtc.first, rtc.from, LastSeen')
      BY <1>1, <2>2, <2>3, FirstGrows
    <2>4. ASSUME BothReadings(chip.mode, rtc.first, rtc.second, rtc.from, chip.t, LastSeen)
          PROVE  BothReadings(chip.mode, rtc.first, rtc.second, rtc.from, chip'.t, LastSeen')
      BY <1>1, <2>1, <2>2, <2>4, BothGrow
    <2> QED  BY <2>1, <2>3, <2>4 DEF ReadInv
  <1>4. CASE At("idle") /\ Begin("get")
    BY <1>1, <1>4, BeginMeans DEF ReadInv
  <1>5. CASE Waited("wait1", "read1")
    <2>1. /\ rtc.pc = "wait1" /\ rtc'.pc = "read1" /\ ~chip.uip
          /\ UNCHANGED <<rtc.first, rtc.from, chip>>
      BY <1>1, <1>5, WaitedMeans DEF Waits, Reads
    <2>2. rtc.first = <<>> /\ LastSeen' = LastSeen /\ ~At("idle")
      BY <2>1 DEF TypeInv, Progress, At, LastSeen
    <2>3. rtc.from <= LastSeen
      BY <1>1, <2>2, TimesAre, SMT
    <2>4. FirstFrom(chip.mode, <<>>, rtc.from, LastSeen)
      BY SMT DEF FirstFrom
    <2>5. FirstReading(chip.mode, rtc.first, rtc.from, LastSeen)
      BY <1>1, <2>2, <2>3, <2>4, SMT DEF FirstReading
    <2> QED  BY <2>1, <2>2, <2>5 DEF ReadInv
  <1>6. CASE Waited("wait2", "read2")
    <2>1. /\ rtc.pc = "wait2" /\ rtc'.pc = "read2" /\ ~chip.uip
          /\ UNCHANGED <<rtc.first, rtc.second, rtc.from, chip>>
      BY <1>1, <1>6, WaitedMeans DEF Waits, Reads
    <2>2. rtc.second = <<>> /\ LastSeen' = LastSeen /\ LastSeen = chip.t
      BY <2>1, TimesAre DEF TypeInv, Progress, At, LastSeen
    <2>3. PICK x \in Nat : /\ rtc.from <= x /\ x <= chip.t
                           /\ FirstFrom(chip.mode, rtc.first, x, chip.t)
      BY <2>1, <2>2 DEF ReadInv, FirstReading
    <2>4. SecondFrom(chip.mode, rtc.second, chip.t, chip.t)
      BY <2>2, SMT DEF SecondFrom
    <2>5. BothReadings(chip.mode, rtc.first, rtc.second, rtc.from, chip.t, LastSeen)
      BY <1>1, <2>2, <2>3, <2>4 DEF BothReadings
    <2> QED  BY <2>1, <2>2, <2>5 DEF ReadInv
  <1>7. CASE ReadFirst
    <2>1. /\ rtc.pc = "read1" /\ rtc'.pc \in {"read1", "wait2"} /\ UNCHANGED <<rtc.from, chip>>
      BY <1>7, ReadFirstMeans DEF TypeInv
    <2>2. PICK v \in Seen(rtc.first) : rtc'.first = Append(rtc.first, v)
      BY <1>7, ReadFirstMeans
    <2>3. Len(rtc.first) < 6 /\ ~At("idle") /\ FirstReading(chip.mode, rtc.first, rtc.from, LastSeen)
      BY <2>1 DEF TypeInv, Progress, At, ReadInv
    <2>4. v \in Int /\ \E u \in chip.t .. LastSeen : v = Register(chip.mode, u, Fields[Len(rtc.first) + 1])
      BY <1>1, <2>3, SeenMeans DEF LastSeen
    <2>5. PICK u \in chip.t .. LastSeen : v = Register(chip.mode, u, Fields[Len(rtc.first) + 1])
      BY <2>4
    <2>6. u \in Nat /\ rtc.from <= u /\ u <= LastSeen /\ LastSeen <= u + 1
      BY <1>1, <2>3, TimesAre, SMT
    <2>7. FirstReading(chip.mode, rtc'.first, rtc.from, LastSeen)
      BY <1>1, <2>2, <2>3, <2>4, <2>5, <2>6, FirstAppend
    <2>8. LastSeen' = LastSeen
      BY <2>1 DEF LastSeen
    <2> QED  BY <2>1, <2>7, <2>8 DEF ReadInv
  <1>8. CASE ReadSecond
    <2>1. /\ rtc.pc = "read2" /\ rtc'.pc \in {"read2", "compare"} /\ UNCHANGED <<rtc.first, rtc.from, chip>>
      BY <1>8, ReadSecondMeans DEF TypeInv
    <2>2. PICK v \in Seen(rtc.second) : rtc'.second = Append(rtc.second, v)
      BY <1>8, ReadSecondMeans
    <2>3. /\ Len(rtc.second) < 6
          /\ BothReadings(chip.mode, rtc.first, rtc.second, rtc.from, chip.t, LastSeen)
      BY <2>1 DEF TypeInv, Progress, At, ReadInv
    <2>4. v \in Int /\ \E u \in chip.t .. LastSeen : v = Register(chip.mode, u, Fields[Len(rtc.second) + 1])
      BY <1>1, <2>3, SeenMeans DEF LastSeen
    <2>5. PICK u \in chip.t .. LastSeen : v = Register(chip.mode, u, Fields[Len(rtc.second) + 1])
      BY <2>4
    <2>6. u \in Nat /\ chip.t <= u /\ u <= LastSeen
      BY <1>1, SMT
    <2>7. BothReadings(chip.mode, rtc.first, rtc'.second, rtc.from, chip.t, LastSeen)
      BY <1>1, <2>2, <2>3, <2>4, <2>5, <2>6, SecondAppend, ZenonT(60)
    <2>8. LastSeen' = LastSeen
      BY <2>1 DEF LastSeen
    <2> QED  BY <2>1, <2>7, <2>8 DEF ReadInv
  <1>9. CASE Retry
    BY <1>1, <1>9, RetryMeans DEF ReadInv
  <1>10. CASE InitReturns \/ GetReturns
    <2>1. Returned
      BY <1>10, ReturnsMean
    <2>2. rtc'.pc = "idle"
      BY <2>1 DEF Returned, NoCall
    <2> QED  BY <2>2 DEF ReadInv
  <1>11. CASE UNCHANGED vars \/ TimerHandler
    BY <1>2, <1>11 DEF vars, TimerHandler
  <1> QED  BY <1>3, <1>4, <1>5, <1>6, <1>7, <1>8, <1>9, <1>10, <1>11 DEF Next

\* What a call that succeeds returns: the date of an instant that lies in it.
LEMMA ReturnedDate ==
  ASSUME TypeInv, TimeInv, ReadInv, rtc.pc = "compare", rtc.first = rtc.second
  PROVE  \E t \in Instants : /\ t \in rtc.from .. rtc.from + Overtaken
                             /\ Date(chip.mode, rtc.second) = DateTime(t)
  <1>1. /\ chip.t \in Nat /\ chip.mode \in Modes /\ rtc.second \in Seq(Int) /\ Len(rtc.second) = 6
        /\ rtc.from \in Nat /\ chip.uip \in BOOLEAN /\ Overtaken \in Int
    BY OvertakenIsInt DEF TypeInv, ChipState, CallState, Progress, At
  <1>2. ~At("idle")
    BY DEF At
  <1>3. /\ rtc.from \in Instants /\ LastSeen \in Instants /\ LastSeen < rtc.from + 60
        /\ chip.t <= LastSeen
    BY <1>2, TimesAre
  <1>4. BothReadings(chip.mode, rtc.second, rtc.second, rtc.from, chip.t, LastSeen)
    BY DEF ReadInv
  <1>5. PICK t \in Instants : rtc.from <= t /\ t <= chip.t /\ Date(chip.mode, rtc.second) = DateTime(t)
    BY <1>1, <1>3, <1>4, EqualReadings
  <1>6. t \in rtc.from .. rtc.from + Overtaken
    <2>1. rtc.from + Overtaken = LastSeen /\ t \in Nat
      BY <1>1, SMT DEF LastSeen, Overtaken, Instants
    <2>2. t <= rtc.from + Overtaken
      BY <1>1, <1>3, <1>5, <2>1, TimesAre, SMT
    <2> QED  BY <1>1, <1>5, <2>1, <2>2, SMT
  <1> QED  BY <1>5, <1>6

\* A return hands over the date of such an instant.
LEMMA InstantStep ==
  ASSUME TypeInv, TimeInv, ReadInv, ReadIsAnInstant, [Next]_vars
  PROVE  ReadIsAnInstant'
  <1>1. CASE UNCHANGED result
    BY <1>1 DEF ReadIsAnInstant
  <1>2. CASE InitReturns \/ GetReturns
    <2>1. Returned
      BY <1>2, ReturnsMean
    <2>2. CASE result'.ok = FALSE
      BY <2>2 DEF ReadIsAnInstant
    <2>3. CASE rtc.first = rtc.second /\ result'.date = Date(chip.mode, rtc.second)
      <3>1. PICK t \in Instants : /\ t \in rtc.from .. rtc.from + Overtaken
                                  /\ Date(chip.mode, rtc.second) = DateTime(t)
        BY <2>1, <2>3, ReturnedDate DEF Returned
      <3>2. rtc.from \in Nat /\ Overtaken \in Int /\ t \in Nat
        BY OvertakenIsInt, SMT DEF TypeInv, CallState, Instants
      <3>3. t - rtc.from \in 0 .. Overtaken /\ rtc.from + (t - rtc.from) = t
        BY <3>1, <3>2, SMT
      <3>4. /\ result'.from = rtc.from /\ result'.overtaken = Overtaken
            /\ result'.date = DateTime(t)
        BY <2>1, <2>3, <3>1 DEF Returned
      <3>5. \E n \in 0 .. result'.overtaken : result'.date = DateTime(result'.from + n)
        BY <3>3, <3>4
      <3> QED  BY <3>5 DEF ReadIsAnInstant
    <2> QED  BY <2>1, <2>2, <2>3 DEF Returned
  <1> QED  BY <1>1, <1>2, Zenon DEF Next, vars, UpdateBegins, UpdateEnds, Begin, Waited, ReadFirst,
             ReadSecond, Retry, TimerHandler


-----------------------------------------------------------------------------
(* The clock the timer interrupt drives.                                   *)

Sixty == {n \in Nat : n <= 59}

ClockState ==
  [on : BOOLEAN, epoch : Nat, bootTicks : Nat, ticks : Nat, hour : 0 .. 23, min : Sixty, sec : Sixty]

\* Instants of one time of day have the same InDay.
InDay(t) == t % 86400

Daytime(h, m, s) == h * 3600 + m * 60 + s
SecondOfDay(c) == Daytime(c.hour, c.min, c.sec)

\* The instant the clock has counted to.
Counted(c) == c.epoch + (c.ticks \div TickRate)

\* The clock stands at zero until time_init_from_rtc sets it, once.
ClockInv ==
  /\ clock \in ClockState /\ clock.bootTicks = 0
  /\ rtc.for = "init" => ~clock.on
  /\ ~clock.on => clock.ticks = 0 /\ clock.epoch = 0 /\ SecondOfDay(clock) = 0
  /\ clock.on => SecondOfDay(clock) = InDay(Counted(clock))

\* d is the clock c with another time of day.
TimeSet(c, d, h, m, s) ==
  /\ d \in ClockState /\ d.hour = h /\ d.min = m /\ d.sec = s
  /\ d.on = c.on /\ d.epoch = c.epoch /\ d.bootTicks = c.bootTicks /\ d.ticks = c.ticks

LEMMA SetTime ==
  ASSUME NEW c \in ClockState, NEW h \in 0 .. 23, NEW m \in Sixty, NEW s \in Sixty, NEW d,
         d = [c EXCEPT !.sec = s, !.min = m, !.hour = h]
  PROVE  TimeSet(c, d, h, m, s)
  BY DEF ClockState, TimeSet

\* Within a day the count goes on by one.
LEMMA SameDay ==
  ASSUME NEW x \in Nat, x < 86399
  PROVE  InDay(x + 1) = x + 1
  BY SMT DEF InDay

LEMMA NextDaytime ==
  ASSUME NEW h \in Nat, h <= 23, NEW m \in Nat, m <= 59, NEW s \in Nat, s <= 59
  PROVE  InDay(Daytime(h, m, s) + 1) =
           IF s < 59 THEN Daytime(h, m, s + 1)
           ELSE IF m < 59 THEN Daytime(h, m + 1, 0)
           ELSE IF h < 23 THEN Daytime(h + 1, 0, 0) ELSE Daytime(0, 0, 0)
  <1>1. CASE h = 23 /\ m = 59 /\ s = 59
    BY <1>1, SMT DEF Daytime, InDay
  <1>2. CASE ~(h = 23 /\ m = 59 /\ s = 59)
    <2>1. PICK x \in Nat : x = Daytime(h, m, s) /\ x < 86399
      <3>1. h * 3600 + m * 60 + s < 86399
        BY <1>2, SMT
      <3> QED  BY <3>1, SMT DEF Daytime
    <2>2. InDay(x + 1) = x + 1
      BY <2>1, SameDay, SMT
    <2>3. CASE s < 59
      BY <2>1, <2>2, <2>3, SMT DEF Daytime
    <2>4. CASE s = 59 /\ m < 59
      BY <2>1, <2>2, <2>4, SMT DEF Daytime
    <2>5. CASE s = 59 /\ m = 59
      BY <1>2, <2>1, <2>2, <2>5, SMT DEF Daytime
    <2> QED  BY <2>3, <2>4, <2>5, SMT
  <1> QED  BY <1>1, <1>2

\* A second more, the minute, the hour and the day carried.
LEMMA NextSecondIs ==
  ASSUME NEW c \in ClockState
  PROVE  \E h, m, s : /\ TimeSet(c, NextSecond(c), h, m, s)
                     /\ Daytime(h, m, s) = InDay(SecondOfDay(c) + 1)
  <1>1. PICK h \in Nat, m \in Nat, s \in Nat :
          h = c.hour /\ m = c.min /\ s = c.sec /\ h <= 23 /\ m <= 59 /\ s <= 59
    BY DEF ClockState, Sixty
  <1>2. /\ h \in 0 .. 23 /\ m \in Sixty /\ s \in Sixty /\ 0 \in Sixty
        /\ SecondOfDay(c) = Daytime(h, m, s)
    BY <1>1, SMT DEF Sixty, SecondOfDay
  <1>3. CASE s < 59
    <2>1. s + 1 \in Sixty
      BY <1>3, SMT DEF Sixty
    <2>2. NextSecond(c) = [c EXCEPT !.sec = s + 1, !.min = m, !.hour = h]
      <3>1. NextSecond(c) = [c EXCEPT !.sec = s + 1]
        BY <1>1, <1>3, SMTT(30) DEF NextSecond
      <3> QED  BY <1>1, <3>1 DEF ClockState
    <2>3. TimeSet(c, NextSecond(c), h, m, s + 1)
      BY <1>2, <2>1, <2>2, SetTime, Zenon
    <2> QED  BY <1>1, <1>2, <1>3, <2>3, NextDaytime, SMTT(30)
  <1>4. CASE ~(s < 59) /\ m < 59
    <2>1. m + 1 \in Sixty
      BY <1>4, SMT DEF Sixty
    <2>2. NextSecond(c) = [c EXCEPT !.sec = 0, !.min = m + 1, !.hour = h]
      <3>1. NextSecond(c) = [c EXCEPT !.sec = 0, !.min = m + 1]
        BY <1>1, <1>4, SMTT(30) DEF NextSecond
      <3> QED  BY <1>1, <3>1 DEF ClockState
    <2>3. TimeSet(c, NextSecond(c), h, m + 1, 0)
      BY <1>2, <2>1, <2>2, SetTime, Zenon
    <2> QED  BY <1>1, <1>2, <1>4, <2>3, NextDaytime, SMTT(30)
  <1>5. CASE ~(s < 59) /\ ~(m < 59)
    <2>1. PICK next \in 0 .. 23 : /\ next = IF h + 1 >= 24 THEN 0 ELSE h + 1
                                  /\ next = IF h < 23 THEN h + 1 ELSE 0
      BY <1>1, SMT
    <2>2. NextSecond(c) = [c EXCEPT !.sec = 0, !.min = 0, !.hour = next]
      BY <1>1, <1>5, <2>1, SMTT(30) DEF NextSecond
    <2>3. TimeSet(c, NextSecond(c), next, 0, 0)
      BY <1>2, <2>1, <2>2, SetTime, Zenon
    <2>4. Daytime(next, 0, 0) = InDay(Daytime(h, m, s) + 1)
      <3>1. InDay(Daytime(h, m, s) + 1) = IF h < 23 THEN Daytime(h + 1, 0, 0) ELSE Daytime(0, 0, 0)
        BY <1>1, <1>5, NextDaytime, ZenonT(60)
      <3>2. CASE h < 23
        BY <2>1, <3>1, <3>2, Zenon
      <3>3. CASE ~(h < 23)
        BY <2>1, <3>1, <3>3, Zenon
      <3> QED  BY <3>2, <3>3
    <2> QED  BY <1>2, <2>3, <2>4
  <1> QED  BY <1>3, <1>4, <1>5

\* A tick completes a second when the count is a multiple of the rate.
LEMMA TickCounts ==
  ASSUME NEW t \in Nat, NEW r \in Nat, r > 0
  PROVE  IF (t + 1) % r = 0 THEN (t + 1) \div r = (t \div r) + 1 ELSE (t + 1) \div r = t \div r
  <1>1. PICK q \in Nat, k \in Nat : t = r * q + k /\ k < r /\ t \div r = q
    BY Divide, SMT
  <1>2. CASE k + 1 = r
    <2>1. t + 1 = r * (q + 1) + 0
      BY <1>1, <1>2, SMT
    <2>2. (r * (q + 1) + 0) % r = 0 /\ (r * (q + 1) + 0) \div r = q + 1
      BY DivMod, SMT
    <2> QED  BY <1>1, <2>1, <2>2
  <1>3. CASE k + 1 < r
    <2>1. t + 1 = r * q + (k + 1)
      BY <1>1, SMT
    <2>2. (r * q + (k + 1)) % r = k + 1 /\ (r * q + (k + 1)) \div r = q
      BY <1>3, DivMod, SMT
    <2>3. k + 1 # 0
      BY SMT
    <2> QED  BY <1>1, <2>1, <2>2, <2>3
  <1> QED  BY <1>1, <1>2, <1>3, SMT

LEMMA NextOfDay ==
  ASSUME NEW e \in Nat
  PROVE  InDay(InDay(e) + 1) = InDay(e + 1)
  BY SMT DEF InDay

LEMMA ClockInit == ASSUME Init PROVE ClockInv
  <1>1. clock = [on |-> FALSE, epoch |-> 0, bootTicks |-> 0, ticks |-> 0, hour |-> 0, min |-> 0, sec |-> 0]
    BY DEF Init
  <1>2. 0 \in Sixty /\ 0 \in 0 .. 23
    BY SMT DEF Sixty
  <1>3. clock \in ClockState
    BY <1>1, <1>2, SMT DEF ClockState
  <1>4. SecondOfDay(clock) = 0
    BY <1>1, SMT DEF SecondOfDay, Daytime
  <1> QED  BY <1>1, <1>3, <1>4 DEF ClockInv

\* The time of day of a date, in seconds.
LEMMA TimeOfDay ==
  ASSUME NEW t \in Nat
  PROVE  Daytime(DateTime(t).hour, DateTime(t).min, DateTime(t).sec) = InDay(t)
  <1>1. PICK n \in Nat, k \in Nat : t = 86400 * n + k /\ k < 86400 /\ t % 86400 = k
    BY Divide, SMT
  <1>2. t % 3600 = k % 3600 /\ t % 60 = k % 60
    <2>1. t % 3600 = k % 3600
      BY <1>1, SMT
    <2>2. t % 60 = k % 60
      BY <1>1, SMT
    <2> QED  BY <2>1, <2>2
  <1>3. (k \div 3600) * 3600 + ((k % 3600) \div 60) * 60 + (k % 60) = k
    BY <1>1, SMT
  <1>4. /\ DateTime(t).hour = k \div 3600 /\ DateTime(t).min = (k % 3600) \div 60
        /\ DateTime(t).sec = k % 60
    BY <1>1, <1>2, SMT DEF DateTime
  <1> QED  BY <1>1, <1>3, <1>4, SMT DEF Daytime, InDay

\* timer_handler keeps the time of day that of the epoch and the ticks.
LEMMA TickStep ==
  ASSUME ClockInv, TimerHandler
  PROVE  ClockInv'
  <1>1. clock.on /\ clock \in ClockState /\ clock.bootTicks = 0 /\ UNCHANGED rtc
    BY DEF ClockInv, TimerHandler
  <1>2. PICK t \in Nat, r \in Nat, e \in Nat :
          t = clock.ticks /\ r = TickRate /\ r > 0 /\ e = clock.epoch
    BY <1>1, ClockAssumption DEF ClockState
  <1>3. PICK c : c = [clock EXCEPT !.ticks = t + 1]
    BY Zenon
  <1>4. /\ c \in ClockState /\ c.on /\ c.bootTicks = 0 /\ c.epoch = e /\ c.ticks = t + 1
        /\ c.hour = clock.hour /\ c.min = clock.min /\ c.sec = clock.sec
    BY <1>1, <1>2, <1>3 DEF ClockState
  <1>5. SecondOfDay(c) = InDay(e + (t \div r))
    BY <1>1, <1>2, <1>4, Zenon DEF ClockInv, Counted, SecondOfDay
  <1>6. clock' = IF (t + 1) % r = 0 THEN NextSecond(c) ELSE c
    BY <1>2, <1>3, <1>4, Zenon DEF TimerHandler
  <1>7. t \div r \in Nat
    BY <1>2, SMT
  <1>8. CASE (t + 1) % r = 0
    <2>1. PICK h, m, s : /\ TimeSet(c, clock', h, m, s)
                         /\ Daytime(h, m, s) = InDay(SecondOfDay(c) + 1)
      BY <1>4, <1>6, <1>8, NextSecondIs, Zenon
    <2>2. /\ clock' \in ClockState /\ clock'.on /\ clock'.bootTicks = 0 /\ clock'.epoch = e
          /\ clock'.ticks = t + 1 /\ SecondOfDay(clock') = Daytime(h, m, s)
      BY <1>4, <2>1, Zenon DEF TimeSet, SecondOfDay
    <2>3. (t + 1) \div r = (t \div r) + 1
      BY <1>2, <1>8, TickCounts
    <2>4. Daytime(h, m, s) = InDay(e + (t \div r) + 1)
      <3>1. InDay(InDay(e + (t \div r)) + 1) = InDay(e + (t \div r) + 1)
        <4>1. PICK x \in Nat : x = e + (t \div r)
          BY <1>7, SMT
        <4> QED  BY <4>1, NextOfDay, Zenon
      <3> QED  BY <1>5, <2>1, <3>1, Zenon
    <2>5. e + (t \div r) + 1 = e + ((t \div r) + 1)
      BY <1>7, SMT
    <2>6. SecondOfDay(clock') = InDay(Counted(clock'))
      BY <1>2, <2>2, <2>3, <2>4, <2>5, Zenon DEF Counted
    <2> QED  BY <1>1, <2>2, <2>6, Zenon DEF ClockInv
  <1>9. CASE (t + 1) % r # 0
    <2>1. clock' = c /\ (t + 1) \div r = t \div r
      BY <1>2, <1>6, <1>9, TickCounts
    <2>2. SecondOfDay(clock') = InDay(Counted(clock'))
      BY <1>2, <1>4, <1>5, <2>1, Zenon DEF Counted
    <2> QED  BY <1>1, <1>4, <2>1, <2>2, Zenon DEF ClockInv
  <1> QED  BY <1>8, <1>9

\* time_init_from_rtc sets the time of day of the instant it read.
LEMMA InitStep ==
  ASSUME TypeInv, TimeInv, ReadInv, ClockInv, InitReturns
  PROVE  ClockInv' /\ BootEpochIsTrue'
  <1>1. /\ clock \in ClockState /\ clock.ticks = 0 /\ clock.epoch = 0 /\ SecondOfDay(clock) = 0
        /\ clock.bootTicks = 0
    BY DEF InitReturns, ClockInv
  <1>2. Returned /\ rtc'.for = "none"
    <2>1. Returned
      BY ReturnsMean
    <2> QED  BY <2>1 DEF Returned, NoCall
  <1>3. 0 \div TickRate = 0
    BY ClockAssumption, SMT
  <1>4. CASE Same(rtc.first, rtc.second) /\ Return(TRUE)
    <2>1. PICK t \in Instants : /\ t \in rtc.from .. rtc.from + Overtaken
                                /\ Date(chip.mode, rtc.second) = DateTime(t)
      BY <1>2, <1>4, ReturnedDate DEF Returned, Same
    <2>2. PICK d : d = DateTime(t)
      BY Zenon
    <2>3. clock' = [clock EXCEPT !.on = TRUE, !.epoch = Epoch(d), !.bootTicks = clock.ticks,
                                 !.hour = d.hour, !.min = d.min, !.sec = d.sec]
      BY <1>2, <1>4, <2>1, <2>2 DEF InitReturns, Same, Return, Returned
    <2>4. Epoch(d) = t /\ t \in Nat
      BY <2>2, EpochIsInstant, SMT DEF Instants
    <2>5. d.hour \in 0 .. 23 /\ d.min \in Sixty /\ d.sec \in Sixty
      <3>1. InRange(d)
        BY <2>2, DateRange, SMT
      <3> QED  BY <3>1, SMT DEF InRange, Sixty
    <2>6. /\ clock' \in ClockState /\ clock'.on /\ clock'.bootTicks = 0 /\ clock'.epoch = t
          /\ clock'.ticks = 0 /\ clock'.hour = d.hour /\ clock'.min = d.min /\ clock'.sec = d.sec
      BY <1>1, <2>3, <2>4, <2>5 DEF ClockState
    <2>7. Daytime(d.hour, d.min, d.sec) = InDay(t)
      BY <2>2, <2>4, TimeOfDay, Zenon
    <2>8. Counted(clock') = t
      BY <1>3, <2>4, <2>6 DEF Counted
    <2>9. ClockInv'
      BY <1>2, <2>6, <2>7, <2>8, Zenon DEF ClockInv, SecondOfDay
    <2>10. result'.from = rtc.from /\ result'.overtaken = Overtaken
      BY <1>2 DEF Returned
    <2> QED  BY <2>1, <2>6, <2>9, <2>10 DEF BootEpochIsTrue
  <1>5. CASE ~Same(rtc.first, rtc.second) /\ Return(FALSE)
    <2>1. clock' = [clock EXCEPT !.on = TRUE, !.bootTicks = clock.ticks]
      BY <1>2, <1>5 DEF InitReturns, Same, Return, Returned
    <2>2. /\ clock' \in ClockState /\ clock'.on /\ clock'.bootTicks = 0 /\ clock'.epoch = 0
          /\ clock'.ticks = 0 /\ SecondOfDay(clock') = 0
      BY <1>1, <2>1 DEF ClockState, SecondOfDay
    <2>3. Counted(clock') = 0
      BY <1>3, <2>2, SMT DEF Counted
    <2>4. InDay(0) = 0
      BY SMT DEF InDay
    <2>5. ClockInv'
      BY <1>2, <2>2, <2>3, <2>4, Zenon DEF ClockInv
    <2> QED  BY <1>5, <2>5 DEF BootEpochIsTrue, Return
  <1> QED  BY <1>4, <1>5 DEF InitReturns

LEMMA ClockStep ==
  ASSUME TypeInv, TimeInv, ReadInv, ClockInv, [Next]_vars
  PROVE  ClockInv'
  <1>1. CASE InitReturns
    BY <1>1, InitStep
  <1>2. CASE TimerHandler
    BY <1>2, TickStep
  <1>3. CASE UNCHANGED clock /\ (rtc'.for = rtc.for \/ rtc'.for \in {"none", "get"})
    BY <1>3 DEF ClockInv, SecondOfDay, Counted
  <1>4. rtc \in CallState
    BY DEF TypeInv
  <1>5. CASE UNCHANGED vars \/ UpdateBegins \/ UpdateEnds
    BY <1>3, <1>5 DEF vars, UpdateBegins, UpdateEnds
  <1>6. CASE Begin("get")
    BY <1>3, <1>6 DEF Begin, NoCall
  <1>7. CASE Waited("wait1", "read1") \/ Waited("wait2", "read2")
    BY <1>3, <1>4, <1>7 DEF Waited, CallState
  <1>8. CASE ReadFirst \/ ReadSecond
    BY <1>3, <1>4, <1>8, Zenon DEF ReadFirst, ReadSecond, CallState
  <1>9. CASE Retry
    BY <1>3, <1>4, <1>9 DEF Retry, CallState
  <1>10. CASE GetReturns
    BY <1>3, <1>10 DEF GetReturns, Return, NoCall
  <1> QED  BY <1>1, <1>2, <1>5, <1>6, <1>7, <1>8, <1>9, <1>10 DEF Next

\* Only time_init_from_rtc sets the epoch.
LEMMA BootStep ==
  ASSUME TypeInv, TimeInv, ReadInv, ClockInv, BootEpochIsTrue, [Next]_vars
  PROVE  BootEpochIsTrue'
  <1>1. CASE InitReturns
    BY <1>1, InitStep
  <1>2. CASE TimerHandler
    <2>1. clock \in ClockState /\ UNCHANGED result
      BY <1>2 DEF ClockInv, TimerHandler
    <2>2. PICK c : c = [clock EXCEPT !.ticks = clock.ticks + 1]
      BY Zenon
    <2>3. c \in ClockState /\ c.epoch = clock.epoch
      BY <2>1, <2>2 DEF ClockState
    <2>4. clock' = NextSecond(c) \/ clock' = c
      BY <1>2, <2>2, Zenon DEF TimerHandler
    <2>5. UNCHANGED clock.epoch
      <3>1. NextSecond(c).epoch = c.epoch
        BY <2>3, NextSecondIs, Zenon DEF TimeSet
      <3> QED  BY <2>3, <2>4, <3>1
    <2> QED  BY <2>1, <2>5 DEF BootEpochIsTrue
  <1>3. CASE GetReturns
    <2>1. result'.for = "get"
      BY <1>3 DEF GetReturns, Return
    <2> QED  BY <2>1 DEF BootEpochIsTrue
  <1>4. CASE UNCHANGED <<clock, result>>
    BY <1>4 DEF BootEpochIsTrue
  <1> QED  BY <1>1, <1>2, <1>3, <1>4, Zenon DEF Next, vars, UpdateBegins, UpdateEnds, Begin, Waited,
             ReadFirst, ReadSecond, Retry

\* The time of day of an instant tells the instant of its day.
LEMMA DisplayedIs ==
  ASSUME NEW e \in Nat, NEW h \in 0 .. 23, NEW m \in Sixty, NEW s \in Sixty,
         Daytime(h, m, s) = InDay(e)
  PROVE  h = (e % 86400) \div 3600 /\ m = (e % 3600) \div 60 /\ s = e % 60
  <1>1. h \in Nat /\ h <= 23 /\ m \in Nat /\ m <= 59 /\ s \in Nat /\ s <= 59
    BY SMT DEF Sixty
  <1>2. PICK n \in Nat, k \in Nat : e = 86400 * n + k /\ k < 86400 /\ e % 86400 = k
    BY ONLY e \in Nat, Divide, SMT
  <1>3. k = h * 3600 + m * 60 + s
    BY <1>2, SMT DEF Daytime, InDay
  <1>4. k \div 3600 = h
    BY <1>1, <1>3, SMT
  <1>5. e % 3600 = m * 60 + s
    BY <1>1, <1>2, <1>3, SMT
  <1>6. (m * 60 + s) \div 60 = m
    BY <1>1, SMT
  <1>7. e % 60 = s
    BY <1>1, <1>2, <1>3, SMT
  <1> QED  BY <1>2, <1>4, <1>5, <1>6, <1>7, SMT

\* The time of day computed from the epoch is the one counted.
LEMMA Displays ==
  ASSUME ClockInv
  PROVE  DisplaysAgree
  <1>1. SUFFICES ASSUME clock.on
                 PROVE  <<clock.hour, clock.min, clock.sec>> = <<Now.hour, Now.min, Now.sec>>
    BY DEF DisplaysAgree
  <1>2. clock \in ClockState /\ clock.bootTicks = 0
    BY DEF ClockInv
  <1>3. clock.hour \in 0 .. 23 /\ clock.min \in Sixty /\ clock.sec \in Sixty
    BY <1>2 DEF ClockState
  <1>4. PICK e : e = Counted(clock)
    BY Zenon
  <1>5. e \in Nat
    <2>1. clock.epoch \in Nat /\ clock.ticks \in Nat /\ TickRate \in Nat \ {0}
      BY <1>2, ClockAssumption DEF ClockState
    <2> QED  BY <1>4, <2>1, SMT DEF Counted
  <1>6. Now = FromEpoch(e)
    <2>1. clock.ticks - clock.bootTicks = clock.ticks
      BY <1>2, SMT DEF ClockState
    <2> QED  BY <1>4, <2>1, Zenon DEF Now, Counted
  <1>7. Daytime(clock.hour, clock.min, clock.sec) = InDay(e)
    BY <1>1, <1>4, Zenon DEF ClockInv, SecondOfDay
  <1>8. /\ clock.hour = (e % 86400) \div 3600 /\ clock.min = (e % 3600) \div 60
        /\ clock.sec = e % 60
    BY <1>3, <1>5, <1>7, DisplayedIs, SMT
  <1>9. /\ Now.hour = (e % 86400) \div 3600 /\ Now.min = (e % 3600) \div 60 /\ Now.sec = e % 60
    BY <1>6, SMT DEF FromEpoch
  <1> QED  BY <1>8, <1>9, SMT

-----------------------------------------------------------------------------
(* The theorems.                                                           *)

IInv == TypeInv /\ TriesInv /\ TimeInv /\ ReadInv /\ ClockInv

\* The state of the chip, the call and the clock is always sound: the readings of a call
\* under way hold what the chip showed since it began, with the chip at rest once between
\* them, and the time of day is that of the epoch and the ticks (rtc.c, time.c).
THEOREM StateCorrect == Spec => []IInv
  <1>1. Init => IInv
    BY TypeInit, TriesInit, TimeInit, ReadInit, ClockInit DEF IInv
  <1>2. IInv /\ [Next]_vars => IInv'
    BY TypeStep, TriesStep, TimeStep, ReadStep, ClockStep DEF IInv
  <1> QED  BY <1>1, <1>2, PTL DEF Spec

\* rtc_read_datetime gives up only when the chip has gone on to a new second in every try,
\* for any number of tries.
THEOREM FailsCorrect == Spec => []FailsOnlyIfOvertaken
  <1>1. Init => FailsOnlyIfOvertaken
    BY DEF Init, Nothing, FailsOnlyIfOvertaken
  <1>2. IInv /\ FailsOnlyIfOvertaken /\ [Next]_vars => FailsOnlyIfOvertaken'
    BY FailsStep DEF IInv
  <1> QED  BY <1>1, <1>2, StateCorrect, PTL DEF Spec

\* A date rtc_read_datetime returns is one the chip showed during the call, in binary and in
\* BCD, with 12 and with 24 hours, for every instant from 2000 to 2037 and any updates
\* between two reads of a register.
THEOREM InstantCorrect == Spec => []ReadIsAnInstant
  <1>1. Init => ReadIsAnInstant
    BY DEF Init, Nothing, ReadIsAnInstant
  <1>2. IInv /\ ReadIsAnInstant /\ [Next]_vars => ReadIsAnInstant'
    BY InstantStep DEF IInv
  <1> QED  BY <1>1, <1>2, StateCorrect, PTL DEF Spec

\* g_boot_epoch is the instant the date read stands for: datetime_to_epoch counts the days
\* of every date from 2000 to 2037.
THEOREM BootEpochCorrect == Spec => []BootEpochIsTrue
  <1>1. Init => BootEpochIsTrue
    BY DEF Init, Nothing, BootEpochIsTrue
  <1>2. IInv /\ BootEpochIsTrue /\ [Next]_vars => BootEpochIsTrue'
    BY BootStep DEF IInv
  <1> QED  BY <1>1, <1>2, StateCorrect, PTL DEF Spec

\* The time of day timer_handler counts is the one time_now_datetime computes, after any
\* number of ticks at any rate.
THEOREM DisplaysCorrect == Spec => []DisplaysAgree
  <1>1. IInv => DisplaysAgree
    BY Displays DEF IInv
  <1> QED  BY <1>1, StateCorrect, PTL
=============================================================================
