------------------------ MODULE DataComponentsProofs -------------------------
(***************************************************************************)
(* Proofs about the components of DataComponents: the records of Logger,   *)
(* the days of Calendar and the local times of TimeZone, for any threads,  *)
(* messages, days, zone files and bounds.                                  *)
(***************************************************************************)
EXTENDS DataComponents, WellFoundedInduction, TLAPS

-----------------------------------------------------------------------------
(* Induction, for the recursive definitions. *)

(* A set of natural numbers that is not empty has a least element. *)
LEMMA LeastNatural ==
  ASSUME NEW T \in SUBSET Nat, T # {}
  PROVE  \E m \in T : \A k \in T : m <= k
<1> DEFINE R == OpToRel(<, Nat)
<1>1. IsWellFoundedOn(R, Nat)
  BY NatLessThanWellFounded, Zenon
<1>2. \A i, j \in Nat : i < j => <<i, j>> \in R
  BY DEF OpToRel
<1> HIDE DEF R
<1>3. PICK m \in T : \A k \in T : ~(<<k, m>> \in R)
  BY <1>1, WFMin, Zenon
<1>4. ASSUME NEW k \in T PROVE m <= k
  <2>1. ~(k < m)
    BY <1>2, <1>3, Zenon
  <2> QED
    BY <2>1
<1> QED
  BY <1>4

(* Induction: a set that has 0, and n + 1 with n, has every natural number. *)
LEMMA InductionOnNat ==
  ASSUME NEW T, 0 \in T, \A n \in Nat : n \in T => n + 1 \in T
  PROVE  Nat \subseteq T
<1> SUFFICES ASSUME Nat \ T # {} PROVE FALSE
  OBVIOUS
<1>1. PICK m \in Nat \ T : \A k \in Nat \ T : m <= k
  BY LeastNatural, Zenon
<1>2. m # 0 /\ m - 1 \in Nat
  BY <1>1
<1>3. m - 1 \in T
  BY <1>1, <1>2
<1> QED
  BY <1>1, <1>2, <1>3

-----------------------------------------------------------------------------
(* Logger.  A record fits after each insertion, and the time it begins with  *)
(* is the one its Logger was made at.                                        *)

(* f holds the buffer after each insertion of the message m: the recursion   *)
(* of Insert.                                                                *)
Inserts(f, b, m, n) ==
  f = [k \in 0 .. n |-> IF k = 0 THEN b
                        ELSE IF m[k][1] = "number" THEN L!FormatInteger(f[k - 1], m[k][2])
                        ELSE L!AppendText(f[k - 1], m[k][2])]

(* There is such a function for a message of any length. *)
LEMMA InsertsExists ==
  ASSUME NEW b, NEW m
  PROVE  \A n \in Nat : \E f : Inserts(f, b, m, n)
<1> DEFINE T == {n \in Nat : \E f : Inserts(f, b, m, n)}
<1>1. 0 \in T
  <2> DEFINE f == [k \in 0 .. 0 |-> b]
  <2>1. Inserts(f, b, m, 0)
    BY DEF Inserts
  <2> QED
    BY <2>1
<1>2. ASSUME NEW n \in Nat, n \in T PROVE n + 1 \in T
  <2>1. PICK f : Inserts(f, b, m, n)
    BY <1>2
  <2> DEFINE v == IF m[n + 1][1] = "number" THEN L!FormatInteger(f[n], m[n + 1][2])
                  ELSE L!AppendText(f[n], m[n + 1][2])
             g == [k \in 0 .. n + 1 |-> IF k = n + 1 THEN v ELSE f[k]]
  <2>2. \A k \in 0 .. n : f[k] = IF k = 0 THEN b
                        ELSE IF m[k][1] = "number" THEN L!FormatInteger(f[k - 1], m[k][2])
                        ELSE L!AppendText(f[k - 1], m[k][2])
    BY <2>1, Zenon DEF Inserts
  <2>3. \A k \in 0 .. n : k # n + 1 /\ k \in 0 .. n + 1 /\
      (k # 0 => k - 1 \in 0 .. n + 1 /\ k - 1 # n + 1)
    OBVIOUS
  <2>4. n + 1 # 0 /\ n + 1 - 1 = n /\ n \in 0 .. n + 1 /\ n # n + 1 /\ n + 1 \in 0 .. n + 1
    OBVIOUS
  <2>5. \A k \in 0 .. n + 1 : k = n + 1 \/ k \in 0 .. n
    OBVIOUS
  <2> HIDE DEF v
  <2>6. ASSUME NEW k \in 0 .. n + 1
        PROVE  g[k] = IF k = 0 THEN b
                        ELSE IF m[k][1] = "number" THEN L!FormatInteger(g[k - 1], m[k][2])
                        ELSE L!AppendText(g[k - 1], m[k][2])
    <3>1. CASE k = n + 1
      <4>1. g[k] = v /\ g[k - 1] = f[n]
        BY <3>1, <2>4
      <4> QED
        BY <3>1, <4>1, <2>4 DEF v
    <3>2. CASE k \in 0 .. n
      <4>1. g[k] = f[k] /\ (k # 0 => g[k - 1] = f[k - 1])
        BY <3>2, <2>3
      <4> QED
        BY <3>2, <4>1, <2>2, Zenon
    <3> QED
      BY <3>1, <3>2, <2>5
  <2>7. Inserts(g, b, m, n + 1)
    <3> HIDE DEF g
    <3>1. g = [k \in 0 .. n + 1 |-> g[k]]
      BY Zenon DEF g
    <3> QED
      BY <2>6, <3>1, Zenon DEF Inserts
  <2> QED
    BY <2>7
<1> HIDE DEF T
<1>3. Nat \subseteq T
  BY <1>1, <1>2, InductionOnNat
<1> QED
  BY <1>3 DEF T

(* Insert gives the last of these buffers. *)
LEMMA InsertIs ==
  ASSUME NEW b, NEW m, Len(m) \in Nat
  PROVE  \E f : Inserts(f, b, m, Len(m)) /\ L!Insert(b, m) = f[Len(m)]
<1> DEFINE g == CHOOSE f : Inserts(f, b, m, Len(m))
<1>1. Inserts(g, b, m, Len(m))
  BY InsertsExists
<1>2. L!Insert(b, m) = g[Len(m)]
  BY DEF L!Insert, Inserts
<1> QED
  BY <1>1, <1>2, Zenon

(* A buffer whose record fits, and that begins with the time w. *)
Fits(b, w) == b = [first |-> w, length |-> b.length] /\ b.length \in 0 .. kSmallBuffer - 1

(* What goes where there is room leaves a buffer that fits. *)
LEMMA AddFits ==
  ASSUME NEW b, NEW w, Fits(b, w), NEW len \in Nat, b.length + len < kSmallBuffer
  PROVE  Fits(L!Add(b, len), w)
<1>1. b = [first |-> w, length |-> b.length] /\ b.length \in 0 .. kSmallBuffer - 1
  BY DEF Fits
<1> DEFINE n == b.length
<1>2. n + len \in 0 .. kSmallBuffer - 1
  BY <1>1, LoggerAssumption
<1>3. L!Add(b, len) = [first |-> w, length |-> n + len]
  <2>1. L!Add(b, len) = [b EXCEPT !.length = n + len]
    BY DEF L!Add
  <2> HIDE DEF n
  <2> QED
    BY <1>1, <2>1
<1> HIDE DEF n
<1>4. L!Add(b, len).length = n + len
  BY <1>3
<1> QED
  BY <1>2, <1>3, <1>4 DEF Fits

(* FixedBuffer::append (LogStream.h:44-52) keeps a record within its buffer. *)
LEMMA TextFits ==
  ASSUME NEW b, NEW w, Fits(b, w), NEW len \in Nat
  PROVE  Fits(L!AppendText(b, len), w)
<1>1. b.length \in 0 .. kSmallBuffer - 1 /\ kSmallBuffer \in Nat
  BY LoggerAssumption DEF Fits
<1>2. kSmallBuffer - b.length > len => b.length + len < kSmallBuffer
  BY <1>1
<1> QED
  BY <1>2, AddFits DEF L!AppendText, L!Avail

(* formatInteger (LogStream.cc:129-138) does, since no number is longer than *)
(* the room it looks for.                                                    *)
LEMMA NumberFits ==
  ASSUME NEW b, NEW w, Fits(b, w), NEW len \in Nat, len < kMaxNumericSize
  PROVE  Fits(L!FormatInteger(b, len), w)
<1>1. b.length \in 0 .. kSmallBuffer - 1 /\ kSmallBuffer \in Nat /\ kMaxNumericSize \in Nat
  BY LoggerAssumption DEF Fits
<1>2. kSmallBuffer - b.length >= kMaxNumericSize => b.length + len < kSmallBuffer
  BY <1>1
<1> QED
  BY <1>2, AddFits DEF L!FormatInteger, L!Avail

(* So does a message, whatever texts and numbers it inserts. *)
LEMMA InsertFits ==
  ASSUME NEW b, NEW w, Fits(b, w), NEW m \in Messages
  PROVE  Fits(L!Insert(b, m), w)
<1>1. m \in Seq({"text", "number"} \X Nat) /\ Len(m) \in Nat
      /\ \A k \in 1 .. Len(m) : m[k][2] \in Nat /\ (m[k][1] = "number" => m[k][2] < kMaxNumericSize)
  BY LoggerAssumption
<1>2. PICK f : Inserts(f, b, m, Len(m)) /\ L!Insert(b, m) = f[Len(m)]
  BY <1>1, InsertIs
<1> DEFINE T == {n \in Nat : n <= Len(m) => Fits(f[n], w)}
<1>3. \A k \in 0 .. Len(m) : f[k] = IF k = 0 THEN b
                        ELSE IF m[k][1] = "number" THEN L!FormatInteger(f[k - 1], m[k][2])
                        ELSE L!AppendText(f[k - 1], m[k][2])
  BY <1>2, Zenon DEF Inserts
<1>4. 0 \in T
  BY <1>3, <1>1
<1>5. ASSUME NEW n \in Nat, n \in T PROVE n + 1 \in T
  <2> SUFFICES ASSUME n + 1 <= Len(m) PROVE Fits(f[n + 1], w)
    OBVIOUS
  <2>1. /\ Fits(f[n], w) /\ n + 1 \in 1 .. Len(m) /\ n + 1 \in 0 .. Len(m) /\ n + 1 - 1 = n
        /\ n + 1 # 0
    BY <1>5, <1>1
  <2>2. f[n + 1] = IF m[n + 1][1] = "number" THEN L!FormatInteger(f[n], m[n + 1][2])
                   ELSE L!AppendText(f[n], m[n + 1][2])
    BY <2>1, <1>3
  <2> QED
    BY <2>1, <2>2, <1>1, TextFits, NumberFits, Zenon
<1> HIDE DEF T
<1>6. Nat \subseteq T
  BY <1>4, <1>5, InductionOnNat
<1> QED
  BY <1>6, <1>1, <1>2 DEF T

(* What comes with every statement fits. *)
LEMMA FinishFits ==
  ASSUME NEW b, NEW w, Fits(b, w)
  PROVE  Fits(L!Finish(b), w)
<1>1. 1 < kMaxNumericSize
  BY LoggerAssumption
<1> QED
  BY <1>1, TextFits, NumberFits DEF L!Finish

(* The inductive invariant: a cached time is that of its second; the record  *)
(* a thread writes fits and begins with the time its Logger was made; a      *)
(* thread that flushed and is about to abort has no record in stdout.        *)
LoggerInv ==
  /\ second \in Nat
  /\ t_lastSecond \in [LogThreads -> Nat \cup {NoSecond}]
  /\ DOMAIN t_time = LogThreads /\ DOMAIN stream_ = LogThreads
  /\ at \in [LogThreads -> {"between", "streaming", "flush", "abort"}]
  /\ DOMAIN made = LogThreads
  /\ held \in Seq(LogThreads)
  /\ \A t \in LogThreads :
       t_lastSecond[t] # NoSecond => t_time[t] = <<t_lastSecond[t], g_logTimeZone>>
  /\ \A t \in LogThreads : Fits(stream_[t], made[t])
  /\ \A k \in DOMAIN last : Fits(last[k].buf, last[k].made)
  /\ aborted \subseteq LogThreads
  /\ \A t \in aborted : at[t] = "abort"
  /\ \A t \in LogThreads : at[t] = "abort" => \A k \in DOMAIN held : held[k] # t

(* A record begins with the time alone. *)
LEMMA TimeFits ==
  ASSUME NEW w
  PROVE  Fits([L!EmptyBuffer EXCEPT !.first = w], w)
BY LoggerAssumption DEF Fits, L!EmptyBuffer

(* A buffer that is empty fits. *)
LEMMA EmptyFits == Fits(L!EmptyBuffer, L!EmptyBuffer.first)
BY LoggerAssumption DEF Fits, L!EmptyBuffer

(* The invariant holds in the initial states. *)
LEMMA LoggerInit == L!Init => LoggerInv
<1> SUFFICES ASSUME L!Init PROVE LoggerInv
  OBVIOUS
<1>1. \A t \in LogThreads : Fits(stream_[t], made[t])
  BY EmptyFits, Zenon DEF L!Init, L!EmptyBuffer
<1> QED
  BY <1>1, LoggerAssumption DEF L!Init, LoggerInv

(* Every step keeps it: the clock ticks, the level or the zone is set, a     *)
(* thread begins, ends or flushes a statement, or stdout writes.             *)
LEMMA LoggerNext == LoggerInv /\ [L!Next]_L!vars => LoggerInv'
<1> SUFFICES ASSUME LoggerInv, [L!Next]_L!vars PROVE LoggerInv'
  OBVIOUS
<1>1. CASE L!Tick
  <2>1. second' \in Nat
    BY <1>1 DEF L!Tick, LoggerInv
  <2> QED
    BY <1>1, <2>1, Zenon DEF L!Tick, LoggerInv, Fits
<1>2. ASSUME NEW name, L!SetLogLevel(name) PROVE LoggerInv'
  BY <1>2, Zenon DEF L!SetLogLevel, LoggerInv, Fits
<1>3. ASSUME NEW tz, L!SetTimeZone(tz) PROVE LoggerInv'
  BY <1>3, Zenon DEF L!SetTimeZone, LoggerInv, Fits
<1>4. ASSUME NEW t \in LogThreads, NEW e \in BOOLEAN, NEW name, L!Construct(t, name, e)
    PROVE LoggerInv'
  <2> DEFINE w == t_time'[t]
  <2>1. /\ second # NoSecond /\ second \in Nat /\ DOMAIN t_time = LogThreads
        /\ DOMAIN made = LogThreads
        /\ t_lastSecond \in [LogThreads -> Nat \cup {NoSecond}]
    BY LoggerAssumption DEF LoggerInv
  <2>2. t_time'[t] = <<second, g_logTimeZone>> /\ t_lastSecond'[t] = second
    BY <1>4, <2>1 DEF L!Construct, L!FormatTime, LoggerInv
  <2>3. t_lastSecond' \in [LogThreads -> Nat \cup {NoSecond}] /\ DOMAIN t_time' = LogThreads
        /\ \A u \in LogThreads \ {t} : t_lastSecond'[u] = t_lastSecond[u] /\ t_time'[u] = t_time[u]
    BY <1>4, <2>1 DEF L!Construct, L!FormatTime
  <2>4. 1 < kMaxNumericSize
    BY LoggerAssumption
  <2>5. Fits(stream_'[t], w) /\ DOMAIN stream_' = LogThreads
        /\ \A u \in LogThreads \ {t} : stream_'[u] = stream_[u]
    <3> DEFINE stamp  ==
        L!AppendText(L!AppendText([L!EmptyBuffer EXCEPT !.first = t_time'[t]], 2), 1)
               named == L!AppendText(L!AppendText(stamp, 1), 1)
               error == L!AppendText(L!FormatInteger(L!AppendText(L!AppendText(named, 2), 1), 1), 1)
               head  == IF e THEN error ELSE named
               whole == IF name \in {"TRACE", "DEBUG"} THEN L!AppendText(L!AppendText(head, 2), 1)
                   ELSE head
    <3>1. stream_' = [stream_ EXCEPT ![t] = whole]
      BY <1>4, Zenon DEF L!Construct
    <3>2. Fits(stamp, w)
      BY TimeFits, TextFits
    <3> HIDE DEF stamp
    <3>3. Fits(named, w)
      BY <3>2, TextFits
    <3> HIDE DEF named
    <3>4. Fits(error, w)
      BY <3>3, <2>4, TextFits, NumberFits
    <3> HIDE DEF error
    <3>5. Fits(head, w)
      BY <3>3, <3>4
    <3> HIDE DEF head
    <3>6. Fits(whole, w)
      BY <3>5, TextFits
    <3> HIDE DEF whole
    <3> QED
      BY <3>1, <3>6 DEF LoggerInv
  <2>6. /\ at' = [at EXCEPT ![t] = "streaming"]
        /\ made' = [made EXCEPT ![t] = <<second, g_logTimeZone>>]
        /\ UNCHANGED <<last, held, aborted, g_logTimeZone, second>> /\ aborted = {}
    BY <1>4, Zenon DEF L!Construct, L!clockVars
  <2>7. \A u \in LogThreads : Fits(stream_[u], made[u])'
    BY <2>1, <2>2, <2>5, <2>6 DEF LoggerInv, Fits
  <2>8. \A u \in LogThreads : t_lastSecond'[u] # NoSecond =>
      t_time'[u] = <<t_lastSecond'[u], g_logTimeZone'>>
    BY <2>2, <2>3, <2>6 DEF LoggerInv
  <2> QED
    BY <2>1, <2>3, <2>5, <2>6, <2>7, <2>8 DEF LoggerInv, Fits
<1>5. ASSUME NEW t \in LogThreads, NEW m \in Messages, L!EndStatement(t, m) PROVE LoggerInv'
  <2>1. /\ last' = L!Record(t, m) /\ held' = Append(held, t)
        /\ stream_' = [stream_ EXCEPT ![t] = L!EmptyBuffer]
        /\ at' = [at EXCEPT ![t] = L!AfterOutput(t)]
        /\ made' = [made EXCEPT ![t] = L!EmptyBuffer.first]
        /\ UNCHANGED <<t_lastSecond, t_time, aborted, g_logTimeZone, second>> /\ aborted = {}
        /\ at[t] = "streaming"
    BY <1>5, Zenon DEF L!EndStatement, L!clockVars
  <2>2. Fits(L!Finish(L!Insert(stream_[t], m)), made[t])
    BY InsertFits, FinishFits DEF LoggerInv
  <2>3. \A k \in DOMAIN last' : Fits(last[k].buf, last[k].made)'
    BY <2>1, <2>2 DEF L!Record, Fits
  <2>4. \A u \in LogThreads : Fits(stream_[u], made[u])'
    BY <2>1, EmptyFits DEF LoggerInv, Fits
  <2>5. held' \in Seq(LogThreads)
        /\ \A u \in LogThreads : at'[u] = "abort" => \A k \in DOMAIN held' : held'[k] # u
    BY <2>1 DEF LoggerInv, L!AfterOutput
  <2>6. at' \in [LogThreads -> {"between", "streaming", "flush", "abort"}]
        /\ DOMAIN made' = LogThreads /\ DOMAIN stream_' = LogThreads
    BY <2>1 DEF LoggerInv, L!AfterOutput
  <2> QED
    BY <2>1, <2>3, <2>4, <2>5, <2>6 DEF LoggerInv
<1>6. ASSUME NEW t \in LogThreads, L!FlushAndAbort(t) PROVE LoggerInv'
  <2>1. UNCHANGED <<t_lastSecond, t_time, stream_, made, last, g_logTimeZone, second>>
    BY <1>6, Zenon DEF L!FlushAndAbort, L!clockVars
  <2>2. /\ at' \in [LogThreads -> {"between", "streaming", "flush", "abort"}]
        /\ held' \in Seq(LogThreads) /\ aborted' \subseteq LogThreads
        /\ \A u \in aborted' : at'[u] = "abort"
        /\ \A u \in LogThreads : at'[u] = "abort" => \A k \in DOMAIN held' : held'[k] # u
    <3>1. CASE /\ at[t] = "flush" /\ held' = <<>> /\ at' = [at EXCEPT ![t] = "abort"]
               /\ aborted' = aborted
      BY <1>6, <3>1 DEF L!FlushAndAbort, LoggerInv
    <3>2. CASE at[t] = "abort" /\ aborted' = {t} /\ UNCHANGED <<held, at>>
      BY <3>2 DEF LoggerInv
    <3> QED
      BY <1>6, <3>1, <3>2, Zenon DEF L!FlushAndAbort
  <2> QED
    BY <2>1, <2>2, Zenon DEF LoggerInv, Fits
<1>7. CASE L!StdoutWrites
  BY <1>7 DEF L!StdoutWrites, LoggerInv, Fits, L!clockVars
<1>8. CASE UNCHANGED L!vars
  BY <1>8, Zenon DEF L!vars, LoggerInv, Fits
<1> QED
  BY <1>1, <1>2, <1>3, <1>4, <1>5, <1>6, <1>7, <1>8, Zenon DEF L!Next

(* For any threads, messages and sizes: a record ends within the buffer of   *)
(* its LogStream, it carries the second at which its Logger was made though  *)
(* formatTime (Logging.cc:144-176) caches it, and a FATAL record is flushed  *)
(* before the abort (Logging.cc:219-230).                                    *)
THEOREM RecordsAreRight == L!Init /\ [][L!Next]_L!vars => []RecordsRight
<1>1. LoggerInv => RecordsRight
  <2> SUFFICES ASSUME LoggerInv PROVE RecordsRight
    OBVIOUS
  <2>1. \A b, w : Fits(b, w) => b.length < kSmallBuffer /\ b.first = w
    BY LoggerAssumption DEF Fits
  <2>3. L!RecordsFit /\ L!TimesAreRight
    BY <2>1 DEF LoggerInv, L!RecordsFit, L!TimesAreRight
  <2>2. L!NothingLostAtAbort
    BY DEF LoggerInv, L!NothingLostAtAbort
  <2> QED
    BY <2>3, <2>2 DEF RecordsRight
<1> QED
  BY <1>1, LoggerInit, LoggerNext, PTL

-----------------------------------------------------------------------------
(* Calendar.  getJulianDayNumber and getYearMonthDay count in years that     *)
(* begin in March, of 365 or 366 days by the rule of the leap years; here    *)
(* they are shown to be inverse to each other on every date, by way of the   *)
(* century, the year and the month that the divisions find.                  *)

(* YearDays(z) days come before the year z, counted from March. *)
YearDays(z) == 365 * z + z \div 4 - z \div 100 + z \div 400

(* The days of a year before its month m, counted from March. *)
MonthDays(m) == (153 * m + 2) \div 5

(* The sum of getJulianDayNumber. *)
JulianSum(day, monthDays, yearDays) == day + monthDays + yearDays - 32045

(* The year, counted from March, of a month. *)
MarchYear(year, month) == IF month <= 2 THEN year + 4799 ELSE year + 4800

(* The month counted from March. *)
MarchMonth(month) == IF month <= 2 THEN month + 9 ELSE month - 3

(* The / and % of C are those of the integers where nothing is negative. *)
LEMMA QuotientIs ==
  \A a \in Nat, b \in Nat \ {0} : D!Quotient(a, b) = a \div b /\ D!Remainder(a, b) = a % b
BY DEF D!Quotient, D!Remainder

(* getJulianDayNumber (Date.cc:24-31) counts days in years from March. *)
LEMMA JulianIs ==
  ASSUME NEW year \in Nat, NEW month \in 1 .. 12, NEW day \in Int
  PROVE  D!GetJulianDayNumber(year, month, day) =
           JulianSum(day, MonthDays(MarchMonth(month)), YearDays(MarchYear(year, month)))
<1> DEFINE a == D!Quotient(14 - month, 12)
           y == year + 4800 - a
           m == month + 12 * a - 3
<1>1. a = IF month <= 2 THEN 1 ELSE 0
  BY DEF D!Quotient
<1>2. y = MarchYear(year, month) /\ m = MarchMonth(month) /\ y \in Nat /\ m \in Nat
  BY <1>1 DEF MarchYear, MarchMonth
<1> HIDE DEF a
<1>3. D!GetJulianDayNumber(year, month, day) =
         day + D!Quotient(153 * m + 2, 5) + y * 365 + D!Quotient(y, 4) - D!Quotient(y, 100)
        + D!Quotient(y, 400) - 32045
  BY DEF D!GetJulianDayNumber, a
<1> HIDE DEF y, m
<1>4. D!Quotient(153 * m + 2, 5) = (153 * m + 2) \div 5 /\ D!Quotient(y, 4) = y \div 4
      /\ D!Quotient(y, 100) = y \div 100 /\ D!Quotient(y, 400) = y \div 400
  BY <1>2 DEF D!Quotient
<1> QED
  BY <1>2, <1>3, <1>4 DEF MonthDays, YearDays, JulianSum

(* The day of the year that begins in March, from 0 *)
DayOfYear(month, day) == day - 1 + MonthDays(MarchMonth(month))

(* These are natural numbers. *)
LEMMA MarchTypes ==
  ASSUME NEW year \in Nat, NEW month \in 1 .. 12
  PROVE  /\ MarchYear(year, month) \in Nat /\ MarchMonth(month) \in 0 .. 11
         /\ MonthDays(MarchMonth(month)) \in Nat /\ YearDays(MarchYear(year, month)) \in Nat
<1>1. MarchYear(year, month) \in Nat /\ MarchMonth(month) \in 0 .. 11
  BY DEF MarchYear, MarchMonth
<1>2. \A z \in Nat : YearDays(z) \in Nat
  BY DEF YearDays
<1>3. \A m \in 0 .. 11 : MonthDays(m) \in Nat
  BY DEF MonthDays
<1> QED
  BY <1>1, <1>2, <1>3, Zenon

(* The lengths of the months. *)
LEMMA DaysInIs ==
  ASSUME NEW year, NEW month \in 1 .. 12
  PROVE  D!DaysIn(year, month) = IF month = 2 THEN (IF D!Leap(year) THEN 29 ELSE 28)
                               ELSE IF month \in {4, 6, 9, 11} THEN 30 ELSE 31
BY DEF D!DaysIn

(* The days before each month. *)
LEMMA MonthDaysAre ==
  /\ MonthDays(0) = 0 /\ MonthDays(1) = 31 /\ MonthDays(2) = 61 /\ MonthDays(3) = 92
  /\ MonthDays(4) = 122 /\ MonthDays(5) = 153 /\ MonthDays(6) = 184 /\ MonthDays(7) = 214
  /\ MonthDays(8) = 245 /\ MonthDays(9) = 275 /\ MonthDays(10) = 306 /\ MonthDays(11) = 337
BY DEF MonthDays

(* A year has 366 days when it is a leap year, and 365 otherwise. *)
LEMMA LeapYearDays ==
  ASSUME NEW year \in Nat
  PROVE  YearDays(year + 4800) = YearDays(year + 4799) + (IF D!Leap(year) THEN 366 ELSE 365)
BY DEF YearDays, D!Leap

(* What getYearMonthDay computes: the century, the day in it, the year of the century, the month. *)
CenturyOf(a) == (4 * a + 3) \div 146097

(* The day of a century. *)
DayOfCentury(a, century) == a - ((century * 146097) \div 4)

(* The year of a century. *)
YearOfCentury(c) == (4 * c + 3) \div 1461

(* The day of a year of a century. *)
DayOfYearAt(c, year) == c - ((1461 * year) \div 4)

(* The month of a day of the year. *)
MonthOf(e) == (5 * e + 2) \div 153

(* The century of a year. *)
CenturyPart(z) == z \div 100

(* The year of its century. *)
YearPart(z) == z % 100

(* e is a day of the year z, which begins in March. *)
DayIn(e, z) == e \in 0 .. 365 /\ (e = 365 => D!Leap(z + 1))

(* A date is a day of its year, and its month is found. *)
LEMMA DayOfYearIs ==
  ASSUME NEW year \in Nat, NEW month \in 1 .. 12, NEW day \in 1 .. D!DaysIn(year, month)
  PROVE  /\ day \in Int
         /\ DayIn(DayOfYear(month, day), MarchYear(year, month))
         /\ MonthOf(DayOfYear(month, day)) = MarchMonth(month)
<1>1. month \in {1, 2, 3, 4, 5, 6, 7, 8, 9, 10, 11, 12}
  OBVIOUS
<1> DEFINE e == DayOfYear(month, day)
<1>2. /\ day \in Int
      /\ e \in 0 .. 365
      /\ e = 365 => month = 2 /\ D!Leap(year)
      /\ (5 * e + 2) \div 153 = MarchMonth(month)
  BY <1>1, DaysInIs, MonthDaysAre DEF MarchMonth, DayOfYear
<1>3. month = 2 => MarchYear(year, month) + 1 = year + 4800
  BY DEF MarchYear
<1>4. D!Leap(year) => D!Leap(year + 4800)
  BY DEF D!Leap
<1> HIDE DEF e
<1>5. DayIn(e, MarchYear(year, month)) /\ MonthOf(e) = MarchMonth(month)
  BY <1>2, <1>3, <1>4 DEF DayIn, MonthOf
<1> QED
  BY <1>2, <1>5 DEF e

(* The steps of getYearMonthDay find the century, the year and the day of    *)
(* the year of any day.                                                      *)
LEMMA CenturyFound ==
  ASSUME NEW z \in Nat, NEW e, DayIn(e, z), NEW a, a = YearDays(z) + e
  PROVE  /\ a \in Nat
         /\ CenturyOf(a) = CenturyPart(z)
         /\ YearOfCentury(DayOfCentury(a, CenturyPart(z))) = YearPart(z)
         /\ DayOfYearAt(DayOfCentury(a, CenturyPart(z)), YearPart(z)) = e
         /\ DayOfCentury(a, CenturyPart(z)) \in Nat
<1>1. /\ a \in Nat
      /\ (4 * a + 3) \div 146097 = z \div 100
      /\ a - (((z \div 100) * 146097) \div 4) = ((1461 * (z % 100)) \div 4) + e
  BY DEF YearDays, D!Leap, DayIn
<1> DEFINE c == DayOfCentury(a, CenturyPart(z))
<1>2. c = ((1461 * (z % 100)) \div 4) + e
  BY <1>1 DEF DayOfCentury, CenturyPart
<1> HIDE DEF c
<1>3. c \in Nat /\ (4 * c + 3) \div 1461 = z % 100
  BY <1>2 DEF D!Leap, DayIn
<1>4. c - ((1461 * (z % 100)) \div 4) = e
  BY <1>2 DEF DayIn
<1> QED
  BY <1>1, <1>3, <1>4 DEF CenturyOf, CenturyPart, YearOfCentury, YearPart, DayOfYearAt, c

(* getYearMonthDay (Date.cc:33-50) takes these steps. *)
LEMMA YearMonthDayIs ==
  ASSUME NEW j, NEW a \in Nat, a = j + 32044, NEW b \in Nat, b = CenturyOf(a),
         NEW c \in Nat, c = DayOfCentury(a, b), NEW d \in Nat, d = YearOfCentury(c),
         NEW e \in Nat, e = DayOfYearAt(c, d), NEW m \in Nat, m = MonthOf(e)
  PROVE  D!GetYearMonthDay(j) =
           <<b * 100 + d - 4800 + (m \div 10), m + 3 - 12 * (m \div 10), e - MonthDays(m) + 1>>
<1>1. D!Quotient(4 * a + 3, 146097) = b
  BY DEF D!Quotient, CenturyOf
<1>2. a - D!Quotient(b * 146097, 4) = c
  BY DEF D!Quotient, DayOfCentury
<1>3. D!Quotient(4 * c + 3, 1461) = d
  BY DEF D!Quotient, YearOfCentury
<1>4. c - D!Quotient(1461 * d, 4) = e
  BY DEF D!Quotient, DayOfYearAt
<1>5. D!Quotient(5 * e + 2, 153) = m
  BY DEF D!Quotient, MonthOf
<1>6. D!Quotient(m, 10) = m \div 10 /\ D!Quotient(153 * m + 2, 5) = MonthDays(m)
  BY DEF D!Quotient, MonthDays
<1> QED
  BY <1>1, <1>2, <1>3, <1>4, <1>5, <1>6 DEF D!GetYearMonthDay

(* getYearMonthDay is the inverse of getJulianDayNumber on every date. *)
LEMMA InverseOfJulian ==
  ASSUME NEW year \in Nat, NEW month \in 1 .. 12, NEW day \in 1 .. D!DaysIn(year, month)
  PROVE  D!GetYearMonthDay(D!GetJulianDayNumber(year, month, day)) = <<year, month, day>>
<1> DEFINE z == MarchYear(year, month)
           mm == MarchMonth(month)
           e == DayOfYear(month, day)
           j == D!GetJulianDayNumber(year, month, day)
           a == j + 32044
           b == CenturyPart(z)
           c == DayOfCentury(a, b)
           d == YearPart(z)
<1>1. z \in Nat /\ mm \in 0 .. 11 /\ MonthDays(mm) \in Nat /\ YearDays(z) \in Nat
  BY MarchTypes, Zenon
<1>2. DayIn(e, z) /\ day \in Int /\ MonthOf(e) = mm
  BY DayOfYearIs, Zenon
<1>3. j = JulianSum(day, MonthDays(mm), YearDays(z))
  BY <1>2, JulianIs, Zenon
<1>4. e = day - 1 + MonthDays(mm)
  BY Zenon DEF DayOfYear
<1>6. z = IF month <= 2 THEN year + 4799 ELSE year + 4800
  BY DEF MarchYear
<1>7. mm = IF month <= 2 THEN month + 9 ELSE month - 3
  BY DEF MarchMonth
<1> HIDE DEF z, mm, e, j
<1>8. a = YearDays(z) + e
  BY <1>1, <1>2, <1>3, <1>4 DEF JulianSum
<1>9. e \in Nat /\ mm \in Nat
  BY <1>1, <1>2 DEF DayIn
<1>10. b \in Nat /\ d \in Nat /\ b * 100 + d = z
  BY <1>1 DEF CenturyPart, YearPart
<1> HIDE DEF a
<1>11. a \in Nat /\ CenturyOf(a) = b /\ YearOfCentury(c) = d /\ DayOfYearAt(c, d) = e /\ c \in Nat
  BY <1>1, <1>2, <1>8, CenturyFound, Zenon
<1>12. a = j + 32044
  BY DEF a
<1> HIDE DEF b, c, d
<1>13. c = DayOfCentury(a, b)
  BY DEF c
<1>14. D!GetYearMonthDay(j) =
           <<b * 100 + d - 4800 + (mm \div 10), mm + 3 - 12 * (mm \div 10), e - MonthDays(mm) + 1>>
  BY <1>2, <1>9, <1>10, <1>11, <1>12, <1>13, YearMonthDayIs
<1>15. mm \div 10 = IF month <= 2 THEN 1 ELSE 0
  BY <1>7
<1>16. b * 100 + d - 4800 + (mm \div 10) = year
  BY <1>6, <1>10, <1>15
<1>17. mm + 3 - 12 * (mm \div 10) = month
  BY <1>7, <1>15
<1>18. e - MonthDays(mm) + 1 = day
  BY <1>1, <1>2, <1>4
<1> QED
  BY <1>14, <1>16, <1>17, <1>18 DEF j

(* The Julian day number grows by one from a day to the next, also at the    *)
(* end of a month and of a year.                                             *)
LEMMA JulianOfNextDay ==
  ASSUME NEW year \in Nat, NEW month \in 1 .. 12
  PROVE  /\ \A day \in Nat :
              D!GetJulianDayNumber(year, month, day + 1) =
                  D!GetJulianDayNumber(year, month, day) + 1
         /\ month < 12 => D!GetJulianDayNumber(year, month + 1, 1)
                             = D!GetJulianDayNumber(year, month, D!DaysIn(year, month)) + 1
         /\ D!GetJulianDayNumber(year + 1, 1, 1) = D!GetJulianDayNumber(year, 12, 31) + 1
<1>1. ASSUME NEW day \in Nat
      PROVE D!GetJulianDayNumber(year, month, day + 1) = D!GetJulianDayNumber(year, month, day) + 1
  <2> DEFINE md == MonthDays(MarchMonth(month))
             yd == YearDays(MarchYear(year, month))
  <2>1. md \in Nat /\ yd \in Nat
    BY MarchTypes, Zenon
  <2>2. day \in Int /\ day + 1 \in Int
    OBVIOUS
  <2>3. D!GetJulianDayNumber(year, month, day + 1) = JulianSum(day + 1, md, yd)
        /\ D!GetJulianDayNumber(year, month, day) = JulianSum(day, md, yd)
    BY <2>2, JulianIs, Zenon
  <2> HIDE DEF md, yd
  <2> QED
    BY <2>1, <2>3 DEF JulianSum
<1>2. ASSUME month < 12
      PROVE  D!GetJulianDayNumber(year, month + 1, 1)
                             = D!GetJulianDayNumber(year, month, D!DaysIn(year, month)) + 1
  <2> DEFINE days == D!DaysIn(year, month)
             md == MonthDays(MarchMonth(month))
             yd == YearDays(MarchYear(year, month))
             md1 == MonthDays(MarchMonth(month + 1))
             yd1 == YearDays(MarchYear(year, month + 1))
  <2>0. month + 1 \in 1 .. 12 /\ 1 \in Int
    BY <1>2
  <2>1. days = (IF month = 2 THEN (IF D!Leap(year) THEN 29 ELSE 28)
                               ELSE IF month \in {4, 6, 9, 11} THEN 30 ELSE 31) /\ days \in Int
    BY DaysInIs
  <2>2. md \in Nat /\ yd \in Nat /\ md1 \in Nat /\ yd1 \in Nat
    BY <2>0, MarchTypes, Zenon
  <2>3. D!GetJulianDayNumber(year, month + 1, 1) = JulianSum(1, md1, yd1)
        /\ D!GetJulianDayNumber(year, month, days) = JulianSum(days, md, yd)
    BY <2>0, <2>1, JulianIs, Zenon
  <2>4. CASE month = 2
    <3>1. /\ MarchMonth(month) = 11 /\ MarchMonth(month + 1) = 0
          /\ MarchYear(year, month) = year + 4799
          /\ MarchYear(year, month + 1) = year + 4800
      BY <2>4 DEF MarchMonth, MarchYear
    <3>2. md = 337 /\ md1 = 0
      BY <3>1, MonthDaysAre
    <3>3. yd1 = yd + (IF D!Leap(year) THEN 366 ELSE 365)
      BY <3>1, LeapYearDays
    <3> HIDE DEF days, md, yd, md1, yd1
    <3>4. D!GetJulianDayNumber(year, month + 1, 1) = D!GetJulianDayNumber(year, month, days) + 1
      BY <2>1, <2>2, <2>3, <2>4, <3>2, <3>3 DEF JulianSum
    <3> QED
      BY <3>4 DEF days
  <2>5. CASE month # 2
    <3>1. MarchYear(year, month) = MarchYear(year, month + 1)
      BY <2>5 DEF MarchYear
    <3>2. month \in {1, 3, 4, 5, 6, 7, 8, 9, 10, 11}
      BY <2>5, <1>2
    <3> HIDE DEF days
    <3>3. md1 = md + days
      BY <2>1, <3>2, MonthDaysAre DEF MarchMonth
    <3>4. yd = yd1
      BY <3>1, Zenon
    <3> HIDE DEF md, yd, md1, yd1
    <3>5. D!GetJulianDayNumber(year, month + 1, 1) = D!GetJulianDayNumber(year, month, days) + 1
      BY <2>1, <2>2, <2>3, <3>3, <3>4 DEF JulianSum
    <3> QED
      BY <3>5 DEF days
  <2> QED
    BY <2>4, <2>5
<1>3. D!GetJulianDayNumber(year + 1, 1, 1) = D!GetJulianDayNumber(year, 12, 31) + 1
  <2> DEFINE yd == YearDays(MarchYear(year, 12))
  <2>0. year + 1 \in Nat /\ 1 \in 1 .. 12 /\ 12 \in 1 .. 12 /\ 1 \in Int /\ 31 \in Int
    OBVIOUS
  <2>1. MarchYear(year + 1, 1) = MarchYear(year, 12) /\ MarchMonth(1) = 10 /\ MarchMonth(12) = 9
    BY DEF MarchYear, MarchMonth
  <2>2. yd \in Nat
    BY <2>0, MarchTypes, Zenon
  <2>3. D!GetJulianDayNumber(year + 1, 1, 1) = JulianSum(1, MonthDays(10), yd)
        /\ D!GetJulianDayNumber(year, 12, 31) = JulianSum(31, MonthDays(9), yd)
    BY <2>0, <2>1, JulianIs, Zenon
  <2> HIDE DEF yd
  <2> QED
    BY <2>2, <2>3, MonthDaysAre DEF JulianSum
<1> QED
  BY <1>1, <1>2, <1>3

(* It is an integer. *)
LEMMA JulianInt ==
  ASSUME NEW year \in Nat, NEW month \in 1 .. 12, NEW day \in Int
  PROVE  D!GetJulianDayNumber(year, month, day) \in Int
<1> DEFINE md == MonthDays(MarchMonth(month))
           yd == YearDays(MarchYear(year, month))
<1>1. md \in Nat /\ yd \in Nat
  BY MarchTypes, Zenon
<1>2. D!GetJulianDayNumber(year, month, day) = JulianSum(day, md, yd)
  BY JulianIs, Zenon
<1> HIDE DEF md, yd
<1> QED
  BY <1>1, <1>2 DEF JulianSum

(* The inductive invariant of a walk: the date is one of the calendar, and   *)
(* its number, its day of the week and its day of the year follow from       *)
(* getJulianDayNumber.                                                       *)
DayInv ==
  /\ date = <<date[1], date[2], date[3]>>
  /\ date[1] \in Nat /\ date[2] \in 1 .. 12 /\ date[3] \in 1 .. D!DaysIn(date[1], date[2])
  /\ julian = D!GetJulianDayNumber(date[1], date[2], date[3])
  /\ weekday = (julian + 1) % 7
  /\ yearday = julian - D!GetJulianDayNumber(date[1], 1, 1)

(* The first of January is on the day of the week that the days before it    *)
(* give.                                                                     *)
LEMMA FirstWeekday ==
  ASSUME NEW year \in Nat
  PROVE  (D!GetJulianDayNumber(year, 1, 1) + 1) % 7 = (D!DaysBefore(year) + 1) % 7
<1>1. D!GetJulianDayNumber(year, 1, 1) = 1 + 306 + YearDays(year + 4799) - 32045
  BY JulianIs, MonthDaysAre DEF JulianSum, MarchMonth, MarchYear
<1>2. YearDays(year + 4799) = D!DaysBefore(year) + 1753164 /\ D!DaysBefore(year) \in Int
  BY DEF YearDays, D!DaysBefore
<1> QED
  BY <1>1, <1>2

(* A walk begins in the invariant. *)
LEMMA DayInit == D!Init => DayInv
<1> SUFFICES ASSUME D!Init PROVE DayInv
  OBVIOUS
<1>1. PICK y \in Nat : date = <<y, 1, 1>>
  <2>1. date \in FirstDays
    BY Zenon DEF D!Init
  <2>2. date[1] \in Nat /\ date = <<date[1], 1, 1>>
    BY <2>1, CalendarAssumption, Zenon
  <2> QED
    BY <2>2, Zenon
<1>2. D!DaysIn(y, 1) = 31
  BY DaysInIs
<1>3. D!GetJulianDayNumber(y, 1, 1) \in Int
  BY JulianInt
<1>4. weekday = (julian + 1) % 7
  BY <1>1, FirstWeekday DEF D!Init
<1>5. yearday = julian - D!GetJulianDayNumber(date[1], 1, 1)
  BY <1>1, <1>3 DEF D!Init
<1> QED
  BY <1>1, <1>2, <1>4, <1>5 DEF D!Init, DayInv

(* The next day is in the invariant. *)
LEMMA DayNext == DayInv /\ [D!Next]_D!vars => DayInv'
<1> SUFFICES ASSUME DayInv, [D!Next]_D!vars PROVE DayInv'
  OBVIOUS
<1>1. CASE UNCHANGED D!vars
  BY <1>1, Zenon DEF D!vars, DayInv
<1>2. CASE D!NextDay
  <2> DEFINE y == date[1]
             m == date[2]
             d == date[3]
  <2>1. /\ y \in Nat /\ m \in 1 .. 12 /\ d \in 1 .. D!DaysIn(y, m)
        /\ julian = D!GetJulianDayNumber(y, m, d)
        /\ weekday = (julian + 1) % 7 /\ yearday = julian - D!GetJulianDayNumber(y, 1, 1)
    BY Zenon DEF DayInv
  <2>2. julian' = julian + 1 /\ weekday' = (weekday + 1) % 7
        /\ date' = (CASE d < D!DaysIn(y, m) -> <<y, m, d + 1>>
                     [] d = D!DaysIn(y, m) /\ m < 12 -> <<y, m + 1, 1>>
                     [] d = D!DaysIn(y, m) /\ m = 12 -> <<y + 1, 1, 1>>)
        /\ yearday' = IF date'[1] = date[1] THEN yearday + 1 ELSE 0
    BY <1>2, Zenon DEF D!NextDay
  <2>3. y = date[1]
    OBVIOUS
  <2> HIDE DEF y, m, d
  <2>4. /\ d \in Nat /\ D!DaysIn(y, m) \in 28 .. 31 /\ julian \in Int
        /\ D!GetJulianDayNumber(y, 1, 1) \in Int
    <3>1. D!DaysIn(y, m) \in 28 .. 31 /\ d \in Nat
      BY <2>1, DaysInIs
    <3>2. d \in Int /\ 1 \in Int /\ 1 \in 1 .. 12
      BY <3>1
    <3>3. julian \in Int
      BY <2>1, <3>2, JulianInt, Zenon
    <3>4. D!GetJulianDayNumber(y, 1, 1) \in Int
      BY <2>1, <3>2, JulianInt, Zenon
    <3> QED
      BY <3>1, <3>3, <3>4
  <2>5. weekday' = (julian' + 1) % 7 /\ julian' \in Int
    BY <2>1, <2>2, <2>4
  <2>6. CASE d < D!DaysIn(y, m)
    <3>1. date' = <<y, m, d + 1>> /\ yearday' = yearday + 1
      BY <2>2, <2>3, <2>6, <2>4
    <3>2. D!GetJulianDayNumber(y, m, d + 1) = julian'
      BY <2>1, <2>2, <2>4, JulianOfNextDay
    <3>3. d + 1 \in 1 .. D!DaysIn(y, m)
      BY <2>4, <2>6
    <3>4. yearday' = julian' - D!GetJulianDayNumber(y, 1, 1)
      BY <3>1, <2>1, <2>2, <2>4
    <3> QED
      BY <2>1, <2>5, <3>1, <3>2, <3>3, <3>4 DEF DayInv
  <2>7. CASE d = D!DaysIn(y, m) /\ m < 12
    <3>1. date' = <<y, m + 1, 1>> /\ yearday' = yearday + 1
      BY <2>2, <2>3, <2>7, <2>4
    <3>2. D!GetJulianDayNumber(y, m + 1, 1) = julian'
      BY <2>1, <2>2, <2>7, JulianOfNextDay
    <3>3. m + 1 \in 1 .. 12
      BY <2>1, <2>7
    <3>4. D!DaysIn(y, m + 1) \in 28 .. 31
      BY <3>3, DaysInIs
    <3>5. 1 \in 1 .. D!DaysIn(y, m + 1)
      BY <3>4
    <3>6. yearday' = julian' - D!GetJulianDayNumber(y, 1, 1)
      BY <3>1, <2>1, <2>2, <2>4
    <3> QED
      BY <2>1, <2>5, <3>1, <3>2, <3>3, <3>5, <3>6 DEF DayInv
  <2>8. CASE d = D!DaysIn(y, m) /\ m = 12
    <3>1. D!DaysIn(y, m) = 31 /\ D!DaysIn(y + 1, 1) = 31
      BY <2>8, DaysInIs
    <3>2. date' = <<y + 1, 1, 1>> /\ yearday' = 0
      BY <2>1, <2>2, <2>3, <2>8, <2>4
    <3>3. D!GetJulianDayNumber(y + 1, 1, 1) = julian'
      BY <2>1, <2>2, <2>8, <3>1, JulianOfNextDay
    <3>4. yearday' = julian' - D!GetJulianDayNumber(y + 1, 1, 1)
      BY <3>2, <3>3, <2>5
    <3> QED
      BY <2>1, <2>5, <3>1, <3>2, <3>3, <3>4 DEF DayInv
  <2> QED
    BY <2>1, <2>4, <2>6, <2>7, <2>8
<1> QED
  BY <1>1, <1>2, Zenon DEF D!Next

(* The days and the seconds of a time, also before 1970, where / and % of C  *)
(* truncate (TimeZone.cc:158-174).                                           *)
LEMMA SplitDaysIs ==
  ASSUME NEW days \in Int, NEW s \in Nat, s < D!kSecondsPerDay
  PROVE  D!SplitDays(days * D!kSecondsPerDay + s) = <<days, s>>
<1> DEFINE t == days * D!kSecondsPerDay + s
           q == D!Quotient(t, D!kSecondsPerDay)
           r == D!Remainder(t, D!kSecondsPerDay)
<1>1. D!SplitDays(t) = IF r < 0 THEN <<q - 1, r + D!kSecondsPerDay>> ELSE <<q, r>>
  BY DEF D!SplitDays
<1>2. D!kSecondsPerDay \in Int
  BY DEF D!kSecondsPerDay
<1>3. r = t - D!kSecondsPerDay * q
  BY DEF D!Remainder
<1>4. CASE days >= 0 \/ s = 0
  <2>1. q = days
    BY <1>2, <1>4 DEF D!Quotient, D!kSecondsPerDay
  <2> HIDE DEF q
  <2>2. r = s
    BY <1>2, <1>3, <2>1 DEF D!kSecondsPerDay
  <2> HIDE DEF r, t
  <2>3. D!SplitDays(t) = <<days, s>>
    BY <1>1, <1>2, <2>1, <2>2
  <2> QED
    BY <2>3 DEF t
<1>5. CASE days < 0 /\ s # 0
  <2>1. q = days + 1
    BY <1>2, <1>5 DEF D!Quotient, D!kSecondsPerDay
  <2> HIDE DEF q
  <2>2. r = s - D!kSecondsPerDay
    BY <1>2, <1>3, <2>1 DEF D!kSecondsPerDay
  <2> HIDE DEF r, t
  <2>3. D!SplitDays(t) = <<days, s>>
    BY <1>1, <1>2, <2>1, <2>2
  <2> QED
    BY <2>3 DEF t
<1>6. days >= 0 \/ s = 0 \/ (days < 0 /\ s # 0)
  BY <1>2
<1> QED
  BY <1>4, <1>5, <1>6

(* The seconds of a time of the day. *)
SecondsOf(hms) == hms[1] * 3600 + hms[2] * 60 + hms[3]

(* FillHMS (TimeZone.cc:49-56) keeps the seconds of the day. *)
LEMMA FillHMSIs ==
  ASSUME NEW s \in Nat
  PROVE  /\ D!FillHMS(s)[1] \in Nat /\ D!FillHMS(s)[2] \in Nat /\ D!FillHMS(s)[3] \in Nat
         /\ SecondsOf(D!FillHMS(s)) = s
<1>1. D!Quotient(s, 60) = s \div 60 /\ D!Remainder(s, 60) = s % 60 /\ s \div 60 \in Nat
  BY DEF D!Quotient, D!Remainder
<1> DEFINE q == s \div 60
<1>2. D!Quotient(q, 60) = q \div 60 /\ D!Remainder(q, 60) = q % 60
  BY DEF D!Quotient, D!Remainder
<1>3. D!FillHMS(s) = <<(s \div 60) \div 60, (s \div 60) % 60, s % 60>>
  BY <1>1, <1>2 DEF D!FillHMS
<1>4. ((s \div 60) \div 60) * 3600 + ((s \div 60) % 60) * 60 + (s % 60) = s
      /\ (s \div 60) \div 60 \in Nat /\ (s \div 60) % 60 \in Nat /\ s % 60 \in Nat
  OBVIOUS
<1> QED
  BY <1>3, <1>4 DEF SecondsOf


(* The Julian day number of a date is not negative. *)
LEMMA JulianNat ==
  ASSUME NEW year \in Nat, NEW month \in 1 .. 12, NEW day \in 1 .. D!DaysIn(year, month)
  PROVE  D!GetJulianDayNumber(year, month, day) \in Nat
<1> DEFINE md == MonthDays(MarchMonth(month))
           yd == YearDays(MarchYear(year, month))
<1>1. day \in Int /\ md \in Nat /\ D!GetJulianDayNumber(year, month, day) = JulianSum(day, md, yd)
  BY DayOfYearIs, MarchTypes, JulianIs, Zenon
<1>2. yd >= 32045 /\ yd \in Nat
  BY DEF YearDays, MarchYear
<1>3. day >= 1
  BY DaysInIs
<1> HIDE DEF md, yd
<1> QED
  BY <1>1, <1>2, <1>3 DEF JulianSum

(* Date::weekDay, without the truncation. *)
LEMMA WeekDayIs ==
  \A j \in Nat : D!WeekDay(j) = (j + 1) % 7
BY DEF D!WeekDay, D!Remainder, D!Quotient

(* toUtcTime and fromUtcTime are right on a day of the calendar. *)
LEMMA UtcRight ==
  ASSUME DayInv, NEW s \in Instants
  PROVE  D!UtcTimeRight(julian - D!kJulianDayOf1970_01_01, s)
<1> DEFINE days == julian - D!kJulianDayOf1970_01_01
           t == days * D!kSecondsPerDay + s
           y == date[1]
           m == date[2]
           d == date[3]
<1>1. /\ date = <<y, m, d>> /\ y \in Nat /\ m \in 1 .. 12 /\ d \in 1 .. D!DaysIn(y, m)
      /\ julian = D!GetJulianDayNumber(y, m, d) /\ weekday = (julian + 1) % 7
      /\ yearday = julian - D!GetJulianDayNumber(y, 1, 1)
  BY Zenon DEF DayInv
<1> HIDE DEF y, m, d
<1>2. s \in Nat /\ s < D!kSecondsPerDay
  BY CalendarAssumption, Zenon
<1>3. D!kJulianDayOf1970_01_01 \in Int
  BY JulianInt DEF D!kJulianDayOf1970_01_01
<1>4. julian \in Nat
  BY <1>1, JulianNat, Zenon
<1>5. days \in Int /\ days + D!kJulianDayOf1970_01_01 = julian
  BY <1>3, <1>4
<1>6. D!SplitDays(t) = <<days, s>>
  <2> HIDE DEF days
  <2> QED
    BY <1>2, <1>5, SplitDaysIs
<1>7. D!GetYearMonthDay(julian) = <<y, m, d>>
  BY <1>1, InverseOfJulian, Zenon
<1>8. D!WeekDay(julian) = weekday
  BY <1>1, <1>4, WeekDayIs, Zenon
<1> DEFINE utc == [tm_year |-> y - 1900, tm_mon |-> m - 1, tm_mday |-> d, hms |-> D!FillHMS(s),
                   tm_wday |-> weekday, tm_yday |-> yearday]
<1> HIDE DEF days, t
<1>9. D!ToUtcTime(t) = utc
  BY <1>1, <1>5, <1>6, <1>7, <1>8 DEF D!ToUtcTime
<1>10. utc.tm_year + 1900 = y /\ utc.tm_mon + 1 = m /\ utc.tm_mday = d /\ utc.hms = D!FillHMS(s)
       /\ utc.tm_wday = weekday /\ utc.tm_yday = yearday
  BY <1>1
<1> HIDE DEF utc
<1>11. D!FromUtcTime(utc) = t
  <2> DEFINE h == D!FillHMS(s)[1]
             mi == D!FillHMS(s)[2]
             sec == D!FillHMS(s)[3]
             back == D!GetJulianDayNumber(utc.tm_year + 1900, utc.tm_mon + 1, utc.tm_mday)
                       - D!kJulianDayOf1970_01_01
  <2>1. back = days
    BY <1>1, <1>3, <1>4, <1>5, <1>10
  <2>2. D!FromUtcTime(utc) = back * D!kSecondsPerDay + h * 3600 + mi * 60 + sec
    BY <1>10 DEF D!FromUtcTime
  <2>3. h \in Nat /\ mi \in Nat /\ sec \in Nat /\ SecondsOf(D!FillHMS(s)) = s
    BY <1>2, FillHMSIs, Zenon
  <2>6. h * 3600 + mi * 60 + sec = s
    BY <2>3 DEF SecondsOf
  <2> HIDE DEF back, h, mi, sec
  <2> DEFINE p == days * D!kSecondsPerDay
  <2>4. p \in Int
    BY <1>5 DEF D!kSecondsPerDay
  <2>5. D!FromUtcTime(utc) = p + h * 3600 + mi * 60 + sec /\ t = p + s
    BY <2>1, <2>2 DEF t
  <2> HIDE DEF p
  <2> QED
    BY <1>2, <2>3, <2>4, <2>5, <2>6
<1>12. D!UtcTimeRight(days, s)
  BY <1>1, <1>9, <1>10, <1>11 DEF D!UtcTimeRight, t
<1> QED
  BY <1>12 DEF days

(* On every day of every walk, from the first of January of any year:        *)
(* getJulianDayNumber, getYearMonthDay and weekDay agree with the calendar,  *)
(* and fromUtcTime is the inverse of toUtcTime at any second of a day whose  *)
(* seconds fit in 31 bits.                                                   *)
THEOREM DatesAreRight == D!Init /\ [][D!Next]_D!vars => []DatesAgree
<1>1. DayInv => DatesAgree
  <2> SUFFICES ASSUME DayInv PROVE DatesAgree
    OBVIOUS
  <2>1. D!UtcRoundTrip
    BY UtcRight, Zenon DEF D!UtcRoundTrip
  <2>2. D!GetYearMonthDay(julian) = date /\ D!GetJulianDayNumber(date[1], date[2], date[3]) = julian
    BY InverseOfJulian, Zenon DEF DayInv
  <2>3. D!WeekDay(julian) = weekday
    BY JulianNat, WeekDayIs, Zenon DEF DayInv
  <2> QED
    BY <2>1, <2>2, <2>3, Zenon DEF DatesAgree, D!DatesAgree
<1> QED
  BY <1>1, DayInit, DayNext, PTL

-----------------------------------------------------------------------------
(* TimeZone.  What lower_bound finds is the last transition at or before a   *)
(* time, in UTC and in local time; the local time goes by it and comes back. *)

(* The local time in force after the first j transitions of a zone. *)
TypeFrom(data, j) ==
  IF j = 0 THEN data.localtimes[1] ELSE data.localtimes[data.transitions[j].localtimeIdx]

(* What a zone that was read, or is fixed, keeps of ZoneFile: its            *)
(* transitions are in order in UTC and in local time, and the clock goes     *)
(* back only at the end of summer time, by an hour.                          *)
GoodZone(data) ==
  /\ Len(data.transitions) \in Nat
  /\ DOMAIN data.transitions = 1 .. Len(data.transitions)
  /\ Len(data.transitions) = 0 => data.transitions = <<>>
  /\ Len(data.transitions) # 0 => data.transitions # <<>>
  /\ \A j \in 0 .. Len(data.transitions) :
       TypeFrom(data, j).gmtOffset \in Int /\ TypeFrom(data, j).isDst \in BOOLEAN
  /\ \A k \in 1 .. Len(data.transitions) :
       /\ data.transitions[k].gmttime \in Int
       /\ data.transitions[k].localtime = data.transitions[k].gmttime + TypeFrom(data, k).gmtOffset
  /\ \A k, m \in 1 .. Len(data.transitions) : k < m =>
       /\ data.transitions[k].gmttime + HourUnits < data.transitions[m].gmttime
       /\ data.transitions[k].localtime < data.transitions[m].localtime
  /\ \A k \in 1 .. Len(data.transitions) :
       TypeFrom(data, k).gmtOffset < TypeFrom(data, k - 1).gmtOffset =>
         /\ TypeFrom(data, k - 1).isDst /\ ~TypeFrom(data, k).isDst
         /\ TypeFrom(data, k - 1).gmtOffset = TypeFrom(data, k).gmtOffset + HourUnits

(* The elements of a sequence. *)
LEMMA SeqElements ==
  ASSUME NEW S, NEW s \in Seq(S)
  PROVE  /\ Len(s) \in Nat /\ DOMAIN s = 1 .. Len(s) /\ \A k \in 1 .. Len(s) : s[k] \in S
         /\ Len(s) = 0 => s = <<>>
         /\ Len(s) # 0 => s # <<>>
OBVIOUS

(* readTimeZoneFile (TimeZone.cc:85-138) makes such a zone. *)
LEMMA ReadZoneGood ==
  ASSUME NEW f, ZoneFile(f)
  PROVE  GoodZone(Z!ReadTimeZoneFile(f))
<1> DEFINE data == Z!ReadTimeZoneFile(f)
           n == Len(f.trans)
           Read(k) == [gmttime      |-> f.trans[k].at,
                       localtime    |-> f.trans[k].at + f.types[f.trans[k].type].gmtOffset,
                       localtimeIdx |-> f.trans[k].type]
<1>0. n \in Nat /\ DOMAIN f.trans = 1 .. n
      /\ \A k \in 1 .. n : f.trans[k] \in [at : Int, type : DOMAIN f.types]
  <2>1. f.trans \in Seq([at : Int, type : DOMAIN f.types])
    BY DEF ZoneFile
  <2> QED
    BY <2>1, SeqElements, Zenon
<1>1. data.localtimes = f.types /\ data.transitions = [k \in 1 .. n |-> Read(k)]
  BY <1>0 DEF Z!ReadTimeZoneFile
<1> HIDE DEF data, n
<1>2. Len(data.transitions) = n /\ DOMAIN data.transitions = 1 .. n
      /\ \A k \in 1 .. n : data.transitions[k] = Read(k)
  <2> HIDE DEF Read
  <2> QED
    BY <1>0, <1>1
<1>3. \A k \in 1 .. n : data.transitions[k].gmttime = f.trans[k].at /\
    data.transitions[k].localtimeIdx = f.trans[k].type
        /\ data.transitions[k].localtime = f.trans[k].at + f.types[f.trans[k].type].gmtOffset
        /\ f.trans[k].at \in Int /\ f.trans[k].type \in DOMAIN f.types
  <2> SUFFICES ASSUME NEW k \in 1 .. n
               PROVE  /\ data.transitions[k].gmttime = f.trans[k].at
                      /\ data.transitions[k].localtimeIdx = f.trans[k].type
                      /\ data.transitions[k].localtime =
                          f.trans[k].at + f.types[f.trans[k].type].gmtOffset
                      /\ f.trans[k].at \in Int /\ f.trans[k].type \in DOMAIN f.types
    OBVIOUS
  <2>1. f.trans[k] \in [at : Int, type : DOMAIN f.types]
    BY <1>0
  <2>2. f.trans[k].at \in Int /\ f.trans[k].type \in DOMAIN f.types
    <3> DEFINE e == f.trans[k]
               typeNumbers == DOMAIN f.types
    <3>1. e \in [at : Int, type : typeNumbers]
      BY <2>1
    <3> HIDE DEF e, typeNumbers
    <3>2. e.at \in Int /\ e.type \in typeNumbers
      BY <3>1
    <3> QED
      BY <3>2 DEF e, typeNumbers
  <2>3. data.transitions[k] = Read(k)
    BY <1>2
  <2> QED
    BY <2>2, <2>3
<1>4. \A j \in 0 .. n : TypeFrom(data, j) = TypeAfter(f, j)
  <2> SUFFICES ASSUME NEW j \in 0 .. n PROVE TypeFrom(data, j) = TypeAfter(f, j)
    OBVIOUS
  <2>1. j # 0 => j \in 1 .. n
    BY <1>0
  <2> QED
    BY <2>1, <1>1, <1>3, Zenon DEF TypeFrom, TypeAfter
<1>5. \A j \in 0 .. n : TypeAfter(f, j) \in [gmtOffset : Int, isDst : BOOLEAN]
  <2> SUFFICES ASSUME NEW j \in 0 .. n PROVE TypeAfter(f, j) \in [gmtOffset : Int, isDst : BOOLEAN]
    OBVIOUS
  <2>1. \A i \in DOMAIN f.types : f.types[i] \in [gmtOffset : Int, isDst : BOOLEAN]
    <3>1. f.types \in Seq([gmtOffset : Int, isDst : BOOLEAN])
      BY Zenon DEF ZoneFile
    <3> DEFINE S == [gmtOffset : Int, isDst : BOOLEAN]
    <3>2. f.types \in Seq(S)
      BY <3>1
    <3> HIDE DEF S
    <3>3. \A i \in DOMAIN f.types : f.types[i] \in S
      BY <3>2, SeqElements, Zenon
    <3> QED
      BY <3>3, Zenon DEF S
  <2>2. 1 \in DOMAIN f.types
    <3>1. f.types \in Seq([gmtOffset : Int, isDst : BOOLEAN]) /\ f.types # <<>>
      BY DEF ZoneFile
    <3> QED
      BY <3>1
  <2>3. j # 0 => j \in 1 .. n
    BY <1>0
  <2> QED
    BY <2>1, <2>2, <2>3, <1>3, Zenon DEF TypeAfter
<1>6. \A j \in 0 .. n : TypeFrom(data, j).gmtOffset \in Int /\ TypeFrom(data, j).isDst \in BOOLEAN
  BY <1>4, <1>5
<1>7. \A k \in 1 .. n : k \in 0 .. n /\ k - 1 \in 0 .. n /\ k # 0
  BY <1>0
<1>8. \A k \in 1 .. n :
       /\ data.transitions[k].gmttime \in Int
       /\ data.transitions[k].localtime = data.transitions[k].gmttime + TypeFrom(data, k).gmtOffset
  BY <1>1, <1>3, <1>7, Zenon DEF TypeFrom
<1>9. \A k, m \in 1 .. n : k < m =>
       /\ data.transitions[k].gmttime + HourUnits < data.transitions[m].gmttime
       /\ data.transitions[k].localtime < data.transitions[m].localtime
  <2> SUFFICES ASSUME NEW k \in 1 .. n, NEW m \in 1 .. n, k < m
               PROVE  /\ data.transitions[k].gmttime + HourUnits < data.transitions[m].gmttime
                      /\ data.transitions[k].localtime < data.transitions[m].localtime
    OBVIOUS
  <2>1. /\ f.trans[k].at + HourUnits < f.trans[m].at
        /\ f.trans[k].at + TypeAfter(f, k).gmtOffset < f.trans[m].at + TypeAfter(f, m).gmtOffset
    BY <1>0, Zenon DEF ZoneFile
  <2> QED
    BY <1>3, <1>7, <2>1, Zenon DEF TypeAfter
<1>10. \A k \in 1 .. n :
       TypeFrom(data, k).gmtOffset < TypeFrom(data, k - 1).gmtOffset =>
         /\ TypeFrom(data, k - 1).isDst /\ ~TypeFrom(data, k).isDst
         /\ TypeFrom(data, k - 1).gmtOffset = TypeFrom(data, k).gmtOffset + HourUnits
  BY <1>0, <1>4, <1>7, Zenon DEF ZoneFile
<1>11. (n = 0 => data.transitions = <<>>) /\ (n # 0 => data.transitions # <<>>)
  <2>1. data.transitions \in Seq({Read(k) : k \in 1 .. n})
    <3> HIDE DEF Read
    <3> QED
      BY <1>0, <1>1
  <2> QED
    BY <1>2, <2>1, SeqElements, Zenon
<1>12. GoodZone(data)
  BY <1>0, <1>2, <1>6, <1>8, <1>9, <1>10, <1>11, Zenon DEF GoodZone
<1> QED
  BY <1>12 DEF data

(* So does TimeZone(eastOfUtc, name). *)
LEMMA FixedZoneGood ==
  ASSUME NEW k \in Int
  PROVE  GoodZone(Z!FixedZone(k))
<1>1. /\ Z!FixedZone(k).transitions = <<>>
      /\ Z!FixedZone(k).localtimes[1] = [gmtOffset |-> k, isDst |-> FALSE]
  BY DEF Z!FixedZone, Z!Localtime
<1>2. Len(Z!FixedZone(k).transitions) = 0 /\ DOMAIN Z!FixedZone(k).transitions = 1 .. 0
  BY <1>1
<1> QED
  BY <1>1, <1>2 DEF GoodZone, TypeFrom

(* The last transition at or before a key is the j-th *)
LastIs(data, key, gmt, j) ==
  /\ j \in 0 .. Len(data.transitions)
  /\ \A k \in 1 .. Len(data.transitions) :
       /\ k <= j => Z!Key(data.transitions[k], gmt) <= key
       /\ j < k => key < Z!Key(data.transitions[k], gmt)

(* The keys that Comp compares are in order. *)
KeysInOrder(data, gmt) ==
  /\ Len(data.transitions) \in Nat
  /\ Len(data.transitions) = 0 => data.transitions = <<>>
  /\ Len(data.transitions) # 0 => data.transitions # <<>>
  /\ \A k \in 1 .. Len(data.transitions) : Z!Key(data.transitions[k], gmt) \in Int
  /\ \A k, m \in 1 .. Len(data.transitions) :
       k < m => Z!Key(data.transitions[k], gmt) < Z!Key(data.transitions[m], gmt)

(* They are, in UTC and in local time. *)
LEMMA GoodZoneKeys ==
  ASSUME NEW data, GoodZone(data), NEW gmt \in BOOLEAN
  PROVE  KeysInOrder(data, gmt)
<1>1. \A k \in 1 .. Len(data.transitions) : k \in 0 .. Len(data.transitions)
  BY DEF GoodZone
<1>2. \A k \in 1 .. Len(data.transitions) : data.transitions[k].gmttime \in Int /\
    data.transitions[k].localtime \in Int
  BY <1>1 DEF GoodZone
<1>3. \A k, m \in 1 .. Len(data.transitions) : k < m =>
    data.transitions[k].gmttime < data.transitions[m].gmttime
  BY <1>2, TimeZoneAssumption DEF GoodZone
<1> QED
  BY <1>2, <1>3 DEF GoodZone, KeysInOrder, Z!Key

(* There is a last transition at or before a time, or none. *)
LEMMA LastExists ==
  ASSUME NEW data, NEW gmt, KeysInOrder(data, gmt), NEW key \in Int
  PROVE  \E j : LastIs(data, key, gmt, j)
<1> DEFINE n == Len(data.transitions)
           K(k) == Z!Key(data.transitions[k], gmt)
           T == {j \in Nat : j <= n /\ \A k \in 1 .. n : k > j => key < K(k)}
<1>1. n \in Nat /\ (\A k \in 1 .. n : K(k) \in Int) /\ \A k, m \in 1 .. n : k < m => K(k) < K(m)
  BY DEF KeysInOrder
<1> HIDE DEF n, K
<1>2. n \in T
  BY <1>1
<1>3. PICK j \in T : \A i \in T : j <= i
  <2> HIDE DEF T
  <2>1. T \in SUBSET Nat
    BY DEF T
  <2> QED
    BY <1>2, <2>1, LeastNatural
<1>4. j \in Nat /\ j <= n /\ \A k \in 1 .. n : k > j => key < K(k)
  OBVIOUS
<1>5. j # 0 => K(j) <= key
  <2> SUFFICES ASSUME j # 0, ~(K(j) <= key) PROVE FALSE
    OBVIOUS
  <2>1. j \in 1 .. n /\ key < K(j)
    BY <1>1, <1>4
  <2>2. j - 1 \in T
    BY <1>1, <1>4, <2>1
  <2> QED
    BY <1>3, <1>4, <2>2
<1>6. ASSUME NEW k \in 1 .. n PROVE (k <= j => K(k) <= key) /\ (j < k => key < K(k))
  <2>1. CASE k = j
    BY <2>1, <1>4, <1>5
  <2>2. CASE k < j
    <3>1. j \in 1 .. n
      BY <2>2, <1>1, <1>4
    <3>2. K(k) < K(j) /\ K(k) \in Int /\ K(j) \in Int /\ K(j) <= key
      BY <3>1, <2>2, <1>1, <1>5
    <3> QED
      BY <3>2, <2>2, <1>4, <1>1
  <2>3. CASE k > j
    BY <2>3, <1>4
  <2> QED
    BY <2>1, <2>2, <2>3, <1>1, <1>4
<1>7. LastIs(data, key, gmt, j)
  BY <1>1, <1>4, <1>6 DEF LastIs, n, K
<1> QED
  BY <1>7

(* findLocaltime (TimeZone.cc:142-178) finds the last transition at or       *)
(* before the key, with lower_bound.                                         *)
LEMMA FindIs ==
  ASSUME NEW data, NEW gmt, KeysInOrder(data, gmt), NEW key \in Int, NEW j,
      LastIs(data, key, gmt, j)
  PROVE  Z!FindLocaltime(data, key, gmt) = TypeFrom(data, j)
<1> DEFINE n == Len(data.transitions)
           K(k) == Z!Key(data.transitions[k], gmt)
<1>1. n \in Nat /\ (\A k \in 1 .. n : K(k) \in Int) /\ \A k, m \in 1 .. n : k < m => K(k) < K(m)
  BY DEF KeysInOrder
<1>2. j \in 0 .. n /\ \A k \in 1 .. n : (k <= j => K(k) <= key) /\ (j < k => key < K(k))
  BY DEF LastIs
<1>3. CASE j = 0
  <2>1. data.transitions = <<>> \/ key < K(1)
    BY <1>1, <1>2, <1>3 DEF KeysInOrder
  <2> QED
    BY <1>3, <2>1 DEF Z!FindLocaltime, TypeFrom
<1>4. CASE j # 0
  <2> DEFINE First(k) == /\ k <= n => K(k) >= key
                         /\ \A m \in 1 .. k - 1 : K(m) < key
             low == Z!LowerBound(data, key, gmt)
             place == IF low <= n /\ K(low) = key THEN low ELSE low - 1
  <2>1. j \in 1 .. n /\ K(j) <= key /\ K(j) \in Int /\ 1 \in 1 .. n /\ K(1) <= key /\ K(1) \in Int
    BY <1>1, <1>2, <1>4
  <2>2. ~(data.transitions = <<>> \/ key < K(1))
    BY <2>1, <1>1 DEF KeysInOrder
  <2>3. low = CHOOSE k \in 1 .. n + 1 : First(k)
    BY DEF Z!LowerBound
  <2>4. Z!FindLocaltime(data, key, gmt) = data.localtimes[data.transitions[place].localtimeIdx]
    BY <2>2, Zenon DEF Z!FindLocaltime
  <2> HIDE DEF n, K, low
  <2>5. \E k \in 1 .. n + 1 : First(k)
    <3>1. CASE K(j) = key
      <4>1. First(j)
        BY <1>1, <1>2, <2>1, <3>1
      <4> QED
        BY <4>1, <2>1, <1>1
    <3>2. CASE K(j) # key
      <4>1. K(j) < key
        BY <3>2, <2>1
      <4>2. \A m \in 1 .. j : K(m) < key
        <5> SUFFICES ASSUME NEW m \in 1 .. j PROVE K(m) < key
          OBVIOUS
        <5>1. m \in 1 .. n /\ (m = j \/ m < j)
          BY <2>1, <1>1
        <5> QED
          BY <5>1, <4>1, <1>1, <2>1
      <4>3. j + 1 <= n => K(j + 1) >= key
        <5> SUFFICES ASSUME j + 1 <= n PROVE K(j + 1) >= key
          OBVIOUS
        <5>1. j + 1 \in 1 .. n /\ ~(j + 1 <= j)
          BY <1>1, <2>1
        <5>2. key < K(j + 1) /\ K(j + 1) \in Int
          BY <5>1, <1>1, <1>2
        <5> QED
          BY <5>2
      <4>4. j + 1 \in 1 .. n + 1 /\ (j + 1) - 1 = j
        BY <1>1, <2>1
      <4>5. First(j + 1)
        <5>1. \A m \in 1 .. (j + 1) - 1 : K(m) < key
          BY <4>2, <4>4
        <5> QED
          BY <4>3, <5>1
      <4> QED
        BY <4>4, <4>5
    <3> QED
      BY <3>1, <3>2
  <2>6. low \in 1 .. n + 1 /\ First(low)
    <3> HIDE DEF First
    <3> QED
      BY <2>3, <2>5
  <2>7. place = j
    <3>1. CASE low <= j
      <4>1. low \in 1 .. n
        BY <3>1, <2>1, <2>6, <1>1
      <4>2. K(low) = key
        BY <4>1, <3>1, <1>1, <1>2, <2>6
      <4>3. low = j
        <5> SUFFICES ASSUME low < j PROVE FALSE
          BY <3>1, <4>1, <2>1
        <5>1. K(low) < K(j)
          BY <4>1, <2>1, <1>1
        <5> QED
          BY <5>1, <4>2, <2>1
      <4> QED
        BY <4>1, <4>2, <4>3, <1>1
    <3>2. CASE low > j
      <4>1. low = j + 1
        <5> SUFFICES ASSUME low > j + 1 PROVE FALSE
          BY <3>2, <2>1, <2>6, <1>1
        <5>1. j + 1 \in 1 .. low - 1 /\ j + 1 \in 1 .. n /\ ~(j + 1 <= j)
          BY <2>1, <2>6, <1>1
        <5>2. K(j + 1) < key /\ key < K(j + 1) /\ K(j + 1) \in Int
          BY <5>1, <2>6, <1>1, <1>2
        <5> QED
          BY <5>2
      <4>2. ~(low <= n /\ K(low) = key)
        <5> SUFFICES ASSUME low <= n, K(low) = key PROVE FALSE
          OBVIOUS
        <5>1. low \in 1 .. n /\ ~(low <= j)
          BY <2>6, <3>2, <2>1, <1>1
        <5>2. key < K(low)
          BY <5>1, <1>2
        <5> QED
          BY <5>2
      <4> QED
        BY <4>1, <4>2, <2>1
    <3> QED
      BY <3>1, <3>2, <2>1, <2>6, <1>1
  <2> QED
    BY <2>4, <2>7, <1>4, ZenonT(60) DEF TypeFrom
<1> QED
  BY <1>3, <1>4


(* So does the reference definition. *)
LEMMA TypeAtIs ==
  ASSUME NEW data, GoodZone(data), NEW t \in Int, NEW j, LastIs(data, t, TRUE, j)
  PROVE  Z!TypeAt(data, t) = TypeFrom(data, j)
<1> DEFINE n == Len(data.transitions)
           before == {k \in DOMAIN data.transitions : data.transitions[k].gmttime <= t}
<1>1. /\ n \in Nat /\ DOMAIN data.transitions = 1 .. n
      /\ \A k \in 1 .. n : data.transitions[k].gmttime \in Int
  BY Zenon DEF GoodZone
<1>2. /\ j \in 0 .. n
      /\ \A k \in 1 .. n : (k <= j => data.transitions[k].gmttime <= t) /\
          (j < k => t < data.transitions[k].gmttime)
  BY DEF LastIs, Z!Key
<1>3. Z!TypeAt(data, t) = IF before = {} THEN data.localtimes[1]
        ELSE data.localtimes[data.transitions[CHOOSE k \in before : \A m \in before :
            m <= k].localtimeIdx]
  BY DEF Z!TypeAt
<1>4. before = 1 .. j
  BY <1>1, <1>2
<1> HIDE DEF before, n
<1>5. CASE j = 0
  <2>1. before = {}
    BY <1>4, <1>5
  <2> QED
    BY <1>3, <1>5, <2>1 DEF TypeFrom
<1>6. CASE j # 0
  <2> DEFINE c == CHOOSE k \in before : \A m \in before : m <= k
  <2>1. j \in before /\ \A m \in before : m <= j
    BY <1>2, <1>1, <1>4, <1>6
  <2>2. c \in before /\ \A m \in before : m <= c
    BY <2>1
  <2> HIDE DEF c
  <2>3. c = j
    BY <2>1, <2>2, <1>4, <1>2, <1>1
  <2> QED
    BY <1>3, <1>6, <2>1, <2>3, Zenon DEF TypeFrom, c
<1> QED
  BY <1>5, <1>6

(* toLocalTime, by that transition. *)
LEMMA LocalTimeIs ==
  ASSUME NEW data, GoodZone(data), NEW t \in Int, NEW j, LastIs(data, t, TRUE, j)
  PROVE  Z!ToLocalTime(data, t) = [day |-> (t + TypeFrom(data, j).gmtOffset) \div DayUnits,
                                 hm |-> (t + TypeFrom(data, j).gmtOffset) % DayUnits,
                                 tm_isdst |-> TypeFrom(data, j).isDst]
<1>1. KeysInOrder(data, TRUE)
  BY GoodZoneKeys, Zenon
<1>2. Z!FindLocaltime(data, t, TRUE) = TypeFrom(data, j)
  BY <1>1, FindIs, Zenon
<1> QED
  BY <1>2, Zenon DEF Z!ToLocalTime, Z!Gmtime

(* timegm is the inverse of gmtime. *)
LEMMA TimegmIs ==
  ASSUME NEW x \in Int, NEW b
  PROVE  Z!Timegm([day |-> x \div DayUnits, hm |-> x % DayUnits, tm_isdst |-> b]) = x
BY TimeZoneAssumption DEF Z!Timegm

(* The local time of t is found again *)
LEMMA RoundTrip ==
  ASSUME NEW data, GoodZone(data), NEW t \in Int
  PROVE  Z!FromLocalTime(data, Z!ToLocalTime(data, t)) = t
<1> DEFINE n == Len(data.transitions)
           G(k) == data.transitions[k].gmttime
           K(k) == data.transitions[k].localtime
           o(k) == TypeFrom(data, k).gmtOffset
           dst(k) == TypeFrom(data, k).isDst
<1>1. KeysInOrder(data, TRUE) /\ KeysInOrder(data, FALSE)
  BY GoodZoneKeys, Zenon
<1>2. PICK j : LastIs(data, t, TRUE, j)
  BY <1>1, LastExists, Zenon
<1>3. n \in Nat /\ j \in 0 .. n /\ \A k \in 1 .. n : (k <= j => G(k) <= t) /\ (j < k => t < G(k))
  BY <1>2 DEF LastIs, Z!Key, GoodZone
<1>4. /\ \A k \in 0 .. n : o(k) \in Int /\ dst(k) \in BOOLEAN
      /\ \A k \in 1 .. n : G(k) \in Int /\ K(k) = G(k) + o(k)
      /\ \A k, m \in 1 .. n : k < m => G(k) + HourUnits < G(m) /\ K(k) < K(m)
      /\ \A k \in 1 .. n : o(k) < o(k - 1) => dst(k - 1) /\ ~dst(k) /\ o(k - 1) = o(k) + HourUnits
  BY Zenon DEF GoodZone
<1>5. HourUnits \in Nat
  BY TimeZoneAssumption
<1> DEFINE x == t + o(j)
           tm == Z!ToLocalTime(data, t)
<1>6. x \in Int /\ tm = [day |-> x \div DayUnits, hm |-> x % DayUnits, tm_isdst |-> dst(j)]
  <2>1. tm = [day |-> x \div DayUnits, hm |-> x % DayUnits, tm_isdst |-> dst(j)]
    BY <1>2, LocalTimeIs, Zenon
  <2>2. o(j) \in Int
    BY <1>3, <1>4
  <2> QED
    BY <2>1, <2>2
<1>7. Z!Timegm(tm) = x
  BY <1>6, TimegmIs
<1>8. \A i, y : y \in Int /\ LastIs(data, y, FALSE, i) =>
    Z!FindLocaltime(data, y, FALSE).gmtOffset = o(i)
  BY <1>1, FindIs, Zenon
<1>9. \A i : LastIs(data, x, FALSE, i) <=>
    i \in 0 .. n /\ \A k \in 1 .. n : (k <= i => K(k) <= x) /\ (i < k => x < K(k))
  BY DEF LastIs, Z!Key
<1>10. \A i, y : LastIs(data, y, TRUE, i) <=>
    i \in 0 .. n /\ \A k \in 1 .. n : (k <= i => G(k) <= y) /\ (i < k => y < G(k))
  BY DEF LastIs, Z!Key
<1>11. \A i, y : y \in Int /\ LastIs(data, y, TRUE, i) =>
         Z!ToLocalTime(data, y) =
             [day |-> (y + o(i)) \div DayUnits, hm |-> (y + o(i)) % DayUnits, tm_isdst |-> dst(i)]
  BY LocalTimeIs, Zenon
<1>12. Z!FromLocalTime(data, tm) =
         LET off == Z!FindLocaltime(data, x, FALSE).gmtOffset
         IN  IF tm.tm_isdst /\ ~Z!ToLocalTime(data, x - off).tm_isdst /\
             Z!ToLocalTime(data, x - off).hm = tm.hm
             THEN x - HourUnits - off
             ELSE x - off
  BY <1>7, Zenon DEF Z!FromLocalTime
<1>13. tm.tm_isdst = dst(j) /\ tm.hm = x % DayUnits
  BY <1>6
<1> HIDE DEF n, G, K, o, dst, tm
<1>14. \A k \in 1 .. n : k <= j => K(k) <= x
  <2> SUFFICES ASSUME NEW k \in 1 .. n, k <= j PROVE K(k) <= x
    OBVIOUS
  <2>1. j \in 1 .. n /\ G(j) <= t /\ K(j) = G(j) + o(j) /\ G(j) \in Int /\ o(j) \in Int
    BY <1>3, <1>4
  <2>2. k = j \/ K(k) < K(j)
    BY <1>3, <1>4, <2>1
  <2>3. K(k) \in Int
    BY <1>3, <1>4
  <2> QED
    BY <2>1, <2>2, <2>3
<1>15. CASE \A k \in 1 .. n : j < k => x < K(k)
  <2>1. LastIs(data, x, FALSE, j)
    BY <1>3, <1>9, <1>14, <1>15, Zenon
  <2>2. Z!FindLocaltime(data, x, FALSE).gmtOffset = o(j)
    BY <2>1, <1>6, <1>8, Zenon
  <2>3. x - o(j) = t
    BY <1>3, <1>4
  <2>4. Z!ToLocalTime(data, t).tm_isdst = dst(j)
    BY <1>13 DEF tm
  <2> QED
    <3>1. Z!FromLocalTime(data, tm) = t
      BY <1>12, <1>13, <2>2, <2>3, <2>4, Zenon
    <3> QED
      BY <3>1, Zenon DEF tm
<1>16. CASE ~\A k \in 1 .. n : j < k => x < K(k)
  <2>0. j + 1 \in 1 .. n /\ (j + 1) - 1 = j /\ j \in 0 .. n
    BY <1>16, <1>3
  <2>1. /\ t < G(j + 1) /\ G(j + 1) \in Int /\ K(j + 1) = G(j + 1) + o(j + 1)
        /\ o(j + 1) \in Int /\ o(j) \in Int
    BY <2>0, <1>3, <1>4
  <2>2. \A k \in 1 .. n : j + 1 < k => x < K(k)
    <3> SUFFICES ASSUME NEW k \in 1 .. n, j + 1 < k PROVE x < K(k)
      OBVIOUS
    <3>1. k - 1 \in 1 .. n /\ k \in 0 .. n /\ k - 1 \in 0 .. n
      BY <1>3
    <3>6. /\ j + 2 \in 1 .. n /\ j + 2 \in 0 .. n /\ (j + 2) - 1 = j + 1
          /\ (k = j + 2 \/ j + 2 < k) /\ j + 1 < j + 2
      BY <1>3
    <3>2. /\ G(j + 1) + HourUnits < G(j + 2) /\ G(j + 2) \in Int
          /\ K(j + 2) = G(j + 2) + o(j + 2) /\ o(j + 2) \in Int
      BY <2>0, <3>6, <1>4
    <3>3. o(j + 2) < o(j + 1) => ~dst(j + 2) /\ dst(j + 1) /\ o(j + 1) = o(j + 2) + HourUnits
      <4>1. o(j + 2) < o((j + 2) - 1) =>
          dst((j + 2) - 1) /\ ~dst(j + 2) /\ o((j + 2) - 1) = o(j + 2) + HourUnits
        BY <3>6, <1>4, Zenon
      <4>2. (j + 2) - 1 = j + 1
        BY <3>6
      <4> QED
        BY <4>1, <4>2, Zenon
    <3>4. o(j + 1) < o(j) => dst(j) /\ ~dst(j + 1) /\ o(j) = o(j + 1) + HourUnits
      BY <2>0, <1>4
    <3>5. x < K(j + 2) /\ K(j + 2) \in Int
      BY <2>1, <3>2, <3>3, <3>4, <1>5
    <3>7. k = j + 2 \/ K(j + 2) < K(k)
      BY <3>6, <1>4
    <3>8. K(k) \in Int
      BY <3>1, <1>4
    <3> QED
      BY <3>5, <3>7, <3>8, <1>6
  <2>3. K(j + 1) <= x
    <3> SUFFICES ASSUME x < K(j + 1) PROVE FALSE
      BY <2>1, <1>6
    <3>1. \A k \in 1 .. n : j < k => k = j + 1 \/ j + 1 < k
      BY <1>3
    <3> QED
      BY <3>1, <2>2, <1>16
  <2>4. o(j + 1) < o(j)
    BY <2>1, <2>3
  <2>5. dst(j) /\ ~dst(j + 1) /\ o(j) = o(j + 1) + HourUnits
    BY <2>0, <2>4, <1>4
  <2>6. LastIs(data, x, FALSE, j + 1)
    <3>1. \A k \in 1 .. n : (k <= j + 1 => K(k) <= x) /\ (j + 1 < k => x < K(k))
      <4> SUFFICES ASSUME NEW k \in 1 .. n
          PROVE (k <= j + 1 => K(k) <= x) /\ (j + 1 < k => x < K(k))
        OBVIOUS
      <4>1. k <= j + 1 => k <= j \/ k = j + 1
        BY <1>3
      <4> QED
        BY <4>1, <1>14, <2>2, <2>3, Zenon
    <3>2. j + 1 \in 0 .. n
      BY <2>0
    <3> QED
      BY <3>1, <3>2, <1>9, Zenon
  <2>7. Z!FindLocaltime(data, x, FALSE).gmtOffset = o(j + 1)
    BY <2>6, <1>6, <1>8, Zenon
  <2> DEFINE y == x - o(j + 1)
  <2>8. /\ y = t + HourUnits /\ y \in Int /\ G(j + 1) <= y /\ y + o(j + 1) = x
        /\ x - HourUnits - o(j + 1) = t
    BY <2>1, <2>3, <2>5, <1>5, <1>6
  <2> HIDE DEF y
  <2>9. LastIs(data, y, TRUE, j + 1)
    <3>1. \A k \in 1 .. n : (k <= j + 1 => G(k) <= y) /\ (j + 1 < k => y < G(k))
      <4> SUFFICES ASSUME NEW k \in 1 .. n
          PROVE (k <= j + 1 => G(k) <= y) /\ (j + 1 < k => y < G(k))
        OBVIOUS
      <4>1. CASE k < j + 1
        <5>1. G(k) + HourUnits < G(j + 1) /\ G(k) \in Int
          BY <4>1, <2>0, <1>4
        <5> QED
          BY <4>1, <5>1, <2>1, <2>8, <1>5, <1>3
      <4>2. CASE k = j + 1
        BY <4>2, <2>8, <1>3
      <4>3. CASE k > j + 1
        <5>1. G(j + 1) + HourUnits < G(k) /\ G(k) \in Int
          BY <4>3, <2>0, <1>4
        <5> QED
          BY <4>3, <5>1, <2>1, <2>8, <1>5, <1>3
      <4> QED
        BY <4>1, <4>2, <4>3, <1>3
    <3>2. j + 1 \in 0 .. n
      BY <2>0
    <3> QED
      BY <3>1, <3>2, <1>10, Zenon
  <2>10. Z!ToLocalTime(data, y).tm_isdst = dst(j + 1) /\ Z!ToLocalTime(data, y).hm = x % DayUnits
    <3>1. Z!ToLocalTime(data, y) =
        [day |-> x \div DayUnits, hm |-> x % DayUnits, tm_isdst |-> dst(j + 1)]
      BY <2>8, <2>9, <1>11, Zenon
    <3> QED
      BY <3>1
  <2> QED
    <3>1. Z!FromLocalTime(data, tm) = t
      BY <1>12, <1>13, <2>5, <2>7, <2>8, <2>10, Zenon DEF y
    <3> QED
      BY <3>1, Zenon DEF tm
<1> QED
  BY <1>15, <1>16, Zenon

(* The inductive invariant: the zone is one that was read. *)
ZoneInv == GoodZone(zone) /\ time \in Nat

(* For any zone files whose transitions are more than an hour apart, at      *)
(* every time: toLocalTime goes by the last transition at or before the      *)
(* time, and fromLocalTime (TimeZone.cc:219-245) takes the local time back   *)
(* to it, by tm_isdst in the hour that comes twice.                          *)
THEOREM LocalTimesReturn == Z!Init /\ [][Z!Next]_Z!vars => []LocalRoundTrip
<1>1. Z!Init => ZoneInv
  <2> SUFFICES ASSUME Z!Init PROVE ZoneInv
    OBVIOUS
  <2>1. \A k \in {-5, 8} : k * HourUnits \in Int
    BY TimeZoneAssumption
  <2>2. GoodZone(zone)
    <3>1. CASE zone \in {Z!ReadTimeZoneFile(f) : f \in ZoneFiles}
      BY <3>1, TimeZoneAssumption, ReadZoneGood, Zenon
    <3>2. CASE zone \in {Z!FixedZone(k * HourUnits) : k \in {-5, 8}}
      BY <3>2, <2>1, FixedZoneGood, Zenon
    <3> QED
      BY <3>1, <3>2, Zenon DEF Z!Init
  <2> QED
    BY <2>2 DEF Z!Init, ZoneInv
<1>2. ZoneInv /\ [Z!Next]_Z!vars => ZoneInv'
  <2> SUFFICES ASSUME ZoneInv, [Z!Next]_Z!vars PROVE ZoneInv'
    OBVIOUS
  <2>1. time' \in Nat /\ zone' = zone
    BY DEF ZoneInv, Z!Next, Z!vars
  <2> QED
    BY <2>1, ZenonT(60) DEF ZoneInv, GoodZone, TypeFrom
<1>3. ZoneInv => LocalRoundTrip
  <2> SUFFICES ASSUME ZoneInv PROVE LocalRoundTrip
    OBVIOUS
  <2>1. GoodZone(zone) /\ time \in Int
    BY DEF ZoneInv
  <2>2. Z!LocalRoundTrip
    BY <2>1, RoundTrip DEF Z!LocalRoundTrip
  <2>3. PICK j : LastIs(zone, time, TRUE, j)
    BY <2>1, GoodZoneKeys, LastExists, Zenon
  <2>4. Z!LocalByLastTransition
    <3>1. Z!TypeAt(zone, time) = TypeFrom(zone, j)
      BY <2>1, <2>3, TypeAtIs, Zenon
    <3>2. Z!ToLocalTime(zone, time) = [day |-> (time + TypeFrom(zone, j).gmtOffset) \div DayUnits,
                                     hm |-> (time + TypeFrom(zone, j).gmtOffset) % DayUnits,
                                     tm_isdst |-> TypeFrom(zone, j).isDst]
      BY <2>1, <2>3, LocalTimeIs, Zenon
    <3> QED
      BY <3>1, <3>2, Zenon DEF Z!LocalByLastTransition
  <2> QED
    BY <2>2, <2>4 DEF LocalRoundTrip
<1> QED
  BY <1>1, <1>2, <1>3, PTL

==============================================================================
