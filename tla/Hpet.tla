-------------------------------- MODULE Hpet --------------------------------
(***************************************************************************)
(* hpet.cpp: find the ACPI table, take the base address, read the period,  *)
(* and busy-wait on the main counter.  Times are small numbers: a reading  *)
(* is computed modulo WordMod (2^64), a microsecond has FsPerUs units      *)
(* (10^9 femtoseconds) and the hardware counter wraps at its own width.    *)
(***************************************************************************)
EXTENDS Naturals, BootMachine

CONSTANTS
  WordMod, FsPerUs,
  Periods,           \* what the period field may hold
  MaxGap,            \* the ticks that pass between two polls, at most
  MaxElapsed,        \* a bound on the history variable elapsed
  Sleeps             \* the arguments of hpet_sleep_us

(* The history variable elapsed can count what a reading can tell apart.   *)
ASSUME HpetAssumption ==
  /\ WordMod \in Nat \ {0} /\ FsPerUs \in Nat \ {0} /\ Sleeps \subseteq Nat /\ MaxGap \in Nat /\ MaxElapsed \in Nat
  /\ \A p \in Periods : p \in Nat /\ (p # 0 => MaxElapsed * p >= WordMod)

VARIABLES
  kHpetBase,         \* whether it is set
  kPeriodFs,
  counter,           \* HPET_MAIN_COUNTER
  sleeper,           \* the call of hpet_sleep_us under way: [at, us, end]
  elapsed            \* history: the ticks since that call began

clockVars == <<kHpetBase, kPeriodFs, counter, sleeper, elapsed>>

acpi == machine.acpi   \* [table, word, period, counterMod]: what the machine answers

Awake == [at |-> "none", us |-> 0, end |-> 0]

(* Static storage; the counter moves on with the first sleep. *)
HpetInit ==
  /\ kHpetBase = FALSE /\ kPeriodFs = 0
  /\ counter = 0
  /\ sleeper = Awake /\ elapsed = 0

-----------------------------------------------------------------------------
(* The base is read 88 bytes into the table, behind its end: word is what  *)
(* lies there.  Where it is not the base of the HPET, the period comes     *)
(* from other memory too, and so does the counter, which stands still.     *)
TableFound == acpi.table
BaseFound == TableFound /\ acpi.word # "zero"

(* Counter ticks per millisecond: a division by kPeriodFs. *)
DividesByZero == BaseFound /\ acpi.period = 0

hpet_init ==
  /\ ~DividesByZero
  /\ kHpetBase' = BaseFound
  /\ kPeriodFs' = IF BaseFound THEN acpi.period ELSE kPeriodFs
  /\ UNCHANGED <<counter, sleeper, elapsed>>

hpet_read_us_Narrow == IF kHpetBase THEN ((counter * kPeriodFs) % (WordMod \div 2)) \div FsPerUs ELSE 0

hpet_read_us == IF kHpetBase THEN ((counter * kPeriodFs) % WordMod) \div FsPerUs ELSE 0

SleepEnd_Short(us) == (hpet_read_us + (us \div 2)) % WordMod
SleepEnd(us) == (hpet_read_us + us) % WordMod

hpet_sleep_us(us) ==
  /\ kHpetBase /\ sleeper.at # "polling"
  /\ sleeper' = [at |-> "polling", us |-> us, end |-> SleepEnd(us)]
  /\ elapsed' = 0
  /\ UNCHANGED <<kHpetBase, kPeriodFs, counter>>

(* Without a base the call returns at once. *)
hpet_sleep_us_NoHpet(us) ==
  /\ ~kHpetBase
  /\ sleeper' = [at |-> "skipped", us |-> us, end |-> 0]
  /\ UNCHANGED <<kHpetBase, kPeriodFs, counter, elapsed>>

(* One more turn of the loop, during which the counter moves on. *)
hpet_sleep_us_Poll ==
  /\ sleeper.at = "polling" /\ hpet_read_us < sleeper.end
  /\ \E gap \in IF acpi.word = "mmio" THEN 1..MaxGap ELSE {0} :
       /\ counter' = (counter + gap) % acpi.counterMod
       /\ elapsed' = IF elapsed + gap < MaxElapsed THEN elapsed + gap ELSE MaxElapsed
  /\ UNCHANGED <<kHpetBase, kPeriodFs, sleeper>>

hpet_sleep_us_Return ==
  /\ sleeper.at = "polling" /\ hpet_read_us >= sleeper.end
  /\ sleeper' = [sleeper EXCEPT !.at = "returned"]
  /\ UNCHANGED <<kHpetBase, kPeriodFs, counter, elapsed>>

Sleep == (\E us \in Sleeps : hpet_sleep_us(us) \/ hpet_sleep_us_NoHpet(us)) \/ hpet_sleep_us_Poll \/ hpet_sleep_us_Return
Wait == hpet_sleep_us_Poll \/ hpet_sleep_us_Return

-----------------------------------------------------------------------------
(* hpet_sleep_us never returns early by a microsecond or more, although    *)
(* readings are rounded down, and even when the counter or the product     *)
(* with the period wraps around while it waits.  The one exception is a    *)
(* sum start + microseconds that does not fit its word.                    *)
SleepsLongEnough ==
  (sleeper.at = "returned" /\ sleeper.us > 0 /\ sleeper.end >= sleeper.us) =>
    elapsed * kPeriodFs > (sleeper.us - 1) * FsPerUs
=============================================================================
