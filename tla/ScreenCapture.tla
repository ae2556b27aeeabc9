--------------------------- MODULE ScreenCapture ---------------------------
(***************************************************************************)
(* Pictures of a Mac's screen: the sender (scripts/capture-screen.sh), the *)
(* receiver and its store (integrations/screen-capture), the consumer that *)
(* makes agent jobs of full batches (features/screen-capture.ts,           *)
(* screen-capture-summary.ts) and of closed days                           *)
(* (screen-capture-daily-summary.ts), and the callbacks of the ended jobs. *)
(***************************************************************************)
EXTENDS Naturals, FiniteSets, FiniteSetsExt

CONSTANTS
  Captures,    \* 1 .. n, in the order they are taken
  Day,         \* Day[c] \in 1 .. m, the day a picture was taken (JST)
  Broken,      \* those that magick cannot decode
  Limit,       \* settings.limit
  MaxFaults    \* bound: failures, lost answers, crashes and GC runs

VARIABLES
  shot,        \* the row of a picture: "none" (no row), "pending",
               \* "described" (a summary, not completed), "accepted", "rejected"
  held,        \* the PNGs the sender keeps until they are acknowledged
  taken,       \* how many were taken
  days,        \* screen_capture_days
  watermark,   \* screen_capture_daily_progress
  batch,       \* the last batch job: its captures and status
  report,      \* report[d]: status of the daily job with the key of day d
  callbacks,   \* the ended jobs whose terminal callback is to come
  consumer,    \* createSummaryConsumer: where it is, and its signal
  excused,     \* history: a failure left a full batch behind
  late,        \* history: stored when a report had begun that covers them
  faults

vars == <<shot, held, taken, days, watermark, batch, report, callbacks,
          consumer, excused, late, faults>>
sender == <<held, taken>>

Days == {Day[c] : c \in Captures}
Pending == {c \in Captures : shot[c] \in {"pending", "described"}}
Through(d) == {c \in Captures : Day[c] <= d}
Settled == {"completed", "dead_letter"}

Fault == faults < MaxFaults /\ faults' = faults + 1

(* The application starts, and consumes what is pending. *)
Awake == [at |-> "batch", signaled |-> FALSE, ids |-> {}, date |-> 0]

Init ==
  /\ shot = [c \in Captures |-> "none"] /\ held = {} /\ taken = 0
  /\ days = {} /\ watermark = 0
  /\ batch = [ids |-> {}, status |-> "none"] /\ report = [d \in Days |-> "none"]
  /\ callbacks = {} /\ consumer = Awake /\ excused = FALSE
  /\ late = {} /\ faults = 0

-----------------------------------------------------------------------------
(* The sender and the receiver *)

(* Mutant: the signal that comes while a batch is made is forgotten. *)
MutantWake == IF consumer.at = "idle" THEN consumer' = Awake ELSE UNCHANGED consumer

(* A call of the consumer starts it, or makes it go round again. *)
Wake == consumer' = IF consumer.at = "idle" THEN Awake
                    ELSE [consumer EXCEPT !.signaled = TRUE]

(* A start is a fresh attempt of whatever failed before. *)
Excuse == excused' = (excused /\ consumer.at # "idle")

Shoot(c) ==
  /\ c = taken + 1
  /\ taken' = c /\ held' = held \cup {c}
  /\ UNCHANGED <<shot, days, watermark, batch, report, callbacks, consumer,
                 excused, late, faults>>

(* POST: the row and its day are committed before the answer; the sender   *)
(* deletes the picture when it has the answer.  Sent again, the row stays  *)
(* as it is.                                                               *)
Send(c) ==
  /\ c \in held
  /\ \/ held' = held \ {c} /\ UNCHANGED faults
     \/ Fault /\ UNCHANGED held
  /\ IF shot[c] = "none"
     THEN /\ shot' = [shot EXCEPT ![c] = "pending"]
          /\ days' = days \cup {Day[c]}
          /\ late' = IF Day[c] <= watermark \/
                        \E d \in Days : d >= Day[c] /\ report[d] # "none"
                     THEN late \cup {c} ELSE late \ {c}
          /\ Wake /\ Excuse
     ELSE UNCHANGED <<shot, days, late, consumer, excused>>
  /\ UNCHANGED <<taken, watermark, batch, report, callbacks>>

(* cleanupExpiredCaptures, a day after the row was completed: no trace of  *)
(* the picture but its day is left.                                        *)
Collect(c) ==
  /\ shot[c] \in {"accepted", "rejected"}
  /\ shot' = [shot EXCEPT ![c] = "none"]
  /\ Fault
  /\ UNCHANGED <<sender, days, watermark, batch, report, callbacks, consumer,
                 excused, late>>

-----------------------------------------------------------------------------
(* summarizeScreenCaptureBatch *)

Oldest == {c \in Pending : Cardinality({b \in Pending : b < c}) < Limit}

Select ==
  /\ consumer.at = "batch"
  /\ consumer' = IF batch.status = "active" \/ Cardinality(Pending) < Limit
                 THEN [consumer EXCEPT !.at = "days"]
                 ELSE [consumer EXCEPT !.at = "check", !.ids = Oldest]
  /\ UNCHANGED <<shot, sender, days, watermark, batch, report, callbacks,
                 excused, late, faults>>

(* The pictures are written and looked at one by one.  What cannot be      *)
(* decoded is completed, and another batch is looked for.  A row that a    *)
(* late callback has completed meanwhile, or a failure of the machine,     *)
(* ends the attempt; those rejected before it stay rejected.               *)
Check ==
  /\ consumer.at = "check"
  /\ \/ /\ consumer.ids \subseteq Pending
        /\ shot' = [c \in Captures |->
                      IF c \in consumer.ids \cap Broken THEN "rejected" ELSE shot[c]]
        /\ consumer' = [consumer EXCEPT
             !.at = IF consumer.ids \cap Broken = {} THEN "describe" ELSE "batch"]
        /\ UNCHANGED <<excused, faults>>
     \/ /\ IF consumer.ids \subseteq Pending THEN Fault ELSE UNCHANGED faults
        /\ \E n \in consumer.ids :
             shot' = [c \in Captures |->
               IF c \in consumer.ids \cap Broken \cap Pending /\ c < n
               THEN "rejected" ELSE shot[c]]
        /\ consumer' = [consumer EXCEPT !.at = "days"]
        /\ excused' = TRUE
  /\ UNCHANGED <<sender, days, watermark, batch, report, callbacks, late>>

(* Every picture without a summary gets one, or its call fails; a job is   *)
(* made when all of them have one and are not completed meanwhile.         *)
Describe ==
  /\ consumer.at = "describe"
  /\ LET missing == {c \in consumer.ids : shot[c] = "pending"} IN
     \E ok \in SUBSET missing :
       /\ shot' = [c \in Captures |-> IF c \in ok THEN "described" ELSE shot[c]]
       /\ IF ok = missing THEN UNCHANGED <<faults, excused>>
          ELSE Fault /\ excused' = TRUE
       /\ batch' = IF \A c \in consumer.ids : shot'[c] = "described"
                   THEN [ids |-> consumer.ids, status |-> "active"] ELSE batch
  /\ consumer' = [consumer EXCEPT !.at = "days"]
  /\ UNCHANGED <<sender, days, watermark, report, callbacks, late>>

-----------------------------------------------------------------------------
(* enqueueScreenCaptureDailySummary *)

(* The days that a later one has closed, beyond the last success *)
Closed == {d \in days : d > watermark /\ \E e \in days : e > d}

(* Those that were reported by a job whose callback never came *)
Recovered == {d \in Closed : \A e \in Closed : e <= d => report[e] = "completed"}

(* The loop of the consumer goes round, or ends. *)
Round ==
  /\ consumer' = IF consumer.signaled THEN Awake ELSE [Awake EXCEPT !.at = "idle"]
  /\ excused' = (excused /\ ~consumer.signaled)

LookAtDays ==
  /\ consumer.at = "days"
  /\ watermark' = Max({watermark} \cup Recovered)
  /\ LET next == Closed \ Recovered
         d == Min(next)
     IN IF next # {} /\ report[d] # "active" /\ Pending \cap Through(d) = {}
        THEN consumer' = [consumer EXCEPT !.at = "report", !.date = d] /\ UNCHANGED excused
        ELSE Round
  /\ UNCHANGED <<shot, sender, days, batch, report, callbacks, late, faults>>

(* Mutant: what came during the await is not looked for. *)
MutantStillWhole(d) == TRUE

(* Another upload may have been committed while the job was prepared. *)
StillWhole(d) == Pending \cap Through(d) = {}

Report ==
  /\ consumer.at = "report"
  /\ \/ /\ report' = IF StillWhole(consumer.date)
                     THEN [report EXCEPT ![consumer.date] = "active"] ELSE report
        /\ UNCHANGED faults
     \/ Fault /\ UNCHANGED report
  /\ Round
  /\ UNCHANGED <<shot, sender, days, watermark, batch, callbacks, late>>

-----------------------------------------------------------------------------
(* The jobs in the ledger, and the callbacks of the ended ones *)

BatchEnds(status) ==
  /\ batch.status = "active"
  /\ IF status = "completed" THEN UNCHANGED faults ELSE Fault
  /\ batch' = [batch EXCEPT !.status = status]
  /\ callbacks' = IF status = "completed" THEN callbacks \cup {<<"batch", batch.ids>>}
                  ELSE callbacks
  /\ excused' = (excused \/ status # "completed")
  /\ UNCHANGED <<shot, sender, days, watermark, report, consumer, late>>

ReportEnds(d, status) ==
  /\ report[d] = "active"
  /\ IF status = "completed" THEN UNCHANGED faults ELSE Fault
  /\ report' = [report EXCEPT ![d] = status]
  /\ callbacks' = IF status = "completed" THEN callbacks \cup {<<"report", {d}>>}
                  ELSE callbacks
  /\ UNCHANGED <<shot, sender, days, watermark, batch, consumer, excused, late>>

(* terminal: of a job that succeeded, and it may fail itself. *)
Callback(call) ==
  /\ call \in callbacks
  /\ callbacks' = callbacks \ {call}
  /\ \/ /\ shot' = IF call[1] = "batch"
                   THEN [c \in Captures |-> IF c \in call[2] \cap Pending
                                            THEN "accepted" ELSE shot[c]]
                   ELSE shot
        /\ watermark' = IF call[1] = "report" THEN Max({watermark} \cup call[2])
                        ELSE watermark
        /\ Wake /\ Excuse /\ UNCHANGED faults
     \/ Fault /\ excused' = TRUE /\ UNCHANGED <<shot, watermark, consumer>>
  /\ UNCHANGED <<sender, days, batch, report, late>>

Crash ==
  /\ Fault
  /\ callbacks' = {} /\ consumer' = Awake /\ excused' = FALSE
  /\ UNCHANGED <<shot, sender, days, watermark, batch, report, late>>

-----------------------------------------------------------------------------
Next ==
  \/ \E c \in Captures : Shoot(c) \/ Send(c) \/ Collect(c)
  \/ Select \/ Check \/ Describe \/ LookAtDays \/ Report
  \/ \E s \in Settled : BatchEnds(s) \/ \E d \in Days : ReportEnds(d, s)
  \/ \E call \in callbacks : Callback(call)
  \/ Crash

Spec == Init /\ [][Next]_vars

-----------------------------------------------------------------------------
TypeOK ==
  /\ shot \in [Captures -> {"none", "pending", "described", "accepted", "rejected"}]
  /\ held \subseteq Captures /\ days \subseteq Days /\ watermark \in 0 .. Max(Days)
  /\ batch.ids \subseteq Captures /\ batch.status \in {"none", "active"} \cup Settled
  /\ report \in [Days -> {"none", "active"} \cup Settled]
  /\ consumer.at \in {"idle", "batch", "check", "describe", "days", "report"}
  /\ late \subseteq Captures /\ faults \in 0 .. MaxFaults

(* docs/screen-capture.md:71-77: a full batch never waits for nothing.     *)
(* When the consumer rests and no job of it is at work, whatever upload,   *)
(* callback or failure came while it was busy, fewer than `limit` pictures *)
(* are pending, unless the attempt made of them since failed               *)
(* (features/screen-capture.ts:80-113).                                    *)
NoBatchForgotten ==
  consumer.at = "idle" /\ batch.status # "active" /\ callbacks = {} /\ ~excused
    => Cardinality(Pending) < Limit

(* docs/screen-capture.md:113, 140-142: a day is reported once every       *)
(* picture of it and of the days before is done, except those that came    *)
(* after, though pictures arrive while the job is prepared; and no day is  *)
(* passed over: up to the watermark each was reported, except those that   *)
(* became known below it.                                                  *)
DaysReported ==
  /\ \A d \in Days : report[d] # "none" => Pending \cap Through(d) \subseteq late
  /\ \A d \in days : d <= watermark =>
       report[d] = "completed" \/
       \A c \in Captures : Day[c] = d /\ shot[c] # "none" => c \in late
=============================================================================
