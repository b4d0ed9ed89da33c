------------------------------ MODULE Logging -------------------------------
(***************************************************************************)
(* The log (libutils/src/logging.c, core/src/logging): the kernel and, by  *)
(* a system call, every task log into one stream, in which repeated        *)
(* messages are counted instead of written.  A text is a sequence of       *)
(* characters, short here; no format of the kernel gives an empty one.     *)
(*                                                                         *)
(* A reader adds up the log: a line counts for its text, a line ">> last   *)
(* message repeat more n times" n times for the text before it.            *)
(***************************************************************************)
EXTENDS Integers, Sequences, SequencesExt, FiniteSetsExt, TLC

CONSTANTS
  Tasks,       \* names that differ in their texts
  Messages,    \* what is logged
  LOGGING_AGGREGATE_MESSAGES,    \* at least 2
  MaxLogged    \* bound: messages that passed the level

LOG_TRACE == 0
LOG_INFO == 2
LOG_FATAL == 5
Levels == LOG_TRACE .. LOG_FATAL

VARIABLES
  level, quiet,               \* L
  last_message, repetitions,
  logged,    \* how often each text was logged while it was to be written
  shown      \* how often the log shows it
gvars == <<level, quiet, last_message, repetitions, logged, shown>>

\* "[%s]: %s" of a task, or the text alone
Text(who, message) == IF who = "kernel" THEN message ELSE <<who>> \o message
AllTexts == {Text(who, message) : who \in Tasks \cup {"kernel"}, message \in Messages}

\* strncmp(text, last_message, text_size) = 0
Same(text) == IsPrefix(text, last_message)

\* the count of the repetitions, then the text
Write(text, held) ==
  LET counted == IF held > 0 THEN [shown EXCEPT ![last_message] = @ + held] ELSE shown
  IN shown' = [counted EXCEPT ![text] = @ + 1]

\* faulty: the count is off by one
should_write_OneMore(text) ==
  IF Same(text) /\ repetitions < LOGGING_AGGREGATE_MESSAGES
  THEN /\ repetitions' = repetitions + 1
       /\ UNCHANGED <<last_message, shown>>
  ELSE /\ Write(text, IF repetitions > 1 THEN repetitions ELSE 0)
       /\ last_message' = text
       /\ repetitions' = 1

should_write(text) ==
  IF Same(text) /\ repetitions < LOGGING_AGGREGATE_MESSAGES
  THEN /\ repetitions' = repetitions + 1
       /\ UNCHANGED <<last_message, shown>>
  ELSE /\ Write(text, IF repetitions > 1 THEN repetitions - 1 ELSE 0)
       /\ last_message' = text
       /\ repetitions' = 1

Sum(f) == MapThenSumSet(LAMBDA t : f[t], AllTexts)

logging(l, text) ==
  /\ Sum(logged) < MaxLogged
  /\ IF l < level \/ quiet
     THEN UNCHANGED <<last_message, repetitions, logged, shown>>
     ELSE should_write(text) /\ logged' = [logged EXCEPT ![text] = @ + 1]
  /\ UNCHANGED <<level, quiet>>

\* the kernel's own messages, and those of the system call
KernelLogs(l, message) == logging(l, Text("kernel", message))
syscall_handler_logging(task, l, message) == logging(l, Text(task, message))

log_set_level(l) == level' = l /\ UNCHANGED <<quiet, last_message, repetitions, logged, shown>>
log_set_quiet(enable) == quiet' = enable /\ UNCHANGED <<level, last_message, repetitions, logged, shown>>

\* before anything was logged the last message is empty
Init == /\ level = LOG_TRACE /\ quiet = FALSE
        /\ last_message = <<>> /\ repetitions = 0
        /\ logged = [t \in AllTexts |-> 0] /\ shown = [t \in AllTexts |-> 0]

Next == \/ \E l \in {LOG_INFO, LOG_FATAL}, message \in Messages : KernelLogs(l, message)
        \/ \E task \in Tasks, message \in Messages : syscall_handler_logging(task, LOG_INFO, message)
        \/ \E l \in {LOG_TRACE, LOG_FATAL} : log_set_level(l)
        \/ \E enable \in BOOLEAN : log_set_quiet(enable)

Spec == Init /\ [][Next]_gvars

(***************************************************************************)
(* Properties                                                              *)
(***************************************************************************)

\* what is held back: repetitions of the last message that were not written
Held == IF repetitions > 1 THEN repetitions - 1 ELSE 0
HeldFor(text) == IF text = last_message THEN Held ELSE 0

\* should_write ("Verify if the next message is equal to the lastest one",
\* logging.c:40): of each text, the log shows or holds back as many as were
\* logged.
EachTextCounted == \A t \in AllTexts : logged[t] = shown[t] + HeldFor(t)

\* should_write: across texts, limits, and times when the log was quiet, every
\* message is counted, for itself or, when it is the beginning of the last
\* message, for that one; so none is lost whose text begins no other.
EveryMessageCounted ==
  /\ Sum(logged) = Sum(shown) + Held
  /\ \A t \in AllTexts : (\A u \in AllTexts : IsPrefix(t, u) => u = t) => logged[t] <= shown[t] + HeldFor(t)

\* should_write: fewer messages are held back than the limit, so that the log
\* is never further behind than that.
HeldBelowLimit == Sum(logged) - Sum(shown) < LOGGING_AGGREGATE_MESSAGES
=============================================================================
