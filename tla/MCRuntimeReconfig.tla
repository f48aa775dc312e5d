-------------------------- MODULE MCRuntimeReconfig --------------------------
(* A small instance of RuntimeReconfig for TLC. *)
EXTENDS RuntimeReconfig, TLC

\* A form with two switches; one whose second value is refused (400); one
\* whose only choice is unknown, and is skipped.
Forms == { "TRADING_ENABLED" :> "on" @@ "SCHEDULER_ENABLED" :> "off",
           "TRADING_ENABLED" :> "off" @@ "LLM_TIER1_CONCURRENCY" :> "odd",
           "ORDER_SUBMISSION_MODE" :> "odd" }
Switchings == { "NEWS_POLL_ENABLED" :> "odd" }

BoolKeys   == Switches
NumberKeys == {"LLM_TIER1_CONCURRENCY"}
ChoiceKeys == {"ORDER_SUBMISSION_MODE"}
=============================================================================
