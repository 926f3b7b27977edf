------------------------------ MODULE ClientRun ------------------------------
(***************************************************************************)
(* Run of the client (pkg/clientcore/main.go): the configuration is        *)
(* checked, then one of the two modes runs until the context is cancelled, *)
(* by the caller of Run or by a stream that met a fatal captcha.           *)
(***************************************************************************)
EXTENDS Naturals, Sequences, FiniteSets

VARIABLES
    mode,        \* cfg.VLESSMode: "udp" or "vless"
    run,         \* where Run stands: "config", a stage of the mode, "returned"
    cancelled    \* the context is done

runVars == <<mode, run, cancelled>>

RunInit ==
    /\ mode \in {"udp", "vless"}
    /\ run = "config"
    /\ cancelled = FALSE

\* A setting is missing or wrong, the local address cannot be used, or -no-dtls was
\* given: Run returns an error, and with it ends its context.
ConfigFails ==
    /\ run = "config"
    /\ run' = "returned" /\ cancelled' = TRUE
    /\ UNCHANGED mode

\* The caller of Run cancels its context.
Cancel ==
    /\ ~cancelled
    /\ cancelled' = TRUE
    /\ UNCHANGED <<mode, run>>
=============================================================================
