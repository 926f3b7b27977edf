---------------------------- MODULE MCCredentials ----------------------------
(* Two streams that share a cache, with all ways to solve a captcha; two   *)
(* that have a cache each and only the manual one.                         *)
EXTENDS Credentials

MCStreams == {0, 1}
MCConfigs == {[streamsPerCache |-> 2, manualCaptcha |-> FALSE],
              [streamsPerCache |-> 1, manualCaptcha |-> TRUE]}
=============================================================================
