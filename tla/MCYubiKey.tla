----------------------------- MODULE MCYubiKey -----------------------------
(* Instances of YubiKey.                                                   *)
EXTENDS YubiKey

\* Each way a PIN or a management key may be wrong, and both right.
AllConfigs ==
  {[pin |-> p, managementKey |-> m] : p \in {"right", "wrong", "impossible"}, m \in {"right", "none"}}
  \cup {[pin |-> "none", managementKey |-> "right"], [pin |-> "right", managementKey |-> "wrong"],
        [pin |-> "right", managementKey |-> "malformed"]}
=============================================================================
