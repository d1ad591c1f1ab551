----------------------------- MODULE MCProvisioning -----------------------------
(* Instances of Provisioning for TLC.                                      *)
EXTENDS Provisioning

const_Client == {"front", "normal"}

\* One schema with TLS and one without.
const_Schemas == {"mqtt", "wss"}

\* Requests that can be made, and one that lacks its token.
const_Provisions ==
  {[type |-> "MQTT_BASIC", fields |-> {"key", "secret", "username"}],
   [type |-> "X509_CERTIFICATE", fields |-> {"key", "secret", "hash"}],
   [type |-> "ACCESS_TOKEN", fields |-> {"key", "secret"}]}
=============================================================================
