------------------------ MODULE MCReputationHistory ------------------------
(* The instance of ReputationHistory that TLC checks, on MCReputation's inputs. *)
EXTENDS MCReputation, ReputationHistory
=============================================================================
