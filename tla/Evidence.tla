------------------------------ MODULE Evidence ------------------------------
(***************************************************************************)
(* The vocabulary the comparator, the resolution session and the receipt   *)
(* share, and the decision that gives a reading its weight.                *)
(*                                                                         *)
(* Reason codes are grouped by what the session tells apart: every code    *)
(* that means "the comparison could not be decided" is "undecided", and    *)
(* the two codes of a step without a usable contract are kept.             *)
(***************************************************************************)

VerificationStatus == {"pending", "system_verified", "user_confirmed",
                       "verification_failed", "verification_unavailable",
                       "inconclusive"}

EvidenceSource == {"trusted_adapter", "client_reported", "user_confirmation"}

ReasonCode == {"matched", "value_mismatch", "undecided", "adapter_unavailable",
               "no_validation_deeplink", "incomplete_contract",
               "user_confirmed_resolved", "user_reported_unresolved"}

\* One judgement: what an attempt records besides where and when it was made.
Verdict == [status : VerificationStatus, reason : ReasonCode,
            source : EvidenceSource]

\* How a text read off the device stands to the expectation of a contract.
Reading == {"match", "mismatch", "undecided"}

\* Slip: a match is a match, whoever reports it.
JudgeAnySource(reading, source) ==
  [source |-> source,
   status |-> CASE reading = "undecided" -> "inconclusive"
                [] reading = "mismatch"  -> "verification_failed"
                [] OTHER -> "system_verified",
   reason |-> IF reading = "undecided" THEN "undecided"
              ELSE IF reading = "mismatch" THEN "value_mismatch" ELSE "matched"]

\* Slip: client evidence is set aside before it is looked at.
JudgeSourceFirst(reading, source) ==
  IF source # "trusted_adapter"
    THEN [source |-> source, status |-> "inconclusive", reason |-> "undecided"]
    ELSE JudgeAnySource(reading, source)

\* The outcome the comparator attaches to a reading of a given provenance.
Judge(reading, source) ==
  [source |-> source,
   status |-> CASE reading = "undecided" -> "inconclusive"
                [] reading = "mismatch"  -> "verification_failed"
                [] reading = "match" /\ source # "trusted_adapter" -> "inconclusive"
                [] OTHER -> "system_verified",
   reason |-> CASE reading = "undecided" -> "undecided"
                [] reading = "mismatch"  -> "value_mismatch"
                [] OTHER -> "matched"]
=============================================================================
