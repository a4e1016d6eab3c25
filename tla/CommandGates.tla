---------------------------- MODULE CommandGates ----------------------------
(***************************************************************************)
(* The gates between a claimed paper command and its submission: the       *)
(* command against the runtime's scope and release, the risk receipt in    *)
(* its intent against both, and the runtime gate over what all of them and *)
(* the platform's reconciliation found.                                    *)
(*                                                                         *)
(* A command is a record of its scope, mode, date, decision digest and     *)
(* what its intent embeds: a release identity and a risk receipt.  A       *)
(* runtime has its scope, the release it is expected to run and the one    *)
(* its receipt attests.  A digest that does not fit its content is the     *)
(* field "sealed".  Findings keep the code's names where a rule reads      *)
(* them.  Left out: a command whose own digest is wrong, which the store   *)
(* refuses to read, the reduce-only admission with its policy, and the     *)
(* actions of the runtime gate that no caller asks for.                    *)
(***************************************************************************)

When(finding, condition) == {f \in {finding} : condition}

(***************************************************************************)
(* Bindings.                                                               *)
(***************************************************************************)
ReleaseFindings(actual, expected) ==
    When("release_identity_mismatch", actual # expected)

RuntimeFindings(runtime) ==
    When("release_receipt_missing", ~runtime.attested)
        \cup ReleaseFindings(runtime.loaded, runtime.expected)

BindingFindings(command, runtime) ==
    When("command_platform_mismatch", command.platform # runtime.platform)
        \cup When("command_account_scope_mismatch", command.account # runtime.account)
        \cup When("command_strategy_profile_mismatch", command.profile # runtime.profile)

(***************************************************************************)
(* Admission: the first check that fails halts the command.                *)
(***************************************************************************)
\* Only a receipt that grants everything has no reasons.
ReceiptValid(receipt) ==
    /\ receipt.sealed
    /\ receipt.disposition \in {"allow_new_risk", "reducing_only", "halted"}
    /\ receipt.disposition = "allow_new_risk" <=> receipt.reasons = {}

ReceiptBinding(command, expected) ==
    LET receipt == command.receipt
    IN  When("paper_risk_admission_command_mismatch",
                \/ receipt.decision # command.decision
                \/ receipt.profile # command.profile
                \/ receipt.session # command.date)
        \cup When("paper_risk_admission_release_mismatch", receipt.release # expected.id)
        \cup When("paper_risk_admission_policy_mismatch", receipt.policy # expected.policy)

\* What a bound receipt permits.
DispositionFindings(receipt) ==
    When("paper_risk_admission_reducing_only", receipt.disposition = "reducing_only")
        \cup When("paper_risk_admission_halted", receipt.disposition = "halted")

AdmissionFindings(command, expected) ==
    IF command.mode # "paper" THEN {"paper_execution_mode_invalid"}
    ELSE IF command.release # expected THEN ReleaseFindings(command.release, expected)
    ELSE IF ~command.hasReceipt THEN {"paper_risk_admission_receipt_missing"}
    ELSE IF ~ReceiptValid(command.receipt) THEN {"paper_risk_admission_receipt_invalid"}
    ELSE IF ReceiptBinding(command, expected) # {} THEN ReceiptBinding(command, expected)
    ELSE DispositionFindings(command.receipt)

(***************************************************************************)
(* The runtime gate.                                                       *)
(***************************************************************************)
\* The findings that leave reductions possible; every other one, known or not, halts.
Reducing == {"data_artifact_invalid", "data_unavailable", "data_stale",
             "paper_risk_admission_reducing_only"}

Mode(findings) ==
    IF findings = {} THEN "active" ELSE IF findings \subseteq Reducing THEN "reducing"
    ELSE "halted"

Effects == {"reduces", "neutral", "increases", "unknown"}

\* Mutant: in reducing mode everything passes that does not add risk.
NotIncreasing(mode, effect) ==
    \/ mode = "active" /\ effect # "unknown"
    \/ mode = "reducing" /\ effect \in {"reduces", "neutral"}

Permits(mode, effect) ==
    \/ mode = "active" /\ effect # "unknown"
    \/ mode = "reducing" /\ effect = "reduces"

\* A command without proposals passes the gate as a neutral order.
Submittable(command, runtime, reported, effects) ==
    LET findings == AdmissionFindings(command, runtime.expected) \cup reported
                        \cup RuntimeFindings(runtime)
    IN  \A effect \in (IF effects = {} THEN {"neutral"} ELSE effects) :
            Permits(Mode(findings), effect)
=============================================================================
