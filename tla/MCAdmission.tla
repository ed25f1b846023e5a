---------------------------- MODULE MCAdmission ----------------------------
(* Five workers: more than the deployed three, so that two pushes can        *)
(* overlap for ever while two pulls wait.                                    *)
EXTENDS Admission
=============================================================================
