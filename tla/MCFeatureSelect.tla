---------------------------- MODULE MCFeatureSelect ----------------------------
(* Small instances of FeatureSelect: a wrapped class, one derived from it. *)
EXTENDS FeatureSelect, TLC

CONSTANTS base, derived

OneClass == base :> <<base>>

\* QObject and QTimer, say.
TwoClasses == (base :> <<base>>) @@ (derived :> <<derived, base>>)

=============================================================================
