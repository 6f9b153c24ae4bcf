---------------------------- MODULE MCReviewCalls ----------------------------
(* The instance of ReviewCalls: three reviewers over one permit, one of    *)
(* them with images and one of them disabled.                              *)
EXTENDS ReviewCalls

CONSTANTS scientific, figures, adversarial

Kinds == {scientific, figures, adversarial}
ThreeAgents == <<scientific, figures, adversarial>>
LastDisabled == <<TRUE, TRUE, FALSE>>
=============================================================================
