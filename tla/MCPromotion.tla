---------------------------- MODULE MCPromotion ----------------------------
EXTENDS Promotion
=============================================================================
