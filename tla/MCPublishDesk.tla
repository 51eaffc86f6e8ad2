----------------------------- MODULE MCPublishDesk -----------------------------
(* PublishDesk for TLC: two items and the two channels of the settings. *)
EXTENDS PublishDesk, TLC

CONSTANTS i1, i2, naver, coupang

TwoItems == <<i1, i2>>
TwoChannels == <<naver, coupang>>

Symmetry == Permutations(Workers)
=============================================================================
