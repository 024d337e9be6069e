------------------------------- MODULE Clips -------------------------------
(* What the writing and the reading of the library (Library, Browse) share. *)
EXTENDS FiniteSets

CONSTANTS
  Clip, User,
  OwnerOf,     \* clips.owner_user_id
  Databases    \* the databases to run on

ASSUME ClipsAssumption ==
  /\ IsFiniteSet(Clip) /\ OwnerOf \in [Clip -> User]
  /\ Databases \subseteq {"sqlite", "postgres"}

VARIABLE database   \* which database the instance runs on
=============================================================================
