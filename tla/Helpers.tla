------------------------------ MODULE Helpers ------------------------------
(***************************************************************************)
(* The processes the supervisor starts beside the container: slirp4netns   *)
(* (Slirp) and the hooks of its bundle (Hooks).                            *)
(***************************************************************************)
EXTENDS Slirp, Hooks

\* The helper processes of a launch are under control: slirp4netns is gone when its
\* driver is, hooks run one at a time, and a fatal point passes only if all of
\* its hooks did (userspace.rs, oci/mod.rs).  NoHelperHere and HooksInOrder are
\* what this rests on.
HelpersControlled ==
    /\ SlirpTypeOK /\ HelperStopped /\ NoHelperHere
    /\ HooksTypeOK /\ HooksRunAlone /\ FatalHooksAll /\ HooksInOrder
=============================================================================
