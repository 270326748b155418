---------------------------- MODULE MCNamespace ----------------------------
(* A small instance of Namespace for TLC. *)
EXTENDS NamespaceInvariant

AllSegs == {"_SB_", "_TZ_", "_PR_", "_GPE", "_OS_", "_REV", "_OSI", "A", "B"}

Name(up, segs) == [up |-> up, segs |-> segs]

(* Relative, nested and upward names: a segment, a path, and a child of    *)
(* the parent's scope.                                                     *)
PathNames == { Name(0, <<"A">>), Name(0, <<"A", "B">>), Name(1, <<"B">>) }
PathLists == { <<"A", "B">> }

(* A segment, and a name that reaches out of every frame and block. *)
FrameNames == { Name(0, <<"A">>), Name(Absolute, <<"B">>) }
FrameLists == {}

=============================================================================
