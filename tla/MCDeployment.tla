---------------------------- MODULE MCDeployment ----------------------------
EXTENDS Deployment, TLC

CONSTANTS x, sp

MCInitial == <<>>
MCPlaceholder == <<x, sp>>
MCSetTexts == {<<sp, x, x, sp, x>>}
MCUserNames == {<<x>>, <<x, sp>>}
(* What build.sh makes, and images that had users, files or directories    *)
(* with room copied to them.                                               *)
MCImages ==
  {[names |-> {"conf"}, homes |-> {}, whole |-> {}, template |-> "none", room |-> {}],
   [names |-> Paths, homes |-> {<<x>>}, whole |-> {<<x>>}, template |-> "entries", room |-> {}],
   [names |-> Paths, homes |-> {<<x>>}, whole |-> {<<x>>}, template |-> "empty", room |-> {"users"}],
   [names |-> Paths, homes |-> {}, whole |-> {}, template |-> "entries", room |-> {"users"}],
   [names |-> {"test.txt", "users", "conf"}, homes |-> {<<x>>}, whole |-> {}, template |-> "entries",
    room |-> {"root"}],
   [names |-> {"test.txt", "testdir", "users", "etc"}, homes |-> {<<x>>}, whole |-> {<<x>>},
    template |-> "empty", room |-> {}]}
MCIsATAPI == (0 :> FALSE) @@ (1 :> TRUE) @@ (2 :> FALSE) @@ (3 :> FALSE)
MCDiskSectors == (0 :> 3) @@ (1 :> 3) @@ (2 :> 3) @@ (3 :> 2)
=============================================================================
