------------------------------ MODULE MCFiles ------------------------------
(* A disk with three directories, a file and a link, and a                 *)
(* program that mounts on two of the directories and on the root           *)
EXTENDS FilePaths, TLC

MCEntries ==
    2 :> ("dev" :> 11 @@ "tmp" :> 12 @@ "mnt" :> 13 @@ "lnk" :> 14)
      @@ 11 :> << >> @@ 12 :> ("old" :> 15) @@ 13 :> << >>

MCTarget == 14 :> Path(FALSE, <<"tmp", "old">>)

P(names) == Path(TRUE, names)

MCCalls ==
    { open(P(<<"lnk">>), TRUE),
      open(P(<<"tmp", "lnk">>), TRUE),
      open(P(<<"tmp", "new", "..", "..", "lnk">>), FALSE),
      open(Path(FALSE, <<"new">>), FALSE),
      newstat(P(<<"mnt", "">>)),
      mkdir(P(<<"mnt", "new">>)),
      chdir(P(<<"tmp">>)),
      execve(P(<<"lnk">>)),
      newstat(P(<<"mnt", "", "new">>)),
      newstat(P(<<"..", "dev", "disk">>)),
      mount(P(<<"tmp">>), P(<<"">>), "bind"),
      mount(NoPath, P(<<"tmp">>), "vfat"),
      mount(NoPath, P(<<"mnt">>), "bind"),
      mount(NoPath, P(<<"tmp">>), "tmpfs"),
      mount(P(<<"tmp">>), P(<<"mnt">>), "bind"),
      mount(P(<<"mnt">>), P(<<"tmp">>), "bind"),
      mount(P(<<"dev", "disk">>), P(<<"mnt">>), "ext2") }
=============================================================================
