------------------------------- MODULE MCExt2 -------------------------------
(* Blocks of 4 bytes and 2 pointers, 2 direct blocks, uint32_t of 8 bits    *)
EXTENDS Ext2, TLC

\* i_block of a file whose blocks follow each other from `first` on
Top(a, b, i, d, t) == 0 :> a @@ 1 :> b @@ 2 :> i @@ 3 :> d @@ 4 :> t

Two(a, b) == 0 :> a @@ 1 :> b

\* through all three levels: 12 blocks
Large == [size |-> 46, top |-> Top(10, 11, 12, 15, 22),
          ptr  |-> 12 :> Two(13, 14)
                @@ 15 :> Two(16, 19) @@ 16 :> Two(17, 18) @@ 19 :> Two(20, 21)
                @@ 22 :> Two(23, 0) @@ 23 :> Two(24, 27)
                @@ 24 :> Two(25, 26) @@ 27 :> Two(28, 29)]

Small(n) == [size |-> n, top |-> Top(10, IF n > 4 THEN 11 ELSE 0, 0, 0, 0),
             ptr |-> << >>]

Empty == [size |-> 0, top |-> Top(0, 0, 0, 0, 0), ptr |-> << >>]

\* its second block was never written
Holed == [size |-> 11, top |-> Top(10, 0, 12, 0, 0), ptr |-> 12 :> Two(13, 0)]

\* its second block is behind the addresses of 8 bits
High == [size |-> 8, top |-> Top(10, 64, 0, 0, 0), ptr |-> << >>]

SomeFiles == {Large, Small(3), Small(8), Empty, Holed, High}

Entry(n, i) == [name |-> n, ino |-> i]

Dots == <<Entry(<<".">>, 2), Entry(<<".", ".">>, 2)>>

SomeDirs ==
    { <<Dots>>,
      <<Dots \o <<Entry(<<"a">>, 3)>>, <<Entry(<<"b", "a">>, 4)>> >>,
      <<Dots, <<Entry(<<"a", "b">>, 3), Entry(<<"a">>, 4)>> >>,
      <<Dots, <<Entry(<< >>, 0)>>, <<Entry(<<"a">>, 3)>> >> }

SomeNames == {<<"a">>, <<"a", "b">>, <<"b", "a">>, <<"b">>, <<".", "a">>}
=============================================================================
