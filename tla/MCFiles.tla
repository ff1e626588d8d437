------------------------------ MODULE MCFiles ------------------------------
(***************************************************************************)
(* A small instance of FileTable: a file of two clusters, one whose name   *)
(* fills its field, a directory, a deleted item in front of, between or    *)
(* nowhere near them, and three words that may stand where the allocation  *)
(* table is not; and a disk with another signature.                        *)
(***************************************************************************)
EXTENDS FileTable, TLC

Item(filename, ext, attribute, cluster, filesize) ==
  [filename |-> filename, ext |-> ext, attribute |-> attribute,
   cluster |-> cluster, filesize |-> filesize]

\* "A.T", which has two clusters, "BB.T", and the directory "D".
Items ==
  <<Item(<<"A", Space>>, <<"T">>, Archived, 2, 12),
    Item(<<"B", "B">>, <<"T">>, Archived, 4, 5),
    Item(<<"D", Space>>, <<Space>>, Subdirectory, 5, 0)>>
Gone == Item(<<DeletedMark, "C">>, <<"T">>, Archived, 2, 1)

SmallChain == (2 :> <<2, 3>>) @@ (4 :> <<4>>) @@ (5 :> <<5>>)

Image(items, word) ==
  [signature |-> FAT16Signature, item |-> items, chain |-> SmallChain, junk |-> word]

\* Only the middle one of these has all three, and no deleted item is in the first.
SmallImages ==
  {Image(<<Items[1], Items[3]>>, 5), Image(<<Items[1], Gone>> \o Tail(Items), EndOfChain),
   Image(<<Gone, Items[1], Items[2]>>, 0), [Image(Items, 0) EXCEPT !.signature = 40]}

OnDrive(digit, rest) == <<digit, ":", Slash>> \o rest

\* The file in capital and small letters, with slashes behind, and with a path
\* of the greatest length and of one more; the name as the disk has it and as
\* the code reads it; the directory and what would be in it; no name, no file,
\* no drive, another drive, no path.
SmallPaths ==
  {OnDrive("0", p) : p \in
     {<<"A", ".", "T">>, <<"a", ".", "t">>,
      <<"a", ".", "t", Slash>>, <<"a", ".", "t", Slash, Slash, "b">>,
      <<"b", "b", ".", "t">>, <<"b", "b", "t", ".", "t">>,
      <<"d">>, <<"d", Slash, "a", ".", "t">>, <<"d", Slash, "a", ".", "t", Slash>>,
      <<>>, <<Slash, "d">>, <<"c">>}}
  \cup {OnDrive("1", <<"d">>), OnDrive("a", <<"d">>), <<"0", ":">>, <<"0", Slash, ":", "d">>}

\* One call that would write.
SmallOpens == SmallPaths \X {"r"} \cup {<<OnDrive("0", <<"d">>), "w">>}
=============================================================================
