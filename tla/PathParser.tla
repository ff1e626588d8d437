----------------------------- MODULE PathParser -----------------------------
(***************************************************************************)
(* Paths such as 0:/dir/file.txt (src/fs/pparser.c): pathparser_parse      *)
(* makes the number of the drive and the sequence of parts out of one.     *)
(***************************************************************************)
EXTENDS KernelString

CONSTANT MaxPath   \* MULTITASK_OS_KERNELSHELL_MAX_PATH, 108

ASSUME PathAssumption == MaxPath \in Nat

Slash == "/"

\* pathparser_path_valid_format.
ValidFormat(path) ==
  /\ Strnlen(path, MaxPath) >= 3
  /\ IsDigit(path[1])
  /\ SubSeq(path, 2, 3) = <<":", Slash>>

\* pathparser_get_path_part: the characters up to the next slash, which is
\* skipped, or to the end; and what is left.
\* Variant: the slash is not skipped.
PathPart_KeepsSlash(s) ==
  LET slash == SelectInSeq(s, LAMBDA c : c = Slash)
  IN  IF slash = 0 THEN [part |-> s, rest |-> <<>>]
      ELSE [part |-> SubSeq(s, 1, slash - 1), rest |-> SubSeq(s, slash, Len(s))]

PathPart(s) ==
  LET slash == SelectInSeq(s, LAMBDA c : c = Slash)
  IN  IF slash = 0 THEN [part |-> s, rest |-> <<>>]
      ELSE [part |-> SubSeq(s, 1, slash - 1), rest |-> SubSeq(s, slash + 1, Len(s))]

\* pathparser_parse_path_part, as often as it gives a part: an empty one ends
\* the path, whatever is behind it. What has been parsed after each call.
PathParts(s) ==
  LET parsed[n \in 0 .. Len(s)] ==
        IF n = 0 THEN [parts |-> <<>>, rest |-> s]
        ELSE LET before == parsed[n - 1]
                 next == PathPart(before.rest)
             IN  IF next.part = <<>> THEN before
                 ELSE [parts |-> Append(before.parts, next.part), rest |-> next.rest]
  IN  parsed[Len(s)].parts

\* No struct path_root.
NoRoot == [drive_no |-> -1, parts |-> <<>>]

\* pathparser_parse.
Parse(path) ==
  IF Len(path) > MaxPath \/ ~ValidFormat(path) THEN NoRoot
  ELSE [drive_no |-> ToNumericDigit(path[1]), parts |-> PathParts(SubSeq(path, 4, Len(path)))]

\* What the parts of a path are, without the code: the names between slashes,
\* up to the end or to the first two slashes in a row.
ArePartsOf(parts, path) ==
  LET rest == SubSeq(path, 4, Len(path))
      joined[n \in 0 .. Len(parts)] ==
        IF n = 0 THEN <<>> ELSE joined[n - 1] \o parts[n] \o <<Slash>>
      whole == joined[Len(parts)]
  IN  /\ \A i \in DOMAIN parts : parts[i] # <<>> /\ ~Contains(parts[i], Slash)
      /\ \/ whole = rest \o <<Slash>>
         \/ whole = rest
         \/ IsPrefix(whole \o <<Slash>>, rest)
=============================================================================
