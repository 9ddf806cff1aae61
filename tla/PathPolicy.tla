------------------------------ MODULE PathPolicy ------------------------------
(* Where the file tools may write and read: aliases of the two base          *)
(* directories, absolute paths inside them, relative paths below the first,  *)
(* and the paths that read_file denies.                                      *)
EXTENDS Naturals, Sequences, SequencesExt

CONSTANTS WorkDir,                \* the directory the process runs in
          Up,                     \* the segment ".."
          CacheAlias, StateAlias  \* "file_cache_dir" and "file_state_dir"

\* A path is absolute or not, and its segments.
Path(abs, segs) == [abs |-> abs, segs |-> segs]

\* Cleaned, a relative path keeps the ".." it begins with.
Clean(path) ==
  FoldLeft(LAMBDA done, s : IF s # Up THEN Append(done, s)
                            ELSE IF done # <<>> /\ Last(done) # Up THEN Front(done)
                            ELSE IF path.abs THEN done ELSE Append(done, Up),
           <<>>, path.segs)

IsWithinDir(base, segs) == IsStrictPrefix(base, Clean(Path(TRUE, segs)))

Refused == [ok |-> FALSE, file |-> <<>>]
Resolved(segs) == [ok |-> TRUE, file |-> Clean(Path(TRUE, segs))]

\* detectWritePathAlias: leading slashes do not matter.
Alias(segs) == IF segs # <<>> /\ Head(segs) \in {CacheAlias, StateAlias} THEN Head(segs) ELSE Up

\* selectBaseForAlias, <<>> when that directory is not configured.
BaseFor(bases, alias) ==
  CASE alias = CacheAlias /\ Len(bases) > 0 -> bases[1]
    [] alias = StateAlias /\ Len(bases) > 1 -> bases[2]
    [] OTHER -> <<>>

\* resolveWritePathWithBase
Below(base, rest) ==
  IF base # <<>> /\ rest # <<>> /\ IsWithinDir(base, base \o rest)
    THEN Resolved(base \o rest) ELSE Refused

\* Expanding the home directory cleans the path before the alias is looked for.
ResolveWritePath(bases, path) ==
  LET segs == Clean(path)
      alias == Alias(segs)
  IN CASE bases = <<>> -> Refused
       [] bases # <<>> /\ alias # Up -> Below(BaseFor(bases, alias), Tail(segs))
       [] bases # <<>> /\ alias = Up /\ ~path.abs -> Below(bases[1], segs)
       [] OTHER -> IF \E i \in 1..Len(bases) : IsWithinDir(bases[i], segs)
                     THEN Resolved(segs) ELSE Refused

\* ReadFileTool.resolvePath: without an alias any path will do.
ResolveReadPath(bases, path) ==
  LET alias == Alias(path.segs)
  IN IF alias # Up THEN Below(BaseFor(bases, alias), Tail(path.segs))
     ELSE IF path.segs = <<>> THEN Refused
     ELSE Resolved(IF path.abs THEN path.segs ELSE WorkDir \o path.segs)

\* denyPath: a denied path also denies every file with its base name.
DenyPath(file, denied) == \E d \in denied : d # <<>> /\ file # <<>> /\ Last(d) = Last(file)
==============================================================================
