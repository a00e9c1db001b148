------------------------------ MODULE Packaging ------------------------------
(***************************************************************************)
(* Packaging of a local asset (sim/packaging.py): the files are collected, *)
(* the root stage is chosen, every file is hashed into the manifest, and   *)
(* then every file is read again into the bundle, while somebody may still *)
(* edit the asset.  And the two parsers of a splat's .ply header: the one  *)
(* that describes a splat and the one that admits it to the converter.     *)
(***************************************************************************)
EXTENDS Naturals, Sequences, FiniteSets, SequencesExt

CONSTANTS MaxEdits, MaxLines, MaxFiles     \* bounds of the model: edits, lines of a header, files

VARIABLES asset,       \* the files of the directory and their contents, 0: removed
          request,     \* explicit root and output path
          header,      \* the .ply header of the file "splat"
          phase,       \* how far package_local_asset got
          chosen,      \* root_relpath
          described,   \* the manifest: file -> digest
          archived,    \* the bundle: file -> content
          temp,        \* the temporary bundle file exists
          edits,       \* edits of the asset since the files were collected
          overtaken    \* history: the files edited after they were hashed and
                       \* before they were packed

packVars == <<asset, request, header, phase, chosen, described, archived, temp, edits, overtaken>>

(* Header lines of a .ply: two vertex elements, one with a fourth token,   *)
(* another element, the required scalar properties, one of an unsupported  *)
(* type, a comment that quotes "end_header".  The first flag is a blank    *)
(* before the magic.                                                       *)
Lines == {"vertex 2", "vertex 3", "vertex 5 extra", "face 9", "required", "double", "comment"}
Headers == [blank : BOOLEAN, lines : UNION {[1..n -> Lines] : n \in 0..MaxLines}]

Count(line) == CASE line = "vertex 2" -> 2 [] line = "vertex 3" -> 3 [] line = "vertex 5 extra" -> 5
                 [] OTHER -> 9
IsElement(line) == line \in {"vertex 2", "vertex 3", "vertex 5 extra", "face 9"}
\* what is a vertex element for the converter: three tokens, for the description: at least three
ThreeTokens == {"vertex 2", "vertex 3"}
AnyVertex   == ThreeTokens \cup {"vertex 5 extra"}

\* the property in line i belongs to the last element before it
InVertices(ls, i, vertices) == \E e \in 1..i-1 : /\ ls[e] \in vertices
                                                 /\ \A k \in e+1..i-1 : ~IsElement(ls[k])

\* _parse_ply_header: everything before the first "end_header", None without the magic
Seen(h) == LET quoted == {i \in 1..Len(h.lines) : h.lines[i] = "comment"}
           IN  IF quoted = {} THEN h.lines
               ELSE SubSeq(h.lines, 1, (CHOOSE i \in quoted : \A j \in quoted : i <= j) - 1)
\* A change of the code: every element is taken for the vertices.
SniffedLast(ls) == LET es == {i \in 1..Len(ls) : IsElement(ls[i])}
                   IN  IF es = {} THEN 0 ELSE Count(ls[CHOOSE i \in es : \A j \in es : j <= i])

SniffedCount(ls) == LET vs == {i \in 1..Len(ls) : ls[i] \in AnyVertex}
                    IN  IF vs = {} THEN 0 ELSE Count(ls[CHOOSE i \in vs : \A j \in vs : j <= i])

\* detect_gaussian_splat_format and _splat_manifest_info: 0 when it is no splat
SplatCount(h) ==
  LET ls == Seen(h)
  IN  IF ~h.blank /\ \E i \in 1..Len(ls) : ls[i] = "required" /\ InVertices(ls, i, AnyVertex)
      THEN SniffedCount(ls) ELSE 0

\* validate_hosted_splat_ply: one vertex element, with the required properties once
Admitted(h) ==
  LET ls == h.lines
      owned == {i \in 1..Len(ls) : ~IsElement(ls[i]) /\ InVertices(ls, i, ThreeTokens)}
  IN  /\ Cardinality({i \in 1..Len(ls) : ls[i] \in ThreeTokens}) = 1
      /\ \A i \in owned : ls[i] # "double"
      /\ Cardinality({i \in owned : ls[i] = "required"}) = 1
AdmittedCount(h) == Count(h.lines[CHOOSE i \in 1..Len(h.lines) : h.lines[i] \in ThreeTokens])

(* The asset: files of the top directory, one below it, one in a skipped   *)
(* directory (SKIP_DIRS), a symbolic link, the bundle of an earlier call   *)
(* that this one writes again, and a file with the name of the manifest    *)
(* (of an asset that was unpacked from a bundle).                          *)
MANIFEST_NAME == "manifest"
Names == {"deep.usd", "stage.usd", "robot.urdf", "splat", "skipped.usd", "link", "bundle",
          MANIFEST_NAME}
\* the content of the manifest that the call itself writes; files have others
OwnManifest == 0
Auto == "none"
Temporary == "temporary"

PackagingInit ==
  /\ \/ /\ header = [blank |-> FALSE, lines |-> <<"vertex 2", "required">>]
        /\ \E names \in SUBSET Names : /\ Cardinality(names) <= MaxFiles
                                      /\ asset = [n \in names |-> 1]
        /\ request \in [root : {Auto, "absent"} \cup (Names \ {"link", MANIFEST_NAME}),
                        output : {Temporary, "bundle"}]
     \/ /\ header \in Headers
        /\ asset = [n \in {"splat"} |-> 1]
        /\ request = [root |-> Auto, output |-> Temporary]
  /\ phase = "output" /\ chosen = Auto /\ temp = FALSE /\ edits = 0 /\ overtaken = {}
  /\ described = <<>> /\ archived = <<>>

Present == {n \in DOMAIN asset : asset[n] > 0}
Put(f, x, value) == [n \in DOMAIN f \cup {x} |-> IF n = x THEN value ELSE f[n]]
Raise == phase' = "raised"

\* _resolve_output_path makes the temporary file before anything is checked
ResolveOutput == /\ phase = "output" /\ phase' = "collect"
                 /\ temp' = (request.output = Temporary)
                 /\ UNCHANGED <<asset, request, header, chosen, described, archived, edits,
                                overtaken>>

\* A change of the code: the earlier bundle is packed into the new one.
CollectedWithOutput == {n \in Present : n # "skipped.usd"}

\* _collect_files: no links, no skipped directories, never the output itself
Collected == {n \in Present : n # "skipped.usd" /\ n # request.output}
CollectFiles == /\ phase = "collect"
                /\ IF "link" \in Present \/ Collected = {} THEN Raise
                   ELSE phase' = "root"
                /\ described' = [n \in IF phase' = "root" THEN Collected ELSE {} |-> 0]
                /\ UNCHANGED <<asset, request, header, chosen, archived, temp, edits, overtaken>>

\* _resolve_root_relpath: the first stage, else a robot, else a splat;
\* an explicit root need only be on the disk
Preferred ==
  LET ranked == <<"stage.usd", "deep.usd", "robot.urdf", "splat">>
      fit    == {i \in 1..4 : /\ ranked[i] \in DOMAIN described
                              /\ ranked[i] = "splat" => SplatCount(header) > 0}
  IN  IF fit = {} THEN Auto ELSE ranked[Min(fit)]
ResolveRoot == /\ phase = "root"
               /\ IF request.root # Auto
                  THEN IF request.root \in Present
                       THEN chosen' = request.root /\ phase' = "describe"
                       ELSE UNCHANGED chosen /\ Raise
                  ELSE /\ chosen' = Preferred
                       /\ phase' = "describe"
               /\ UNCHANGED <<asset, request, header, described, archived, temp, edits, overtaken>>

\* _compatibility
Compatibility == CASE chosen \in {"stage.usd", "deep.usd", "skipped.usd"} -> "ready_to_render"
                   [] chosen = "robot.urdf"                               -> "needs_conversion"
                   [] chosen = "splat" /\ SplatCount(header) > 0          -> "needs_conversion"
                   [] OTHER                                               -> "needs_root_stage"

\* _build_manifest hashes the files one after the other
Describe == /\ phase = "describe"
            /\ \E n \in DOMAIN described :
                 /\ described[n] = 0
                 /\ IF n \in Present THEN /\ described' = [described EXCEPT ![n] = asset[n]]
                                          /\ UNCHANGED phase
                    ELSE UNCHANGED described /\ Raise
            /\ UNCHANGED <<asset, request, header, chosen, archived, temp, edits, overtaken>>

\* ZipFile(bundle_path, "w") empties an earlier bundle
OpenBundle == /\ phase = "describe" /\ \A n \in DOMAIN described : described[n] > 0
              /\ phase' = "archive"
              /\ asset' = IF request.output \in DOMAIN asset
                          THEN [asset EXCEPT ![request.output] = @ + 1] ELSE asset
              /\ UNCHANGED <<request, header, chosen, described, archived, temp, edits, overtaken>>

\* the entries of the bundle, by the name under which they are found in it
Archive == /\ phase = "archive"
           /\ \E n \in DOMAIN described \ DOMAIN archived :
                IF n \in Present THEN archived' = Put(archived, n, asset[n]) /\ UNCHANGED phase
                ELSE UNCHANGED archived /\ Raise
           /\ UNCHANGED <<asset, request, header, chosen, described, temp, edits, overtaken>>

\* the manifest comes last: a file of its name is not found any more
WriteManifest == /\ phase = "archive" /\ DOMAIN archived = DOMAIN described
                 /\ phase' = "returned" /\ archived' = Put(archived, MANIFEST_NAME, OwnManifest)
                 /\ UNCHANGED <<asset, request, header, chosen, described, temp, edits, overtaken>>

\* AssetPackage.cleanup, by the caller that has uploaded the bundle
Cleanup == /\ phase = "returned" /\ temp /\ temp' = FALSE
           /\ UNCHANGED <<asset, request, header, phase, chosen, described, archived, edits,
                          overtaken>>

Edit == /\ phase \in {"root", "describe", "archive"} /\ edits < MaxEdits
        /\ edits' = edits + 1
        /\ \E n \in Present :
             /\ asset' = [asset EXCEPT ![n] = IF @ = 1 THEN 3 ELSE 0]
             /\ overtaken' = IF n \in DOMAIN described \ DOMAIN archived /\ described[n] # 0
                             THEN overtaken \cup {n} ELSE overtaken
        /\ UNCHANGED <<request, header, phase, chosen, described, archived, temp>>

PackageStep == \/ ResolveOutput \/ CollectFiles \/ ResolveRoot \/ Describe
               \/ OpenBundle \/ Archive \/ WriteManifest \/ Cleanup
PackagingNext == PackageStep \/ Edit
PackagingSpec == PackagingInit /\ [][PackagingNext]_packVars /\ WF_packVars(PackageStep)

\* The bundle of a package that was returned holds the files of its manifest and
\* the manifest itself, every file with the digest in the manifest, unless it was
\* edited after it was hashed and before it was packed, or had the name of the
\* manifest, which then hides it.  A package said to be ready to render has its root
\* in the bundle, unless the caller named a root in a skipped directory: a named root
\* is looked up on the disk only (package_local_asset, _resolve_root_relpath).
BundleIsAsDescribed ==
  phase = "returned" =>
    /\ DOMAIN archived = DOMAIN described \cup {MANIFEST_NAME}
    /\ archived[MANIFEST_NAME] = OwnManifest
    /\ \A n \in DOMAIN described \ {MANIFEST_NAME} :
         archived[n] # described[n] => n \in overtaken
    /\ Compatibility = "ready_to_render" =>
         \/ chosen \in DOMAIN described
         \/ chosen = "skipped.usd" /\ request.root = chosen

\* A splat that the hosted converter admits is recognised as a splat unless a blank
\* precedes its magic or a comment quotes the end of the header, and is described
\* with the number of Gaussians that it was admitted with unless another vertex
\* element has a fourth token: it is no vertex element for the converter and the
\* one that counts for the description (validate_hosted_splat_ply and
\* _parse_ply_header read the same bytes apart).
ParsersAgree ==
  Admitted(header) =>
    /\ \/ SplatCount(header) \in {0, AdmittedCount(header)}
       \/ \E i \in 1..Len(header.lines) : header.lines[i] \in AnyVertex \ ThreeTokens
    /\ ~header.blank /\ Seen(header) = header.lines => SplatCount(header) > 0
=============================================================================
