------------------------------ MODULE OCILayers ------------------------------
(***************************************************************************)
(* The file tree of a container image (internal/oci): layerFromTar reads   *)
(* the entries of a layer's tar, and Flatten lays the layers over each     *)
(* other, with whiteouts.  A path is the sequence of its components; an    *)
(* entry is a regular file, a link, a whiteout of a path or the opaque     *)
(* marker of a directory.                                                  *)
(***************************************************************************)
EXTENDS Naturals, FiniteSets, SequencesExt

CONSTANTS
  Paths, Dirs,  \* paths of the entries; directories that may be opaque
  MaxLayers,    \* bound: layers of an image
  MaxEntries    \* bound: entries of all its layers

VARIABLES
  layers,  \* the layers read so far, each the entries layerFromTar kept
  pending, \* the entries of the layers Flatten has not come to
  tree     \* FileTree.files: path -> the layer its file is from

layerVars == <<layers, pending, tree>>

Entries == [kind : {"regular", "link", "whiteout"}, path : Paths] \cup [kind : {"opaque"}, path : Dirs]
Tars == UNION {[1 .. n -> Entries] : n \in 0 .. 2}

Nothing == [p \in {} |-> 0]
under(p, dir) == IsStrictPrefix(dir, p)
keep(t, S) == [p \in S |-> t[p]]

\* layerFromTar: markers are kept, and otherwise regular files only.
withEntry(sofar, e) == IF e.kind = "link" THEN sofar ELSE Append(sofar, e)
layerFromTar(tar) ==
  LET upTo[n \in 0 .. Len(tar)] == IF n = 0 THEN <<>> ELSE withEntry(upTo[n - 1], tar[n])
  IN  upTo[Len(tar)]

removePrefix(t, dir) == keep(t, {p \in DOMAIN t : ~under(p, dir)})
remove(t, path) == keep(t, {p \in DOMAIN t : p # path /\ ~under(p, path)})

whiteout(t, e) ==
  CASE e.kind = "opaque"   -> removePrefix(t, e.path)
    [] e.kind = "whiteout" -> remove(t, e.path)
    [] OTHER               -> t

addFile(t, e, i) ==
  IF e.kind = "regular" THEN [p \in DOMAIN t \cup {e.path} |-> IF p = e.path THEN i ELSE t[p]] ELSE t

\* The two passes over the entries of layer i.
whiteouts(t, layer) ==
  LET upTo[n \in 0 .. Len(layer)] == IF n = 0 THEN t ELSE whiteout(upTo[n - 1], layer[n])
  IN  upTo[Len(layer)]
addFiles(t, layer, i) ==
  LET upTo[n \in 0 .. Len(layer)] == IF n = 0 THEN t ELSE addFile(upTo[n - 1], layer[n], i)
  IN  upTo[Len(layer)]

\* Variant: the entries of a layer are applied in the order of its tar.
applyInOrder(t, layer, i) ==
  LET upTo[n \in 0 .. Len(layer)] ==
        IF n = 0 THEN t ELSE addFile(whiteout(upTo[n - 1], layer[n]), layer[n], i)
  IN  upTo[Len(layer)]

\* First the whiteouts of the layer, against those below, then its files.
apply(t, layer, i) == addFiles(whiteouts(t, layer), layer, i)

-----------------------------------------------------------------------------
LayersInit == layers = <<>> /\ pending = <<>> /\ tree = Nothing

ReadLayer ==
  /\ Len(layers) < MaxLayers /\ pending = layers
  /\ \E tar \in Tars :
       /\ Len(FlattenSeq(layers)) + Len(layerFromTar(tar)) <= MaxEntries
       /\ layers' = Append(layers, layerFromTar(tar))
  /\ pending' = layers' /\ UNCHANGED tree

ApplyLayer ==
  /\ pending # <<>>
  /\ tree' = apply(tree, Head(pending), Len(layers) - Len(pending) + 1)
  /\ pending' = Tail(pending) /\ UNCHANGED layers

LayersNext == ReadLayer \/ ApplyLayer

LayersSpec == LayersInit /\ [][LayersNext]_layerVars

(***************************************************************************)
(*                               Properties                                *)
(***************************************************************************)
brings(i, p) == [kind |-> "regular", path |-> p] \in ToSet(layers[i])

\* A layer that removes a path, or a directory it is in.
hides(j, p) ==
  \E e \in ToSet(layers[j]) :
     \/ e.kind = "whiteout" /\ (p = e.path \/ under(p, e.path))
     \/ e.kind = "opaque" /\ under(p, e.path)

\* Flatten: the tree is the union of all layers "with whiteouts applied"
\* (oci.go:55-56).  A file is there from the last layer that has it, unless a
\* layer above hides it; a layer's markers never hide its own files.
TreeIsOverlay ==
  pending = <<>> =>
    \A p \in Paths :
      LET seen == {i \in DOMAIN layers : brings(i, p) /\ \A j \in i + 1 .. Len(layers) : ~hides(j, p)}
      IN  /\ p \in DOMAIN tree <=> seen # {}
          /\ p \in DOMAIN tree => tree[p] \in seen /\ \A i \in seen : i <= tree[p]
=============================================================================
