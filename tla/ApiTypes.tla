------------------------------- MODULE ApiTypes -------------------------------
(***************************************************************************)
(* The Go and Kubernetes vocabulary that the modules about the custom      *)
(* resources and the generated objects share.                              *)
(*                                                                         *)
(* A pointer is a set of at most one element: {} is nil.  The empty string *)
(* is Unset.  A map is a function on the keys it has.                      *)
(***************************************************************************)
EXTENDS Integers, Sequences, FiniteSetsExt

CONSTANTS
    LabelKeys,        \* keys of the labels that users write
    AnnotationKeys    \* keys of the annotations that users write

(* The empty string of the Go structures. *)
Unset == "unset"

Optional(S) == {o \in SUBSET S : \A x, y \in o : x = y}

(* The value of a field behind a pointer, or what stands for nil. *)
Deref(pointer, nil) == IF pointer = {} THEN nil ELSE CHOOSE x \in pointer : TRUE

(* A field that is set, or the default in its place. *)
OrDefault(value, default) == IF value = Unset THEN default ELSE value

(* A host name with a dash for each of its dots. *)
Dashed(host) ==
    CASE host = "chat.example.com" -> "chat-example-com"
      [] host = "blue.chat.example.com" -> "blue-chat-example-com"
      [] host = "green.chat.example.com" -> "green-chat-example-com"
      [] OTHER -> host

(* The maps on some of the keys, united one domain at a time. *)
StringMap(Keys, Values) ==
    LET Add(D, maps) == maps \cup [D -> Values]
    IN FoldSet(Add, {}, SUBSET Keys)

EmptyMap == [k \in {} |-> Unset]

(* The first map with the entries of the second written over it. *)
mergeStringMaps(receiver, origin) ==
    [k \in DOMAIN receiver \cup DOMAIN origin |->
        IF k \in DOMAIN origin THEN origin[k] ELSE receiver[k]]

(* An annotation of an ingress, as determineMaxBodySize and the sanitizer  *)
(* read it: the number before its last character (0 when that is no        *)
(* number), that character, and whether the text has a line break.         *)
AnnotationValue == [number : Nat, unit : STRING, multiline : BOOLEAN]

Labels == StringMap(LabelKeys, STRING)
Annotations == StringMap(AnnotationKeys, AnnotationValue)

(* The value of a variable is a tuple that starts with its kind: a text, a *)
(* size, a key of a secret, or a data source put together from variables.  *)
EnvVar == [Name : STRING, Value : ({"MB"} \X Nat) \cup Seq(STRING)]

Container == [Name : STRING, Image : Seq(STRING), Env : Seq(EnvVar)]

(* A volume of a kind of source, and the object it is taken from. *)
Volume == [Name : STRING, Source : STRING, Of : STRING]
VolumeMount == [Name : STRING, MountPath : STRING]

ResourceRequirements ==
    [cpu : Nat, memory : Nat, cpuLimit : Nat, memoryLimit : Nat]

(* corev1.ResourceRequirements whose protobuf size is 0. *)
NoResources == [cpu |-> 0, memory |-> 0, cpuLimit |-> 0, memoryLimit |-> 0]

OrResources(resources, size) ==
    IF resources = NoResources THEN size ELSE resources

(* A probe; a field that is 0 or Unset is left to the operator. *)
Probe ==
    [Handler : STRING, InitialDelaySeconds : Nat, PeriodSeconds : Nat,
     TimeoutSeconds : Nat, FailureThreshold : Nat, SuccessThreshold : Nat]

(* Versions that are a digest, and those that have one after a tag. *)
DigestVersions == {"sha256:d"}
TagAndDigestVersions == {"10.8.1@sha256:d"}

ImageAndTag(image, version) == <<image, ":", version>>
ImageAtDigest(image, version) == <<image, "@", version>>

=============================================================================
