-------------------------- MODULE NativeRequirements --------------------------
(***************************************************************************)
(* Requirements as npm and Cargo projects write them, their translation    *)
(* into one canonical requirement, and the lock of one native dependency   *)
(* (src/rust/native_dependency.rs).                                        *)
(*                                                                         *)
(* A declaration is [form, segments]: form is "range", or what else the    *)
(* text is ("union", "hyphen", "source", "blank"); segments are what       *)
(* commas part, each a sequence of the words that blanks part.  A word is  *)
(* [op, body]; the body of an operator that stands alone is Absent.  A     *)
(* body is [v, parts, pre, build]: a leading "v", up to three numbers,     *)
(* Star or Ex, a prerelease (0 for none), a build part.  A version is      *)
(* [nums, pre, build].                                                     *)
(***************************************************************************)
EXTENDS Absence, Arrangements, SequencesExt

CONSTANTS
    MaxComponent         \* NPM_MAX_SAFE_COMPONENT

Star == -1
Ex == -2

Registries == {"npm", "cargo"}

(* The semver crate: precedence, and the comparators of a requirement.     *)
LexLess(a, b) ==
    \E i \in DOMAIN a \cap DOMAIN b :
        /\ a[i] < b[i]
        /\ \A j \in 1..(i - 1) : a[j] = b[j]
Key(v) == v.nums \o (IF v.pre = 0 THEN <<1, 0>> ELSE <<0, v.pre>>)
Older(v, w) == LexLess(Key(v), Key(w))

Comparator(op, nums, pre) == [op |-> op, nums |-> nums, pre |-> pre]

Fits(c, v) ==
    LET n == Len(c.nums)
        prefix == SubSeq(v.nums, 1, n)
        exact == prefix = c.nums /\ v.pre = c.pre
        below == IF n = 3 THEN Older(v, c) ELSE LexLess(prefix, c.nums)
        above == IF n = 3 THEN Older(c, v) ELSE LexLess(c.nums, prefix)
        nonzero == {i \in 1..n : c.nums[i] # 0} \union {n}
        fixed == CHOOSE i \in nonzero : \A j \in nonzero : i <= j
        Kept(k) == SubSeq(v.nums, 1, k) = SubSeq(c.nums, 1, k)
    IN  CASE c.op = "="  -> exact
          [] c.op = ">"  -> above
          [] c.op = "<"  -> below
          [] c.op = ">=" -> exact \/ above
          [] c.op = "<=" -> exact \/ below
          [] c.op = "~"  -> /\ Kept(IF n = 3 THEN 2 ELSE n) /\ ~below
                            /\ n = 3 \/ v.pre = 0
          [] c.op = "^"  -> Kept(fixed) /\ ~below

(* A prerelease fits only next to a comparator with one of the same        *)
(* numbers.                                                                *)
Matches(requirement, v) ==
    /\ \A i \in DOMAIN requirement : Fits(requirement[i], v)
    /\ v.pre # 0 =>
          \E i \in DOMAIN requirement :
              requirement[i].nums = v.nums /\ requirement[i].pre # 0

-----------------------------------------------------------------------------
ValidRequirementInput(declared) ==
    /\ declared.form = "range"
    /\ \A i \in DOMAIN declared.segments :
          \A j \in DOMAIN declared.segments[i] :
              LET body == declared.segments[i][j].body
              IN  body # Absent => ~body.build

(* Operators that stand alone, joined with the word that follows them.     *)
BareOperators(words) == {i \in DOMAIN words : words[i].body = Absent}
Joinable(words) ==
    \A i \in BareOperators(words) : i < Len(words) /\ words[i + 1].op = ""
Joined(words) ==
    LET bare == BareOperators(words)
        Body(i) == words[IF i \in bare THEN i + 1 ELSE i].body
    IN  Arranged([i \in 1..Len(words) |->
                     [op |-> words[i].op, body |-> Body(i)]],
                 {i \in 1..Len(words) : i - 1 \notin bare},
                 ByPosition(words))

(* Full: three numbers.  Partial: numbers, then wildcards. *)
Wild(body) == {i \in 1..Len(body.parts) : body.parts[i] < 0}
Numbers(body) ==
    LET wild == Wild(body) \union {Len(body.parts) + 1}
        first == CHOOSE i \in wild : \A j \in wild : i <= j
    IN  SubSeq(body.parts, 1, first - 1)
WildAtEnd(body) == Wild(body) = (Len(Numbers(body)) + 1)..Len(body.parts)
Small(nums) == \A i \in DOMAIN nums : nums[i] <= MaxComponent
IsFull(body) == Len(Numbers(body)) = 3 /\ Len(body.parts) = 3
IsPartial(body) ==
    /\ ~IsFull(body) /\ body.pre = 0
    /\ Len(body.parts) \in 1..3
    /\ WildAtEnd(body)
    /\ Small(Numbers(body))
Filled(nums) == [i \in 1..3 |-> IF i \in DOMAIN nums THEN nums[i] ELSE 0]
NextPrefix(nums) == Filled([nums EXCEPT ![Len(nums)] = @ + 1])

NormalizeNpmBare(body) ==
    LET nums == Numbers(body)
    IN  CASE IsFull(body) ->
                IF Small(nums) THEN <<Comparator("=", nums, body.pre)>>
                ELSE Refused
          [] IsPartial(body) ->
                IF nums = <<>> THEN <<>> ELSE <<Comparator("=", nums, 0)>>
          [] OTHER -> Refused

(* Mutant: the bound of a partial version is filled with zeros.            *)
NormalizeNpmComparatorFilled(op, body) ==
    LET nums == Numbers(body)
    IN  IF IsFull(body) THEN <<Comparator(op, nums, body.pre)>>
        ELSE IF ~IsPartial(body) \/ nums = <<>> THEN Refused
        ELSE IF op \in {"^", "~"} THEN <<Comparator(op, nums, 0)>>
        ELSE <<Comparator(op, Filled(nums), 0)>>

NormalizeNpmComparator(op, body) ==
    LET nums == Numbers(body)
        Bound(sign, bound) ==
            IF Small(bound) THEN <<Comparator(sign, bound, 0)>> ELSE Refused
    IN  CASE IsFull(body) ->
                IF Small(nums) THEN <<Comparator(op, nums, body.pre)>>
                ELSE Refused
          [] ~IsFull(body) /\ (~IsPartial(body) \/ nums = <<>>) -> Refused
          [] OTHER ->
                CASE op \in {"^", "~"} -> <<Comparator(op, nums, 0)>>
                  [] op \in {">=", "<"} -> Bound(op, Filled(nums))
                  [] op = ">" -> Bound(">=", NextPrefix(nums))
                  [] op = "<=" -> Bound("<", NextPrefix(nums))

NormalizeNpmToken(word) ==
    IF word.op \in {"", "="} THEN NormalizeNpmBare(word.body)
    ELSE NormalizeNpmComparator(word.op, word.body)

(* The semver crate reads a requirement, one comparator after the other;   *)
(* "*", which is none, must stand alone.                                   *)
ParseRequirement(parsed) ==
    IF \/ \E i \in DOMAIN parsed : parsed[i] = Refused
       \/ Len(parsed) > 1 /\ \E i \in DOMAIN parsed : parsed[i] = <<>>
    THEN Refused
    ELSE IF parsed = <<<<>>>> THEN <<>>
    ELSE [i \in DOMAIN parsed |-> parsed[i][1]]

TranslateNpm(segments) ==
    IF Len(segments) # 1 \/ ~Joinable(segments[1]) THEN Refused
    ELSE LET words == Joined(segments[1])
         IN  ParseRequirement(
                 [i \in DOMAIN words |-> NormalizeNpmToken(words[i])])

CargoComparator(word) ==
    LET body == word.body
        nums == Numbers(body)
        op == CASE word.op # "" -> word.op
                [] Len(nums) < Len(body.parts) -> "="
                [] OTHER -> "^"
    IN  IF \/ body.v \/ Ex \in ToSet(body.parts)
           \/ ~(IsFull(body) \/
                  /\ body.pre = 0 /\ Len(body.parts) \in 1..3
                  /\ WildAtEnd(body))
           \/ nums = <<>> /\ (word.op # "" \/ Len(body.parts) # 1)
        THEN Refused
        ELSE IF nums = <<>> THEN <<>> ELSE <<Comparator(op, nums, body.pre)>>

(* One comparator, or an operator and its version, between commas. *)
TranslateCargo(segments) ==
    IF \E i \in DOMAIN segments :
          ~Joinable(segments[i]) \/ Len(Joined(segments[i])) # 1
    THEN Refused
    ELSE ParseRequirement([i \in DOMAIN segments |->
                              CargoComparator(Joined(segments[i])[1])])

Translate(registry, declared) ==
    IF ~ValidRequirementInput(declared) THEN Refused
    ELSE IF registry = "npm" THEN TranslateNpm(declared.segments)
    ELSE TranslateCargo(declared.segments)

-----------------------------------------------------------------------------
(* Names are [letters, scoped], artifacts [sha256, size]. *)
ValidVersion(registry, version) ==
    ~version.build /\ (registry = "npm" => Small(version.nums))
ValidPackageName(registry, name) ==
    /\ name.letters # "other"
    /\ registry = "npm" => name.letters = "lower"
    /\ registry = "cargo" => ~name.scoped
ValidArtifact(artifact) == artifact.sha256 # "zeros" /\ artifact.size > 0

(* Mutant: the canonical requirement of a lock is believed. *)
ValidLockAsWritten(lock) ==
    /\ lock.canonical # Refused
    /\ ValidPackageName(lock.registry, lock.name)
    /\ ValidVersion(lock.registry, lock.version)
    /\ Matches(lock.canonical, lock.version)
    /\ ValidArtifact(lock.artifact)

ValidLock(lock) ==
    /\ Translate(lock.registry, lock.declared) = lock.canonical
    /\ lock.canonical # Refused
    /\ ValidPackageName(lock.registry, lock.name)
    /\ ValidVersion(lock.registry, lock.version)
    /\ Matches(lock.canonical, lock.version)
    /\ ValidArtifact(lock.artifact)

(* Mutant: the first candidate that satisfies the requirement. *)
ResolveFirst(registry, name, declared, candidates) ==
    LET requirement == Translate(registry, declared)
        fit == {i \in DOMAIN candidates :
                   Matches(requirement, candidates[i].version)}
    IN  IF requirement = Refused \/ fit = {} THEN Refused
        ELSE LET best == CHOOSE i \in fit : \A j \in fit : i <= j
             IN  [registry |-> registry, declared |-> declared,
                  canonical |-> requirement, name |-> name,
                  version |-> candidates[best].version,
                  artifact |-> candidates[best].artifact]

(* The highest candidate that satisfies the requirement; one candidate     *)
(* that is not sound, or a version that is listed twice, refuses them all. *)
Resolve(registry, name, declared, candidates) ==
    LET requirement == Translate(registry, declared)
        fit == {i \in DOMAIN candidates :
                   Matches(requirement, candidates[i].version)}
        best == CHOOSE i \in fit : \A j \in fit :
                    ~Older(candidates[i].version, candidates[j].version)
        lock == [registry |-> registry, declared |-> declared,
                 canonical |-> requirement, name |-> name,
                 version |-> candidates[best].version,
                 artifact |-> candidates[best].artifact]
    IN  IF \/ requirement = Refused
           \/ ~ValidPackageName(registry, name)
           \/ \E i \in DOMAIN candidates :
                 \/ ~ValidVersion(registry, candidates[i].version)
                 \/ ~ValidArtifact(candidates[i].artifact)
           \/ \E i, j \in DOMAIN candidates :
                 i # j /\ candidates[i].version = candidates[j].version
           \/ fit = {} \/ ~ValidLock(lock)
        THEN Refused ELSE lock
=============================================================================
