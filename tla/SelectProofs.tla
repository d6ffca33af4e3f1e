----------------------------- MODULE SelectProofs -----------------------------
(***************************************************************************)
(* Proofs about Select: a server that is run is one the workspace may not  *)
(* have planted, and the conversions of positions name every offset once.  *)
(***************************************************************************)
EXTENDS Select, SequenceLemmas

-----------------------------------------------------------------------------
(***************************************************************************)
(* Which program is run.                                                   *)
(***************************************************************************)
\* The root lies inside itself.
LEMMA RootInside == Inside(Root)
<1>1. Len(Root) \in Nat
  BY RootAssumption
<1> QED  BY <1>1 DEF Inside, IsPrefix

\* A refusal is no server.
LEMMA RefusalFails == \A error : ~Refuse(error).ok
<1> QED  BY DEF Refuse

\* A program accepted where it stands is outside of the workspace, links
\* followed, or was allowed inside of it.
LEMMA QualifiedOutside ==
  ASSUME NEW world, NEW path, NEW allow, Qualified(world, path, allow).found
  PROVE  ~Inside(Qualified(world, path, allow).path) \/ allow
<1>1. qualify_executable(world, path, allow)
  BY DEF Qualified, NoServer
<1> QED  BY <1>1 DEF Qualified, qualify_executable

\* So is one found on the search path.
LEMMA DiscoveredOutside ==
  ASSUME NEW world, NEW search, NEW program, NEW allow,
         Len(search) \in Nat, DOMAIN search = 1 .. Len(search),
         discover_executable(world, search, program, allow).found
  PROVE  ~Inside(discover_executable(world, search, program, allow).path) \/ allow
<1> DEFINE found == {k \in DOMAIN search :
                       /\ search[k].absolute
                       /\ qualify_executable(world, search[k].path \o program, allow)}
           first == CHOOSE k \in found : \A j \in found : k <= j
<1>1. found # {} /\ found \subseteq Nat
  BY DEF discover_executable, NoServer
<1>2. \E k \in found : \A j \in found : k <= j
  <2> HIDE DEF found
  <2> QED  BY <1>1, LeastMember
<1>3. first \in found
  <2> HIDE DEF found
  <2> QED  BY <1>2
<1>4. qualify_executable(world, search[first].path \o program, allow)
  <2> HIDE DEF first
  <2> QED  BY <1>3
<1>5. discover_executable(world, search, program, allow).path
        = world[search[first].path \o program].leads
  BY <1>1 DEF discover_executable
<1> HIDE DEF first
<1> QED  BY <1>4, <1>5 DEF qualify_executable

\* What a program of a search path and a request for one have in common.
Searchable(search) == Len(search) \in Nat /\ DOMAIN search = 1 .. Len(search)

\* A descriptor of the user runs inside the workspace, and a program inside
\* of it only when it allows one.
LEMMA UserServer ==
  ASSUME NEW world, NEW search, Searchable(search), NEW descriptor,
         resolve_user_descriptor(world, search, descriptor).ok
  PROVE  LET s == resolve_user_descriptor(world, search, descriptor).value
         IN  /\ s.origin = "UserConfiguration" /\ Inside(s.directory)
             /\ Inside(s.path) => descriptor.allow
<1> DEFINE joined == Root \o descriptor.project_root
           directory == world[joined].leads
           executable ==
             resolve_descriptor_executable(world, search, descriptor, directory)
           r == resolve_user_descriptor(world, search, descriptor)
<1>1. /\ joined \in DOMAIN world /\ Inside(directory) /\ executable.found
      /\ r = Resolved("UserConfiguration", descriptor.id, descriptor.language,
                      executable.path, directory)
  <2> HIDE DEF joined, directory, executable
  <2>1. r = IF joined \notin DOMAIN world THEN Refuse("InvalidProjectRoot")
            ELSE IF world[joined].kind # "directory" \/ ~Inside(directory)
                 THEN Refuse("InvalidProjectRoot")
            ELSE IF ~executable.found THEN Refuse("ExecutableNotFound")
            ELSE Resolved("UserConfiguration", descriptor.id, descriptor.language,
                          executable.path, directory)
    BY DEF joined, directory, executable, resolve_user_descriptor
  <2> HIDE DEF r
  <2>2. r.ok
    BY DEF r
  <2> QED  BY <2>1, <2>2, RefusalFails
<1>2. executable.found => ~Inside(executable.path) \/ descriptor.allow
  <2> HIDE DEF directory
  <2>1. CASE descriptor.absolute
    <3>1. executable = Qualified(world, descriptor.program, descriptor.allow)
      BY <2>1 DEF resolve_descriptor_executable
    <3> HIDE DEF executable
    <3> QED  BY <3>1, QualifiedOutside
  <2>2. CASE ~descriptor.absolute /\ Len(descriptor.program) > 1
    <3>1. ~descriptor.allow => executable = NoServer
      BY <2>2 DEF resolve_descriptor_executable
    <3> HIDE DEF executable
    <3> QED  BY <3>1 DEF NoServer
  <2>3. CASE ~descriptor.absolute /\ ~(Len(descriptor.program) > 1)
    <3>1. executable = discover_executable(world, search, descriptor.program,
                                           descriptor.allow)
      BY <2>3 DEF resolve_descriptor_executable
    <3> HIDE DEF executable
    <3> QED  BY <3>1, DiscoveredOutside DEF Searchable
  <2> QED  BY <2>1, <2>2, <2>3
<1> HIDE DEF directory, executable, joined
<1> QED  BY <1>1, <1>2 DEF Resolved, Accept, r

\* A built-in server runs in the root, and its program is outside.
LEMMA BuiltInServer ==
  ASSUME NEW world, NEW search, Searchable(search), NEW kind, NEW language,
         resolve_builtin(world, search, kind, language).ok
  PROVE  LET s == resolve_builtin(world, search, kind, language).value
         IN  s.origin = "BuiltIn" /\ Inside(s.directory) /\ ~Inside(s.path)
<1> DEFINE executable == discover_executable(world, search, kind.program, FALSE)
           r == resolve_builtin(world, search, kind, language)
<1>1. /\ executable.found
      /\ r = Resolved("BuiltIn", kind.id, language, executable.path, Root)
  <2> HIDE DEF executable
  <2>1. r = IF executable.found
            THEN Resolved("BuiltIn", kind.id, language, executable.path, Root)
            ELSE Refuse("ExecutableNotFound")
    BY DEF executable, resolve_builtin
  <2> HIDE DEF r
  <2>2. r.ok
    BY DEF r
  <2> QED  BY <2>1, <2>2 DEF Refuse
<1>2. ~Inside(executable.path)
  BY <1>1, DiscoveredOutside DEF Searchable
<1> HIDE DEF executable
<1> QED  BY <1>1, <1>2, RootInside DEF Resolved, Accept

\* The descriptors of a configuration that a request names.
ClaimedById(servers, text) == {k \in DOMAIN servers : servers[k].id = text.value}
ClaimedByExtension(servers, text) ==
  {k \in DOMAIN servers : text.value \in servers[k].extensions}
Claimed(servers, selection, extension) ==
  IF selection.by = "id" THEN ClaimedById(servers, selection.id)
  ELSE ClaimedByExtension(servers, extension)

\* What may be said of a server that is found: of the user, when a descriptor
\* of the request allows for it; built in, when there is none.
Trusted(found, servers, mine) ==
  /\ Inside(found.directory)
  /\ Inside(found.path) =>
       \E k \in mine : servers[k].allow /\ found.origin = "UserConfiguration"
  /\ found.origin = "BuiltIn" => mine = {}

LEMMA NormalizedText ==
  ASSUME NEW text
  PROVE  /\ normalize_id(text).ok => normalize_id(text).value = text.value
         /\ normalize_extension(text).ok => normalize_extension(text).value = text.value
<1>1. \/ normalize_id(text) = Accept(text.value)
      \/ \E e : normalize_id(text) = Refuse(e)
  BY DEF normalize_id
<1>2. \/ normalize_extension(text) = Accept(text.value)
      \/ \E e : normalize_extension(text) = Refuse(e)
  BY DEF normalize_extension
<1> QED  BY <1>1, <1>2 DEF Accept, Refuse

\* A server of the user that was claimed is trusted.
LEMMA UserTrusted ==
  ASSUME NEW world, NEW search, Searchable(search), NEW servers, NEW mine, NEW k \in mine,
         resolve_user_descriptor(world, search, servers[k]).ok
  PROVE  Trusted(resolve_user_descriptor(world, search, servers[k]).value, servers, mine)
<1> DEFINE s == resolve_user_descriptor(world, search, servers[k]).value
<1>1. /\ s.origin = "UserConfiguration" /\ Inside(s.directory)
      /\ Inside(s.path) => servers[k].allow
  BY UserServer
<1> HIDE DEF s
<1>2. Trusted(s, servers, mine)
  BY <1>1 DEF Trusted
<1> QED  BY <1>2 DEF s

LEMMA BuiltInTrusted ==
  ASSUME NEW world, NEW search, Searchable(search), NEW servers, NEW kind, NEW language,
         resolve_builtin(world, search, kind, language).ok
  PROVE  Trusted(resolve_builtin(world, search, kind, language).value, servers, {})
<1> DEFINE s == resolve_builtin(world, search, kind, language).value
<1>1. s.origin = "BuiltIn" /\ Inside(s.directory) /\ ~Inside(s.path)
  BY BuiltInServer
<1> HIDE DEF s
<1>2. Trusted(s, servers, {})
  BY <1>1 DEF Trusted
<1> QED  BY <1>2 DEF s

LEMMA ByIdTrusted ==
  ASSUME NEW world, NEW search, Searchable(search), NEW servers, NEW text,
         ResolveById(world, search, servers, text).ok
  PROVE  Trusted(ResolveById(world, search, servers, text).value, servers,
                 ClaimedById(servers, text))
<1> DEFINE id == normalize_id(text)
           user == {k \in DOMAIN servers : servers[k].id = id.value}
           mine == ClaimedById(servers, text)
           builtin == {k \in DOMAIN BUILTIN_SERVERS : BUILTIN_SERVERS[k].id = id.value}
           Of(kind) == resolve_builtin(world, search, kind, kind.languages[1].language)
           r == ResolveById(world, search, servers, text)
<1>1. r = IF ~id.ok THEN id
          ELSE IF user # {}
               THEN resolve_user_descriptor(world, search,
                                            servers[CHOOSE k \in user : TRUE])
          ELSE IF builtin # {} THEN Of(BUILTIN_SERVERS[CHOOSE k \in builtin : TRUE])
          ELSE Refuse("UnknownServerId")
  BY DEF ResolveById
<1>2. r.ok
  OBVIOUS
<1>3. id.ok
  <2> HIDE DEF id, user, builtin, Of, r
  <2> QED  BY <1>1, <1>2
<1>4. user = mine
  <2>1. id.value = text.value
    BY <1>3, NormalizedText
  <2> HIDE DEF id
  <2> QED  BY <2>1 DEF ClaimedById
<1> HIDE DEF id, builtin, user, mine, r, Of
<1>5. CASE mine # {}
  <2>1. PICK k \in mine : r = resolve_user_descriptor(world, search, servers[k])
    <3>1. (CHOOSE k \in user : TRUE) \in mine
      BY <1>4, <1>5
    <3>2. r = resolve_user_descriptor(world, search, servers[CHOOSE k \in user : TRUE])
      BY <1>1, <1>3, <1>4, <1>5
    <3> QED  BY <3>1, <3>2
  <2>2. Trusted(r.value, servers, mine)
    BY <1>2, <2>1, UserTrusted
  <2> QED  BY <2>2 DEF mine, r
<1>6. CASE mine = {}
  <2>1. builtin # {}
    BY <1>1, <1>2, <1>3, <1>4, <1>6 DEF Refuse
  <2>2. \E kind : r = Of(kind)
    BY <1>1, <1>3, <1>4, <1>6, <2>1
  <2>3. \E kind, language : r = resolve_builtin(world, search, kind, language)
    BY <2>2 DEF Of
  <2>4. Trusted(r.value, servers, {})
    BY <1>2, <2>3, BuiltInTrusted
  <2> QED  BY <1>6, <2>4 DEF mine, r
<1> QED  BY <1>5, <1>6

LEMMA ByExtensionTrusted ==
  ASSUME NEW world, NEW search, Searchable(search), NEW servers, NEW text,
         ResolveByExtension(world, search, servers, text).ok
  PROVE  Trusted(ResolveByExtension(world, search, servers, text).value, servers,
                 ClaimedByExtension(servers, text))
<1> DEFINE extension == normalize_extension(text)
           user == {k \in DOMAIN servers : extension.value \in servers[k].extensions}
           mine == ClaimedByExtension(servers, text)
           binding == {b \in UNION {{k} \X DOMAIN BUILTIN_SERVERS[k].languages :
                                     k \in DOMAIN BUILTIN_SERVERS} :
                         BUILTIN_SERVERS[b[1]].languages[b[2]].extension
                           = extension.value}
           Of(b) == resolve_builtin(world, search, BUILTIN_SERVERS[b[1]],
                                    BUILTIN_SERVERS[b[1]].languages[b[2]].language)
           r == ResolveByExtension(world, search, servers, text)
           several == Cardinality(user) > 1
           kinds == Cardinality({b[1] : b \in binding}) > 1
<1>1. r = IF ~extension.ok THEN extension
          ELSE IF several THEN Refuse("AmbiguousExtension")
          ELSE IF user # {}
               THEN resolve_user_descriptor(world, search,
                                            servers[CHOOSE k \in user : TRUE])
          ELSE IF binding = {} THEN Refuse("ServerNotConfigured")
          ELSE IF kinds THEN Refuse("AmbiguousExtension")
          ELSE Of(CHOOSE b \in binding : TRUE)
  BY DEF ResolveByExtension
<1>2. r.ok
  OBVIOUS
<1> HIDE DEF several, kinds, binding, r, Of
<1>3. extension.ok
  <2> HIDE DEF extension, user
  <2> QED  BY <1>1, <1>2
<1>4. user = mine
  <2>1. extension.value = text.value
    BY <1>3, NormalizedText
  <2> HIDE DEF extension
  <2> QED  BY <2>1 DEF ClaimedByExtension
<1> HIDE DEF extension, user, mine
<1>5. ~several
  BY <1>1, <1>2, <1>3 DEF Refuse
<1>6. CASE mine # {}
  <2>1. PICK k \in mine : r = resolve_user_descriptor(world, search, servers[k])
    <3>1. (CHOOSE k \in user : TRUE) \in mine
      BY <1>4, <1>6
    <3>2. r = resolve_user_descriptor(world, search, servers[CHOOSE k \in user : TRUE])
      BY <1>1, <1>3, <1>4, <1>5, <1>6
    <3> QED  BY <3>1, <3>2
  <2>2. Trusted(r.value, servers, mine)
    BY <1>2, <2>1, UserTrusted
  <2> QED  BY <2>2 DEF mine, r
<1>7. CASE mine = {}
  <2>1. ~kinds /\ binding # {}
    BY <1>1, <1>2, <1>3, <1>4, <1>5, <1>7 DEF Refuse
  <2>2. \E b : r = Of(b)
    BY <1>1, <1>3, <1>4, <1>5, <1>7, <2>1
  <2>3. \E kind, language : r = resolve_builtin(world, search, kind, language)
    BY <2>2 DEF Of
  <2>4. Trusted(r.value, servers, {})
    BY <1>2, <2>3, BuiltInTrusted
  <2> QED  BY <1>7, <2>4 DEF mine, r
<1> QED  BY <1>6, <1>7

\* An explicit program is trusted as it is named.
LEMMA ExplicitOrigin ==
  ASSUME NEW selection, resolve_explicit_program(selection).ok
  PROVE  resolve_explicit_program(selection).value.origin = "Explicit"
<1>1. \/ \E e : resolve_explicit_program(selection) = Refuse(e)
      \/ resolve_explicit_program(selection)
           = Resolved("Explicit", "", selection.language.value, selection.program, Root)
  BY DEF resolve_explicit_program
<1>2. resolve_explicit_program(selection)
        = Resolved("Explicit", "", selection.language.value, selection.program, Root)
  BY <1>1, RefusalFails
<1>3. \A origin, id, language, path, directory :
        Resolved(origin, id, language, path, directory).value.origin = origin
  BY DEF Resolved, Accept
<1>4. PICK id, language, path :
        resolve_explicit_program(selection) = Resolved("Explicit", id, language, path, Root)
  BY <1>2, Zenon
<1> QED  BY <1>3, <1>4

LEMMA ResolvedTrusted ==
  ASSUME NEW world, NEW search, Searchable(search), NEW servers, NEW selection,
         selection.by \in {"program", "id", "automatic"}, NEW extension,
         resolve_server(world, search, servers, selection, extension).ok,
         resolve_server(world, search, servers, selection, extension).value.origin
           # "Explicit"
  PROVE  Trusted(resolve_server(world, search, servers, selection, extension).value,
                 servers, Claimed(servers, selection, extension))
<1>1. CASE selection.by = "program"
  <2>1. resolve_server(world, search, servers, selection, extension)
          = resolve_explicit_program(selection)
    BY <1>1 DEF resolve_server
  <2> QED  BY <2>1, ExplicitOrigin
<1>2. CASE selection.by = "id"
  <2>1. resolve_server(world, search, servers, selection, extension)
          = ResolveById(world, search, servers, selection.id)
    BY <1>2 DEF resolve_server
  <2>2. Claimed(servers, selection, extension) = ClaimedById(servers, selection.id)
    BY <1>2 DEF Claimed
  <2>3. PICK text : text = selection.id
    OBVIOUS
  <2>4. ResolveById(world, search, servers, text).ok
    BY <2>1, <2>3
  <2>5. Trusted(ResolveById(world, search, servers, text).value, servers,
                ClaimedById(servers, text))
    BY <2>4, ByIdTrusted
  <2> QED  BY <2>1, <2>2, <2>3, <2>5
<1>3. CASE selection.by = "automatic"
  <2>1. resolve_server(world, search, servers, selection, extension)
          = ResolveByExtension(world, search, servers, extension)
    BY <1>3 DEF resolve_server
  <2>2. Claimed(servers, selection, extension) = ClaimedByExtension(servers, extension)
    BY <1>3 DEF Claimed
  <2>3. ResolveByExtension(world, search, servers, extension).ok
    BY <2>1
  <2>4. Trusted(ResolveByExtension(world, search, servers, extension).value, servers,
                ClaimedByExtension(servers, extension))
    BY <2>3, ByExtensionTrusted
  <2> QED  BY <2>1, <2>2, <2>4
<1> QED  BY <1>1, <1>2, <1>3

-----------------------------------------------------------------------------
(***************************************************************************)
(* The server of a state is the one that was resolved.                     *)
(***************************************************************************)
AnyRequest ==
  /\ request.source.text \in Seq(0 .. 255)
  /\ Searchable(request.search)
  /\ request.selection.by \in {"program", "id", "automatic"}

ServerResolved ==
  phase = "resolved" =>
    resolve_selection_server.ok /\ server = resolve_selection_server.value

SelectInv == AnyRequest /\ ServerResolved

LEMMA SelectInit == Init => SelectInv
<1> SUFFICES ASSUME Init
             PROVE  SelectInv
  OBVIOUS
<1>1. AnyRequest
  BY RequestsAssumption DEF Init, AnyRequest, Searchable
<1> QED  BY <1>1 DEF Init, SelectInv, ServerResolved

LEMMA SelectStep == SelectInv /\ [Next]_vars => SelectInv'
<1> SUFFICES ASSUME SelectInv, [Next]_vars
             PROVE  SelectInv'
  OBVIOUS
<1>0. AnyRequest'
  <2>1. request' = request
    BY DEF Next, vars, open_source, prepare_session, SessionFails, SessionAnswers,
           respond_selection, respond_outline
  <2> QED  BY <2>1 DEF SelectInv, AnyRequest
<1>1. CASE open_source
  <2>1. phase' # "resolved"
    BY <1>1 DEF open_source, Fail
  <2> QED  BY <1>0, <2>1 DEF SelectInv, ServerResolved
<1>2. CASE prepare_session
  <2>1. request' = request
    BY <1>2 DEF prepare_session
  <2>2. resolve_selection_server' = resolve_selection_server
    BY <2>1 DEF resolve_selection_server
  <2>3. \/ phase' = "done"
        \/ /\ phase' = "resolved" /\ resolve_selection_server.ok
           /\ server' = resolve_selection_server.value
    <3> DEFINE query == validate_query
               resolved == resolve_selection_server
    <3>1. (CASE ~query.ok -> /\ Fail("InvalidSelectionQuery")
                             /\ UNCHANGED <<position, server>>
             [] query.ok /\ ~resolved.ok -> /\ Fail(map_config_error(resolved.error))
                                            /\ UNCHANGED <<position, server>>
             [] OTHER -> /\ phase' = "resolved"
                         /\ position' = query.value /\ server' = resolved.value
                         /\ UNCHANGED result)
      BY <1>2 DEF prepare_session
    <3> HIDE DEF query, resolved
    <3>2. \/ phase' = "done"
          \/ phase' = "resolved" /\ resolved.ok /\ server' = resolved.value
      BY <3>1 DEF Fail
    <3> QED  BY <3>2 DEF resolved
  <2> QED  BY <1>0, <2>2, <2>3 DEF SelectInv, ServerResolved
<1>3. CASE SessionFails
  <2>1. phase' # "resolved"
    BY <1>3 DEF SessionFails, Fail
  <2> QED  BY <1>0, <2>1 DEF SelectInv, ServerResolved
<1>4. CASE SessionAnswers
  <2>1. phase' # "resolved"
    BY <1>4 DEF SessionAnswers, Fail
  <2> QED  BY <1>0, <2>1 DEF SelectInv, ServerResolved
<1>5. CASE respond_selection
  <2>1. phase' # "resolved"
    BY <1>5 DEF respond_selection, Fail
  <2> QED  BY <1>0, <2>1 DEF SelectInv, ServerResolved
<1>6. CASE respond_outline
  <2>1. phase' # "resolved"
    BY <1>6 DEF respond_outline, Fail
  <2> QED  BY <1>0, <2>1 DEF SelectInv, ServerResolved
<1>7. CASE UNCHANGED vars
  <2>1. phase' = phase /\ server' = server /\ request' = request
    BY <1>7 DEF vars
  <2>2. resolve_selection_server' = resolve_selection_server
    BY <2>1 DEF resolve_selection_server
  <2> QED  BY <1>0, <2>1, <2>2 DEF SelectInv, ServerResolved
<1> QED  BY <1>1, <1>2, <1>3, <1>4, <1>5, <1>6, <1>7 DEF Next

\* The server of a state is the one that the request resolves to.
THEOREM ServerIsResolved == Spec => []SelectInv
<1> QED  BY SelectInit, SelectStep, PTL DEF Spec

LEMMA TrustedFromResolved == SelectInv => ServerTrusted
<1> SUFFICES ASSUME SelectInv, phase = "resolved", server.origin # "Explicit"
             PROVE  ServerTrusted
  BY DEF ServerTrusted
<1> DEFINE loaded == load_optional_configuration(request.config)
           servers == loaded.value
           r == resolve_server(request.world, request.search, servers,
                               request.selection, request.extension)
           mine == Claimed(servers, request.selection, request.extension)
<1>1. resolve_selection_server.ok /\ server = resolve_selection_server.value
  BY DEF SelectInv, ServerResolved
<1>2. resolve_selection_server = IF ~loaded.ok THEN loaded ELSE r
  BY DEF resolve_selection_server
<1>3. r.ok /\ server = r.value
  <2> HIDE DEF loaded, r
  <2> QED  BY <1>1, <1>2
<1>4. Trusted(server, servers, mine)
  <2> HIDE DEF servers
  <2> QED  BY <1>3, ResolvedTrusted DEF SelectInv, AnyRequest
<1>5. mine = {k \in DOMAIN servers :
                IF request.selection.by = "id"
                THEN servers[k].id = request.selection.id.value
                ELSE request.extension.value \in servers[k].extensions}
  BY DEF Claimed, ClaimedById, ClaimedByExtension
<1> HIDE DEF r, mine
<1> QED  BY <1>4, <1>5 DEF Trusted, ServerTrusted

\* A server that is found and not named by the caller is run inside the
\* workspace and lies outside of it, links followed, unless a descriptor of
\* the user that the request names allows otherwise; a built-in server is run
\* only when there is no such descriptor (resolve_server).
THEOREM ServerIsTrusted == Spec => []ServerTrusted
<1> QED  BY ServerIsResolved, TrustedFromResolved, PTL

-----------------------------------------------------------------------------
(***************************************************************************)
(* Least and greatest members.                                             *)
(***************************************************************************)
LEMMA MinIs ==
  ASSUME NEW S, S \subseteq Int, NEW x \in S, \A y \in S : x <= y
  PROVE  Min(S) = x
<1>1. Min(S) \in S /\ \A y \in S : Min(S) <= y
  BY DEF Min
<1> HIDE DEF Min
<1>2. Min(S) <= x /\ x <= Min(S) /\ Min(S) \in Int
  BY <1>1
<1> QED  BY <1>2

LEMMA MaxIs ==
  ASSUME NEW S, S \subseteq Int, NEW x \in S, \A y \in S : x >= y
  PROVE  Max(S) = x
<1>1. Max(S) \in S /\ \A y \in S : Max(S) >= y
  BY DEF Max
<1> HIDE DEF Max
<1>2. Max(S) >= x /\ x >= Max(S) /\ Max(S) \in Int
  BY <1>1
<1> QED  BY <1>2

LEMMA MinLeast ==
  ASSUME NEW S, S \subseteq Nat, S # {}
  PROVE  Min(S) \in S /\ \A y \in S : Min(S) <= y
<1>1. PICK x \in S : \A y \in S : x <= y
  BY LeastMember
<1>2. S \subseteq Int
  OBVIOUS
<1>3. Min(S) = x
  BY <1>1, <1>2, MinIs
<1> QED  BY <1>1, <1>3

-----------------------------------------------------------------------------
(***************************************************************************)
(* The lines of a text.                                                    *)
(***************************************************************************)
\* The ends of lines, in order; the last one is the end of the text.
LinesOf(lines, text) ==
  /\ Len(lines) \in Nat /\ DOMAIN lines = 1 .. Len(lines)
  /\ \A k \in 1 .. Len(lines) : lines[k] \in LineEndings(text)
  /\ \A j, k \in 1 .. Len(lines) : j < k => lines[j] < lines[k]
  /\ \A i \in LineEndings(text) : \E k \in 1 .. Len(lines) : lines[k] = i
  /\ (lines = << >>) = (text = << >>)
  /\ lines # << >> => Len(lines) >= 1 /\ lines[Len(lines)] = Len(text)

LEMMA LinesFound ==
  ASSUME NEW text \in ByteStrings
  PROVE  LinesOf(Lines(text), text)
<1> DEFINE n == Len(text)
<1>1. n \in Nat /\ (n = 0 <=> text = << >>)
  BY DEF ByteStrings
<1>2. PICK lines : lines = Lines(text)
  OBVIOUS
<1>3. LineList(lines, text, 0)
  BY <1>2, BoundariesAreEnds DEF Lines
<1>4. /\ lines \in Seq(1 .. n) /\ Len(lines) \in Nat /\ DOMAIN lines = 1 .. Len(lines)
      /\ \A j, k \in 1 .. Len(lines) : j < k => lines[j] < lines[k]
      /\ \A k \in 1 .. Len(lines) : lines[k] \in LineEndings(text)
  BY <1>3 DEF LineList
<1>5. \A i \in LineEndings(text) : i \in 1 .. n /\ i > 0
  BY DEF LineEndings
<1>6. \A i \in LineEndings(text) : \E k \in 1 .. Len(lines) : lines[k] = i
  BY <1>3, <1>5 DEF LineList
<1>7. CASE n = 0
  <2>1. LineEndings(text) = {}
    BY <1>5, <1>7
  <2>2. lines = << >>
    <3>1. Len(lines) = 0
      BY <1>4, <2>1
    <3> QED  BY <1>4, <3>1, EmptySeq
  <2> QED  BY <1>1, <1>2, <1>4, <1>6, <1>7, <2>2 DEF LinesOf
<1>8. CASE n # 0
  <2>1. n \in LineEndings(text)
    BY <1>1, <1>8 DEF LineEndings
  <2>2. PICK k \in 1 .. Len(lines) : lines[k] = n
    BY <1>6, <2>1
  <2>3. k = Len(lines)
    <3>1. ASSUME k < Len(lines)
          PROVE  FALSE
      <4>1. lines[k] < lines[Len(lines)] /\ lines[Len(lines)] \in 1 .. n
        BY <1>4, <1>5, <3>1
      <4> QED  BY <1>1, <2>2, <4>1
    <3>2. Len(lines) \in Nat /\ k \in 1 .. Len(lines)
      BY <1>4, <2>2
    <3> QED  BY <3>1, <3>2
  <2>4. Len(lines) >= 1 /\ lines # << >> /\ lines[Len(lines)] = n
    BY <1>4, <2>2, <2>3
  <2> QED  BY <1>1, <1>2, <1>4, <1>6, <1>8, <2>4 DEF LinesOf
<1> QED  BY <1>7, <1>8

\* A line, its content and its terminator.
LineAt(text, start, content, end) ==
  /\ start \in Nat /\ content \in Nat /\ end \in Nat
  /\ start <= content /\ content <= end /\ start < end /\ end <= Len(text)
  /\ \A k \in start + 1 .. content : ~IsTerminatorByte(text[k])
  /\ content < end => IsTerminatorByte(text[content + 1])

\* The content of a line ends before its terminator.
LEMMA ContentFound ==
  ASSUME NEW text \in ByteStrings, NEW start \in Nat, NEW end \in LineEndings(text),
         start < end, \A i \in LineEndings(text) : i > start => i >= end
  PROVE  LineAt(text, start, content_end(text, start, end), end)
<1> DEFINE n == Len(text)
           c == content_end(text, start, end)
<1>1. n \in Nat /\ end \in 1 .. n
  BY DEF ByteStrings, LineEndings
<1>2. ASSUME NEW k \in start + 1 .. end - 1
      PROVE  /\ text[k] # LF
             /\ text[k] = CR => k = end - 1 /\ text[end] = LF
  <2>1. k \in 1 .. n /\ k # n /\ k < end /\ k > start
    BY <1>1
  <2>2. k \notin LineEndings(text)
    BY <1>1, <2>1
  <2>3. text[k] # LF /\ (text[k] = CR => text[k + 1] = LF)
    BY <2>1, <2>2 DEF LineEndings
  <2>4. ASSUME text[k] = CR
        PROVE  k = end - 1 /\ text[end] = LF
    <3>1. k + 1 \in 1 .. n /\ text[k + 1] = LF
      BY <1>1, <2>1, <2>3, <2>4
    <3>2. k + 1 \in LineEndings(text)
      BY <3>1 DEF LineEndings
    <3>3. k + 1 >= end
      BY <1>1, <2>1, <3>2
    <3>4. k + 1 = end
      BY <1>1, <2>1, <3>3
    <3> QED  BY <1>1, <2>1, <3>1, <3>4
  <2> QED  BY <2>3, <2>4
<1>3. CASE end - start >= 2 /\ text[end] = LF /\ text[end - 1] = CR
  <2>1. c = end - 2
    BY <1>3 DEF content_end
  <2> HIDE DEF c
  <2>2. /\ c \in Nat /\ start <= c /\ c < end /\ c + 1 = end - 1
    BY <1>1, <1>3, <2>1
  <2>3. IsTerminatorByte(text[c + 1])
    BY <1>3, <2>2 DEF IsTerminatorByte
  <2>4. ASSUME NEW k \in start + 1 .. c
        PROVE  ~IsTerminatorByte(text[k])
    <3>1. k \in start + 1 .. end - 1 /\ k # end - 1
      BY <1>1, <2>1
    <3> QED  BY <1>2, <3>1 DEF IsTerminatorByte
  <2>5. LineAt(text, start, c, end)
    BY <1>1, <2>2, <2>3, <2>4 DEF LineAt
  <2> QED  BY <2>5 DEF c
<1>4. CASE /\ ~(end - start >= 2 /\ text[end] = LF /\ text[end - 1] = CR)
           /\ IsTerminatorByte(text[end])
  <2>1. c = end - 1
    BY <1>4 DEF content_end
  <2> HIDE DEF c
  <2>2. /\ c \in Nat /\ start <= c /\ c < end /\ c + 1 = end
    BY <1>1, <2>1
  <2>3. ASSUME NEW k \in start + 1 .. c
        PROVE  ~IsTerminatorByte(text[k])
    <3>1. k \in start + 1 .. end - 1
      BY <1>1, <2>1
    <3>2. text[k] # LF /\ (text[k] = CR => k = end - 1 /\ text[end] = LF)
      BY <1>2, <3>1
    <3>3. text[k] = CR => end - start >= 2 /\ text[end] = LF /\ text[end - 1] = CR
      BY <1>1, <3>1, <3>2
    <3> QED  BY <1>4, <3>2, <3>3 DEF IsTerminatorByte
  <2>4. LineAt(text, start, c, end)
    BY <1>1, <1>4, <2>2, <2>3 DEF LineAt
  <2> QED  BY <2>4 DEF c
<1>5. CASE ~IsTerminatorByte(text[end])
  <2>1. c = end
    BY <1>5 DEF content_end, IsTerminatorByte
  <2> HIDE DEF c
  <2>2. ASSUME NEW k \in start + 1 .. c
        PROVE  ~IsTerminatorByte(text[k])
    <3>1. CASE k = end
      BY <1>5, <3>1
    <3>2. CASE k # end
      <4>1. k \in start + 1 .. end - 1
        BY <1>1, <2>1, <3>2
      <4>2. text[k] # LF /\ (text[k] = CR => text[end] = LF)
        BY <1>2, <4>1
      <4> QED  BY <1>5, <4>2 DEF IsTerminatorByte
    <3> QED  BY <3>1, <3>2
  <2>3. LineAt(text, start, c, end)
    BY <1>1, <2>1, <2>2 DEF LineAt
  <2> QED  BY <2>3 DEF c
<1> QED  BY <1>3, <1>4, <1>5

\* As many members on both sides of a one-to-one correspondence.
LEMMA SameNumber ==
  ASSUME NEW S, IsFiniteSet(S), NEW T, NEW f \in [S -> T],
         \A a, b \in S : f[a] = f[b] => a = b,
         \A t \in T : \E a \in S : f[a] = t
  PROVE  IsFiniteSet(T) /\ Cardinality(T) = Cardinality(S)
<1>1. f \in Bijection(S, T)
  <2>1. f \in Injection(S, T)
    BY DEF Injection, IsInjective
  <2>2. f \in Surjection(S, T)
    BY DEF Surjection
  <2> QED  BY <2>1, <2>2 DEF Bijection
<1>2. ExistsBijection(S, T)
  BY <1>1 DEF ExistsBijection
<1> QED  BY <1>2, FS_Bijection

\* A line lies between the ends of two lines.
LEMMA LineFound ==
  ASSUME NEW text \in ByteStrings, NEW lines, LinesOf(lines, text),
         NEW l \in 1 .. Len(lines)
  PROVE  /\ line_end(lines, l) = lines[l] /\ lines[l] \in LineEndings(text)
         /\ line_start(lines, l) \in Nat
         /\ IF l = 1 THEN line_start(lines, l) = 0
            ELSE l - 1 \in 1 .. Len(lines) /\ line_start(lines, l) = lines[l - 1]
         /\ line_start(lines, l) < lines[l]
         /\ \A i \in LineEndings(text) : i > line_start(lines, l) => i >= lines[l]
<1> DEFINE s == line_start(lines, l)
<1>1. /\ Len(lines) \in Nat
      /\ \A k \in 1 .. Len(lines) : lines[k] \in LineEndings(text)
      /\ \A j, k \in 1 .. Len(lines) : j < k => lines[j] < lines[k]
      /\ \A i \in LineEndings(text) : \E k \in 1 .. Len(lines) : lines[k] = i
  BY DEF LinesOf
<1>2. \A i \in LineEndings(text) : i \in Nat /\ i > 0
  BY DEF LineEndings
<1>3. line_end(lines, l) = lines[l]
  BY DEF line_end
<1>4. IF l = 1 THEN s = 0 ELSE l - 1 \in 1 .. Len(lines) /\ s = lines[l - 1]
  BY <1>1 DEF line_start
<1> HIDE DEF s
<1>5. s \in Nat /\ s < lines[l]
  <2>1. CASE l = 1
    BY <1>1, <1>2, <1>4, <2>1
  <2>2. CASE l # 1
    <3>1. l - 1 \in 1 .. Len(lines) /\ l - 1 < l
      BY <1>1, <1>4, <2>2
    <3> QED  BY <1>1, <1>2, <1>4, <2>2, <3>1
  <2> QED  BY <2>1, <2>2
<1>6. ASSUME NEW i \in LineEndings(text), i > s
      PROVE  i >= lines[l]
  <2>1. PICK k \in 1 .. Len(lines) : lines[k] = i
    BY <1>1
  <2>2. ASSUME k < l
        PROVE  FALSE
    <3>1. l # 1 /\ l - 1 \in 1 .. Len(lines) /\ k <= l - 1
      BY <1>1, <1>4, <2>2
    <3>2. CASE k = l - 1
      BY <1>2, <1>4, <1>5, <1>6, <2>1, <3>1, <3>2
    <3>3. CASE k < l - 1
      <4>1. lines[k] < lines[l - 1]
        BY <1>1, <3>1, <3>3
      <4> QED  BY <1>2, <1>4, <1>5, <1>6, <2>1, <3>1, <4>1
    <3> QED  BY <1>1, <3>1, <3>2, <3>3
  <2>3. k = l \/ lines[l] < lines[k]
    BY <1>1, <2>2
  <2> QED  BY <1>1, <1>2, <2>1, <2>3
<1> QED  BY <1>1, <1>3, <1>4, <1>5, <1>6 DEF s

\* The bounds of a line, with its content.
LEMMA BoundsFound ==
  ASSUME NEW text \in ByteStrings, NEW lines, lines = Lines(text),
         NEW l \in 1 .. Len(lines), NEW bounds, bounds = line_bounds(text, l)
  PROVE  /\ bounds.start = line_start(lines, l) /\ bounds.end = lines[l]
         /\ LineAt(text, bounds.start, bounds.content_end, bounds.end)
<1>1. LinesOf(lines, text)
  BY LinesFound
<1>2. PICK s, e : s = line_start(lines, l) /\ e = line_end(lines, l)
  OBVIOUS
<1>3. bounds = [start |-> s, content_end |-> content_end(text, s, e), end |-> e]
  BY <1>2 DEF line_bounds
<1>4. /\ e = lines[l] /\ e \in LineEndings(text) /\ s \in Nat /\ s < e
      /\ \A i \in LineEndings(text) : i > s => i >= e
  BY <1>1, <1>2, LineFound
<1>5. LineAt(text, s, content_end(text, s, e), e)
  BY <1>4, ContentFound
<1> QED  BY <1>2, <1>3, <1>4, <1>5

\* The line an offset is on; the last line has the end of the text as well.
OnLine(lines, l, offset) ==
  /\ l \in 1 .. Len(lines) /\ line_start(lines, l) <= offset
  /\ l = Len(lines) \/ offset < lines[l]

LEMMA LineForByte ==
  ASSUME NEW text \in ByteStrings, NEW offset \in 0 .. Len(text), text # << >>
  PROVE  OnLine(Lines(text), line_for_byte(text, offset), offset)
<1>1. PICK lines : lines = Lines(text)
  OBVIOUS
<1>2. LinesOf(lines, text)
  BY <1>1, LinesFound
<1>3. /\ Len(lines) \in Nat /\ Len(lines) >= 1 /\ DOMAIN lines = 1 .. Len(lines)
      /\ \A j, k \in 1 .. Len(lines) : j < k => lines[j] < lines[k]
      /\ \A k \in 1 .. Len(lines) : lines[k] \in Nat
  BY <1>2 DEF LinesOf, LineEndings
<1>4. offset \in Nat
  OBVIOUS
<1> DEFINE S == {k \in DOMAIN lines : k = Len(lines) \/ lines[k] >= offset}
<1>0. PICK low : low = FirstEndingAt(lines, offset)
  OBVIOUS
<1>5. low \in S /\ \A k \in S : low <= k
  <2>1. Len(lines) \in S /\ S \subseteq Nat
    BY <1>3
  <2>2. low = Min(S)
    BY <1>0 DEF FirstEndingAt
  <2> HIDE DEF S
  <2> QED  BY <2>1, <2>2, MinLeast
<1>6. low \in 1 .. Len(lines) /\ (low = Len(lines) \/ lines[low] >= offset)
  BY <1>3, <1>5
<1>11. low \in Nat /\ 1 <= low /\ low <= Len(lines) /\ Len(lines) \in Nat
  <2>1. Len(lines) \in Nat /\ low \in 1 .. Len(lines)
    BY <1>3, <1>6
  <2> QED  BY <2>1
<1>7. line_for_byte(text, offset)
        = IF lines[low] = offset /\ low < Len(lines) THEN low + 1 ELSE low
  BY <1>0, <1>1 DEF line_for_byte
<1>8. line_start(lines, low) <= offset
  <2>1. CASE low = 1
    BY <1>2, <1>4, <1>6, <2>1, LineFound
  <2>2. CASE low # 1
    <3>1. low - 1 \in 1 .. Len(lines) /\ low - 1 < low
      BY <1>11, <2>2
    <3>2. low - 1 \notin S
      <4>1. PICK m : m = low - 1
        OBVIOUS
      <4> HIDE DEF S
      <4>2. low \in Int /\ ~(low <= m)
        BY <1>11, <4>1
      <4>3. m \notin S
        BY <1>5, <4>2
      <4> QED  BY <4>1, <4>3
    <3>3. lines[low - 1] < offset
      BY <1>3, <1>4, <3>1, <3>2
    <3>4. line_start(lines, low) = lines[low - 1]
      BY <1>2, <1>6, <2>2, LineFound
    <3> QED  BY <1>3, <1>4, <3>1, <3>3, <3>4
  <2> QED  BY <2>1, <2>2
<1> HIDE DEF S
<1>9. CASE lines[low] = offset /\ low < Len(lines)
  <2>1. low + 1 \in 1 .. Len(lines) /\ low < low + 1 /\ low + 1 # 1 /\ (low + 1) - 1 = low
    BY <1>3, <1>6, <1>9
  <2>2. lines[low] < lines[low + 1]
    BY <1>3, <1>6, <2>1
  <2>3. line_start(lines, low + 1) = lines[low]
    <3>1. PICK m : m = low + 1
      OBVIOUS
    <3>2. m \in 1 .. Len(lines) /\ m # 1 /\ m - 1 = low
      BY <2>1, <3>1
    <3> QED  BY <1>2, <3>1, <3>2, LineFound
  <2> QED  BY <1>1, <1>4, <1>7, <1>9, <2>1, <2>2, <2>3 DEF OnLine
<1>10. CASE ~(lines[low] = offset /\ low < Len(lines))
  <2>1. low = Len(lines) \/ offset < lines[low]
    <3>1. lines[low] \in Nat /\ low \in Nat /\ low <= Len(lines) /\ Len(lines) \in Nat
      <4>1. low \in 1 .. Len(lines)
        BY <1>6
      <4> QED  BY <1>3, <4>1
    <3>2. CASE low = Len(lines)
      BY <3>2
    <3>3. CASE low # Len(lines)
      <4>1. lines[low] # offset /\ lines[low] >= offset
        BY <1>6, <1>10, <3>1, <3>3
      <4> QED  BY <1>4, <3>1, <4>1
    <3> QED  BY <3>2, <3>3
  <2> QED  BY <1>1, <1>6, <1>7, <1>8, <1>10, <2>1 DEF OnLine
<1> QED  BY <1>9, <1>10

\* The same line is found by what ends after the offset.
LEMMA LineAfter ==
  ASSUME NEW text \in ByteStrings, NEW offset \in 0 .. Len(text), text # << >>,
         NEW lines, lines = Lines(text)
  PROVE  OnLine(lines, Min({k \in DOMAIN lines : k = Len(lines) \/ lines[k] > offset}),
                offset)
<1>2. LinesOf(lines, text)
  BY LinesFound
<1>3. /\ Len(lines) \in Nat /\ Len(lines) >= 1 /\ DOMAIN lines = 1 .. Len(lines)
      /\ \A k \in 1 .. Len(lines) : lines[k] \in Nat
  BY <1>2 DEF LinesOf, LineEndings
<1>4. offset \in Nat
  OBVIOUS
<1> DEFINE S == {k \in DOMAIN lines : k = Len(lines) \/ lines[k] > offset}
           l == Min(S)
<1>5. l \in S /\ \A k \in S : l <= k
  <2>1. Len(lines) \in S /\ S \subseteq Nat
    BY <1>3
  <2> HIDE DEF S
  <2> QED  BY <2>1, MinLeast
<1>6. l \in 1 .. Len(lines) /\ (l = Len(lines) \/ lines[l] > offset)
  <2> HIDE DEF l
  <2> QED  BY <1>3, <1>5
<1>7. line_start(lines, l) <= offset
  <2> HIDE DEF l
  <2>1. CASE l = 1
    BY <1>2, <1>4, <1>6, <2>1, LineFound
  <2>2. CASE l # 1
    <3>1. l - 1 \in 1 .. Len(lines) /\ l - 1 < l
      <4>1. Len(lines) \in Nat /\ l \in 1 .. Len(lines)
        BY <1>3, <1>6
      <4> QED  BY <2>2, <4>1
    <3>2. l - 1 \notin S
      <4>1. PICK m : m = l - 1
        OBVIOUS
      <4> HIDE DEF S
      <4>2. l \in Int /\ ~(l <= m)
        BY <1>6, <3>1, <4>1
      <4>3. m \notin S
        BY <1>5, <4>2
      <4> QED  BY <4>1, <4>3
    <3>3. lines[l - 1] <= offset
      BY <1>3, <1>4, <3>1, <3>2
    <3>4. line_start(lines, l) = lines[l - 1]
      BY <1>2, <1>6, <2>2, LineFound
    <3> QED  BY <3>3, <3>4
  <2> QED  BY <2>1, <2>2
<1> HIDE DEF l
<1>8. OnLine(lines, l, offset)
  BY <1>3, <1>4, <1>6, <1>7 DEF OnLine
<1> QED  BY <1>8 DEF l

-----------------------------------------------------------------------------
(***************************************************************************)
(* Offsets that can be named.                                              *)
(***************************************************************************)
\* The terminators end lines; so does the end of the text.
LEMMA EndsOfText ==
  ASSUME NEW text \in ByteStrings
  PROVE  /\ LineEnds(text) \subseteq LineEndings(text)
         /\ \A k \in LineEndings(text) : k \in LineEnds(text) \/ k = Len(text)
<1>1. Len(text) \in Nat /\ DOMAIN text = 1 .. Len(text)
  BY DEF ByteStrings
<1>2. ASSUME NEW k \in LineEnds(text)
      PROVE  k \in LineEndings(text)
  <2>1. /\ k \in 1 .. Len(text)
        /\ \/ text[k] = LF
           \/ text[k] = CR /\ ~(k < Len(text) /\ text[k + 1] = LF)
    BY <1>1 DEF LineEnds
  <2>2. ASSUME text[k] = CR, k # Len(text)
        PROVE  text[k + 1] # LF
    <3>1. k < Len(text)
      <4>1. Len(text) \in Nat /\ k \in 1 .. Len(text)
        BY <1>1, <2>1
      <4> QED  BY <2>2, <4>1
    <3>2. text[k] # LF
      BY <2>2 DEF LF, CR
    <3> QED  BY <2>1, <3>1, <3>2
  <2> QED  BY <1>1, <2>1, <2>2 DEF LineEndings
<1>3. ASSUME NEW k \in LineEndings(text), k # Len(text)
      PROVE  k \in LineEnds(text)
  <2>1. k \in 1 .. Len(text) /\ (text[k] = LF \/ (text[k] = CR /\ text[k + 1] # LF))
    BY <1>3 DEF LineEndings
  <2> QED  BY <1>1, <2>1 DEF LineEnds
<1> QED  BY <1>2, <1>3

\* The terminators before an offset end the lines before its line.
LEMMA EndsBefore ==
  ASSUME NEW text \in ByteStrings, text # << >>, NEW lines, lines = Lines(text),
         NEW offset \in 0 .. Len(text), NEW l, OnLine(lines, l, offset),
         offset = Len(text) => Len(text) \notin LineEnds(text)
  PROVE  LineOf(text, offset) = l - 1 /\ StartOf(text, offset) = line_start(lines, l)
<1> DEFINE K == {k \in LineEnds(text) : k <= offset}
<1>1. LinesOf(lines, text)
  BY LinesFound
<1>2. /\ Len(lines) \in Nat /\ Len(lines) >= 1 /\ lines[Len(lines)] = Len(text)
      /\ \A j, k \in 1 .. Len(lines) : j < k => lines[j] < lines[k]
      /\ \A k \in 1 .. Len(lines) : lines[k] \in LineEndings(text)
      /\ \A i \in LineEndings(text) : \E k \in 1 .. Len(lines) : lines[k] = i
  BY <1>1 DEF LinesOf
<1>3. \A i \in LineEndings(text) : i \in 1 .. Len(text)
  BY DEF LineEndings
<1>4. Len(text) \in Nat /\ offset \in Nat
  BY DEF ByteStrings
<1>5. l \in 1 .. Len(lines) /\ line_start(lines, l) <= offset
  BY DEF OnLine
<1>6. /\ line_start(lines, l) \in Nat
      /\ IF l = 1 THEN line_start(lines, l) = 0
         ELSE l - 1 \in 1 .. Len(lines) /\ line_start(lines, l) = lines[l - 1]
  BY <1>1, <1>5, LineFound
<1>7. l \in Nat /\ l >= 1 /\ l <= Len(lines)
  <2>1. Len(lines) \in Nat
    BY <1>2
  <2> QED  BY <1>5, <2>1
<1>8. ASSUME NEW k \in K
      PROVE  \E i \in 1 .. l - 1 : lines[i] = k
  <2>1. k \in LineEndings(text) /\ k \in LineEnds(text) /\ k <= offset
    BY EndsOfText
  <2>2. PICK i \in 1 .. Len(lines) : lines[i] = k
    BY <1>2, <2>1
  <2>3. k \in 1 .. Len(text) /\ i \in Nat
    BY <1>2, <1>3, <2>1, <2>2
  <2>4. ASSUME ~(i <= l - 1)
        PROVE  FALSE
    <3>1. i = l \/ l < i
      BY <1>7, <2>3, <2>4
    <3>2. lines[l] <= k
      <4>1. lines[l] \in 1 .. Len(text)
        BY <1>2, <1>3, <1>5
      <4>2. lines[l] = lines[i] \/ lines[l] < lines[i]
        BY <1>2, <1>5, <2>2, <3>1
      <4> QED  BY <2>2, <2>3, <4>1, <4>2
    <3>3. lines[l] \in Nat /\ lines[l] <= offset
      <4>1. lines[l] \in 1 .. Len(text)
        BY <1>2, <1>3, <1>5
      <4> QED  BY <1>4, <2>1, <2>3, <3>2, <4>1
    <3>4. l = Len(lines)
      <4>1. ~(offset < lines[l])
        BY <1>4, <3>3
      <4> QED  BY <4>1 DEF OnLine
    <3>5. lines[l] = Len(text) /\ offset = Len(text)
      BY <1>2, <1>4, <3>3, <3>4
    <3>6. k = Len(text)
      BY <2>1, <2>3, <3>2, <3>5
    <3> QED  BY <2>1, <3>5, <3>6
  <2>5. i \in 1 .. l - 1
    BY <1>7, <2>3, <2>4, <2>2
  <2> QED  BY <2>2, <2>5
<1>9. ASSUME NEW i \in 1 .. l - 1
      PROVE  lines[i] \in K /\ lines[i] <= line_start(lines, l)
  <2>1. i \in 1 .. Len(lines) /\ l # 1 /\ i \in Nat /\ i <= l - 1 /\ i < Len(lines)
    BY <1>7
  <2>2. l - 1 \in 1 .. Len(lines) /\ line_start(lines, l) = lines[l - 1]
    BY <1>6, <2>1
  <2>3. lines[i] <= lines[l - 1]
    <3>1. i = l - 1 \/ i < l - 1
      BY <1>7, <2>1
    <3>2. lines[i] = lines[l - 1] \/ lines[i] < lines[l - 1]
      BY <1>2, <2>1, <2>2, <3>1
    <3>3. lines[i] \in Nat /\ lines[l - 1] \in Nat
      BY <1>2, <1>3, <2>1, <2>2
    <3> QED  BY <3>2, <3>3
  <2>4. lines[i] < Len(text)
    <3>1. Len(lines) \in 1 .. Len(lines)
      BY <1>2
    <3> QED  BY <1>2, <2>1, <3>1
  <2>5. lines[i] \in LineEndings(text) /\ lines[i] \in Nat
    BY <1>2, <1>3, <2>1
  <2>6. lines[i] \in LineEnds(text)
    BY <1>4, <2>4, <2>5, EndsOfText
  <2>7. lines[i] <= offset
    BY <1>4, <1>5, <1>6, <2>2, <2>3, <2>5
  <2> QED  BY <2>2, <2>3, <2>6, <2>7
<1>10. LineOf(text, offset) = l - 1
  <2> DEFINE f == [i \in 1 .. l - 1 |-> lines[i]]
  <2>1. f \in [1 .. l - 1 -> K] /\ \A k \in K : \E i \in 1 .. l - 1 : f[i] = k
    <3> HIDE DEF K
    <3> QED  BY <1>8, <1>9
  <2>2. \A i, j \in 1 .. l - 1 : f[i] = f[j] => i = j
    <3> SUFFICES ASSUME NEW i \in 1 .. l - 1, NEW j \in 1 .. l - 1, lines[i] = lines[j]
                 PROVE  i = j
      OBVIOUS
    <3>1. i \in 1 .. Len(lines) /\ j \in 1 .. Len(lines) /\ i \in Nat /\ j \in Nat
      BY <1>7
    <3>2. lines[i] \in Nat
      BY <1>2, <1>3, <3>1
    <3>3. ~(i < j) /\ ~(j < i)
      BY <1>2, <3>1, <3>2
    <3> QED  BY <3>1, <3>3
  <2>3. PICK m : m = l - 1
    OBVIOUS
  <2>4. m \in Nat
    BY <1>7, <2>3
  <2>5. IsFiniteSet(1 .. m) /\ Cardinality(1 .. m) = m
    <3>1. 1 \in Int /\ m \in Int
      BY <2>4
    <3>2. IsFiniteSet(1 .. m) /\ Cardinality(1 .. m) = IF 1 > m THEN 0 ELSE m - 1 + 1
      BY <3>1, FS_Interval
    <3> QED  BY <2>4, <3>2
  <2>6. PICK I : I = 1 .. m
    OBVIOUS
  <2> HIDE DEF f, K
  <2>7. /\ f \in [I -> K] /\ IsFiniteSet(I)
        /\ \A i, j \in I : f[i] = f[j] => i = j
        /\ \A k \in K : \E i \in I : f[i] = k
    BY <2>1, <2>2, <2>3, <2>5, <2>6
  <2>8. Cardinality(K) = Cardinality(I)
    BY <2>7, SameNumber
  <2> QED  BY <2>3, <2>5, <2>6, <2>8 DEF LineOf, K
<1>11. StartOf(text, offset) = line_start(lines, l)
  <2> DEFINE S == {0} \cup K
  <2>1. \A k \in K : k \in Int
    BY <1>3, EndsOfText
  <2>2. line_start(lines, l) \in S
    <3>1. CASE l = 1
      BY <1>6, <3>1
    <3>2. CASE l # 1
      <4>1. l - 1 \in 1 .. l - 1
        BY <1>7, <3>2
      <4> HIDE DEF K
      <4> QED  BY <1>6, <1>9, <3>2, <4>1
    <3> QED  BY <3>1, <3>2
  <2>3. \A k \in S : line_start(lines, l) >= k
    <3> SUFFICES ASSUME NEW k \in K
                 PROVE  line_start(lines, l) >= k
      BY <1>6
    <3>1. PICK i \in 1 .. l - 1 : lines[i] = k
      BY <1>8
    <3>2. k <= line_start(lines, l) /\ k \in Int
      BY <1>9, <2>1, <3>1
    <3> QED  BY <1>6, <3>2
  <2>4. S \subseteq Int
    BY <2>1
  <2> HIDE DEF S
  <2>5. Max(S) = line_start(lines, l)
    BY <2>2, <2>3, <2>4, MaxIs
  <2> QED  BY <2>5 DEF StartOf, S, K
<1> QED  BY <1>10, <1>11

\* An offset can be named when a scalar or the content of its line ends there.
LEMMA NameableOnLine ==
  ASSUME NEW text \in ByteStrings, text # << >>, NEW lines, lines = Lines(text),
         NEW offset \in 0 .. Len(text), NEW l, OnLine(lines, l, offset),
         NEW content, LineAt(text, line_start(lines, l), content, lines[l])
  PROVE  /\ Nameable(text, offset)
              <=> /\ is_char_boundary(text, offset)
                  /\ line_start(lines, l) <= offset /\ offset <= content
         /\ Nameable(text, offset) => LineOf(text, offset) = l - 1
<1> DEFINE start == line_start(lines, l)
           end == lines[l]
<1>1. /\ Len(text) \in Nat /\ Len(text) >= 1 /\ offset \in Nat /\ offset <= Len(text)
  BY EmptySeq DEF ByteStrings
<1>2. /\ start \in Nat /\ content \in Nat /\ end \in Nat
      /\ start <= content /\ content <= end /\ start < end /\ end <= Len(text)
      /\ \A k \in start + 1 .. content : ~IsTerminatorByte(text[k])
      /\ content < end => IsTerminatorByte(text[content + 1])
  BY DEF LineAt
<1>3. start <= offset
  BY DEF OnLine
<1>4. offset <= end
  <2>1. LinesOf(lines, text)
    BY LinesFound
  <2>2. l = Len(lines) => end = Len(text)
    BY <2>1 DEF LinesOf
  <2>3. l = Len(lines) \/ offset < end
    BY DEF OnLine
  <2> QED  BY <1>1, <1>2, <2>2, <2>3
<1>5. ~IsTerminatorByte(text[Len(text)]) => Len(text) \notin LineEnds(text)
  BY DEF LineEnds, IsTerminatorByte
<1>6. (offset = Len(text) => ~IsTerminatorByte(text[Len(text)]))
        => LineOf(text, offset) = l - 1 /\ StartOf(text, offset) = start
  BY <1>5, EndsBefore
<1> HIDE DEF start, end
<1>7. ASSUME Nameable(text, offset)
      PROVE  is_char_boundary(text, offset) /\ offset <= content
             /\ LineOf(text, offset) = l - 1
  <2>1. offset = Len(text) => ~IsTerminatorByte(text[Len(text)])
    BY <1>7 DEF Nameable
  <2>2. LineOf(text, offset) = l - 1 /\ StartOf(text, offset) = start
    BY <1>6, <2>1
  <2>3. \A k \in start + 1 .. offset : ~IsTerminatorByte(text[k])
    BY <1>7, <2>2 DEF Nameable
  <2>4. ASSUME ~(offset <= content)
        PROVE  FALSE
    <3>1. content < end /\ content + 1 \in start + 1 .. offset
      BY <1>1, <1>2, <1>4, <2>4
    <3> QED  BY <1>2, <2>3, <3>1
  <2>5. is_char_boundary(text, offset)
    BY <1>7 DEF Nameable
  <2> QED  BY <2>2, <2>4, <2>5
<1>8. ASSUME is_char_boundary(text, offset), offset <= content
      PROVE  Nameable(text, offset)
  <2>1. ASSUME offset = Len(text)
        PROVE  ~IsTerminatorByte(text[Len(text)])
    <3>1. offset \in start + 1 .. content
      BY <1>1, <1>2, <1>8, <2>1
    <3> QED  BY <1>2, <2>1, <3>1
  <2>2. StartOf(text, offset) = start
    BY <1>6, <2>1
  <2>3. ASSUME NEW k \in start + 1 .. offset
        PROVE  ~IsTerminatorByte(text[k])
    <3>1. k \in start + 1 .. content
      BY <1>1, <1>2, <1>8
    <3> QED  BY <1>2, <3>1
  <2> QED  BY <1>8, <2>1, <2>2, <2>3 DEF Nameable
<1> QED  BY <1>3, <1>7, <1>8 DEF start

-----------------------------------------------------------------------------
(***************************************************************************)
(* The scalars of a line, and their code units.                            *)
(***************************************************************************)
LEMMA ByteAt ==
  ASSUME NEW text \in ByteStrings
  PROVE  Len(text) \in Nat /\ \A k \in 1 .. Len(text) : text[k] \in 0 .. 255
<1>1. PICK S : S = 0 .. 255
  OBVIOUS
<1>2. text \in Seq(S)
  BY <1>1 DEF ByteStrings
<1>3. Len(text) \in Nat /\ text \in [1 .. Len(text) -> S]
  BY <1>2, LenProperties
<1> QED  BY <1>1, <1>3

LEMMA ContentOfLine ==
  ASSUME NEW text \in ByteStrings, NEW s \in Nat, NEW e \in Nat, s <= e, e <= Len(text),
         NEW content, content = Slice(text, s, e)
  PROVE  /\ content \in ByteStrings /\ Len(content) = e - s
         /\ \A p \in 0 .. e - s - 1 : content[p + 1] = text[s + p + 1]
<1>1. text \in Seq(0 .. 255) /\ Len(text) \in Nat
  BY DEF ByteStrings
<1>2. \A k \in (s + 1) .. e : k \in 1 .. Len(text)
  BY <1>1
<1>3. content = SubSeq(text, s + 1, e)
  BY DEF Slice
<1>4. content \in Seq(0 .. 255) /\ Len(content) = e - s
  <2>1. PICK from : from = s + 1
    OBVIOUS
  <2>2. from \in Int /\ e \in Int /\ \A k \in from .. e : text[k] \in 0 .. 255
    <3>1. \A k \in from .. e : k \in 1 .. Len(text)
      BY <1>2, <2>1
    <3>2. \A k \in from .. e : text[k] \in 0 .. 255
      BY <3>1, ByteAt
    <3> QED  BY <2>1, <3>2
  <2>3. /\ SubSeq(text, from, e) \in Seq(0 .. 255)
        /\ Len(SubSeq(text, from, e)) = IF from <= e THEN e - from + 1 ELSE 0
    BY <2>2, SubSeqProperties
  <2> QED  BY <1>3, <2>1, <2>3
<1>5. ASSUME NEW p \in 0 .. e - s - 1
      PROVE  content[p + 1] = text[s + p + 1]
  <2>1. PICK k : k = p + 1
    OBVIOUS
  <2>2. k \in 1 .. e - s /\ (s + 1) + k - 1 = s + p + 1
    BY <2>1
  <2>3. content[k] = text[(s + 1) + k - 1]
    BY <1>1, <1>2, <1>3, <2>2
  <2> QED  BY <2>1, <2>2, <2>3
<1> QED  BY <1>4, <1>5 DEF ByteStrings

LEMMA ScalarsFinite ==
  ASSUME NEW text \in ByteStrings
  PROVE  /\ Scalars(text) \subseteq 0 .. Len(text) - 1
         /\ IsFiniteSet(Scalars(text)) /\ Cardinality(Scalars(text)) \in Nat
<1>1. Scalars(text) \subseteq 0 .. Len(text) - 1
  BY DEF Scalars
<1>2. PICK m : m = Len(text) - 1
  OBVIOUS
<1>3. m \in Int /\ 0 \in Int
  BY <1>2 DEF ByteStrings
<1>4. IsFiniteSet(0 .. m)
  BY <1>3, FS_Interval
<1>5. IsFiniteSet(Scalars(text))
  BY <1>1, <1>2, <1>4, FS_Subset
<1> QED  BY <1>1, <1>5, FS_CardinalityType

\* The scalars of a part of a text are scalars of the text.
LEMMA ScalarsOfPart ==
  ASSUME NEW text \in ByteStrings, NEW s \in Nat, NEW e \in Nat, s <= e, e <= Len(text),
         NEW content, content = Slice(text, s, e)
  PROVE  /\ \A p \in 0 .. e - s - 1 :
              is_char_boundary(content, p) <=> is_char_boundary(text, s + p)
         /\ Cardinality(Scalars(content)) <= Cardinality(Scalars(text))
<1>1. /\ content \in ByteStrings /\ Len(content) = e - s
      /\ \A p \in 0 .. e - s - 1 : content[p + 1] = text[s + p + 1]
  BY ContentOfLine
<1>2. Len(text) \in Nat
  BY DEF ByteStrings
<1>3. ASSUME NEW p \in 0 .. e - s - 1
      PROVE  is_char_boundary(content, p) <=> is_char_boundary(text, s + p)
  <2>1. p # Len(content) /\ p \in 0 .. Len(content) - 1
    BY <1>1
  <2>2. s + p # Len(text) /\ s + p \in 0 .. Len(text) - 1
    BY <1>2
  <2>3. content[p + 1] = text[s + p + 1]
    BY <1>1
  <2>4. PICK a : a = content[p + 1]
    OBVIOUS
  <2>5. is_char_boundary(content, p) <=> a \notin 128 .. 191
    BY <2>1, <2>4 DEF is_char_boundary
  <2>6. PICK q : q = s + p
    OBVIOUS
  <2>7. is_char_boundary(text, q) <=> a \notin 128 .. 191
    <3>1. q # Len(text) /\ q \in 0 .. Len(text) - 1 /\ text[q + 1] = a
      BY <2>2, <2>3, <2>4, <2>6
    <3> QED  BY <3>1 DEF is_char_boundary
  <2> QED  BY <2>5, <2>6, <2>7
<1> DEFINE f == [p \in Scalars(content) |-> s + p]
<1>4. Scalars(content) \subseteq 0 .. e - s - 1
  BY <1>1, ScalarsFinite
<1>5. ASSUME NEW p \in Scalars(content)
      PROVE  s + p \in Scalars(text)
  <2>1. p \in 0 .. e - s - 1 /\ is_char_boundary(content, p)
    BY <1>4 DEF Scalars
  <2>2. s + p \in 0 .. Len(text) - 1 /\ is_char_boundary(text, s + p)
    BY <1>2, <1>3, <2>1
  <2> QED  BY <2>2 DEF Scalars
<1>6. f \in Injection(Scalars(content), Scalars(text))
  <2>1. f \in [Scalars(content) -> Scalars(text)]
    BY <1>5
  <2>2. \A p, q \in Scalars(content) : f[p] = f[q] => p = q
    BY <1>4
  <2> HIDE DEF f
  <2> QED  BY <2>1, <2>2 DEF Injection, IsInjective
<1>7. IsFiniteSet(Scalars(text))
  BY ScalarsFinite
<1>8. Cardinality(Scalars(content)) <= Cardinality(Scalars(text))
  <2> HIDE DEF f
  <2> QED  BY <1>6, <1>7, FS_Injection
<1> QED  BY <1>3, <1>8

\* The scalars before an offset of a line.
Before(content, offset) == {p \in Scalars(content) : p < offset}

LEMMA BeforeCount ==
  ASSUME NEW content \in ByteStrings, NEW q
  PROVE  /\ IsFiniteSet(Before(content, q)) /\ Cardinality(Before(content, q)) \in Nat
         /\ Cardinality(Before(content, q)) <= Cardinality(Scalars(content))
<1>1. Before(content, q) \in SUBSET Scalars(content) /\ IsFiniteSet(Scalars(content))
  BY ScalarsFinite DEF Before
<1>2. IsFiniteSet(Before(content, q))
      /\ Cardinality(Before(content, q)) <= Cardinality(Scalars(content))
  BY <1>1, FS_Subset
<1> QED  BY <1>2, FS_CardinalityType

\* A scalar is one more than what is before it.
LEMMA BeforeGrows ==
  ASSUME NEW content \in ByteStrings, NEW p \in Scalars(content), NEW q \in Nat, p < q
  PROVE  Cardinality(Before(content, p)) # Cardinality(Before(content, q))
<1>1. p \in Nat
  BY ScalarsFinite
<1>2. Before(content, p) \in SUBSET Before(content, q)
  <2>1. ASSUME NEW o \in Before(content, p)
        PROVE  o \in Before(content, q)
    <3>1. o \in Scalars(content) /\ o < p /\ o \in Nat
      BY ScalarsFinite DEF Before
    <3>2. o < q
      BY <1>1, <3>1
    <3> QED  BY <3>1, <3>2 DEF Before
  <2> QED  BY <2>1
<1>3. p \in Before(content, q) /\ p \notin Before(content, p)
  BY <1>1 DEF Before
<1>4. IsFiniteSet(Before(content, q))
  BY BeforeCount
<1>5. PICK A, B : A = Before(content, p) /\ B = Before(content, q)
  OBVIOUS
<1>6. Cardinality(B) = Cardinality(A) => B = A
  <2>1. IsFiniteSet(B) /\ A \in SUBSET B
    BY <1>2, <1>4, <1>5
  <2> QED  BY <2>1, FS_Subset
<1> QED  BY <1>3, <1>5, <1>6

LEMMA WidthPositive ==
  ASSUME NEW encoding \in Encodings, NEW lead \in Int
  PROVE  Width(encoding, lead) \in 1 .. 4
<1>1. CASE encoding = "utf-8"
  BY <1>1 DEF Width
<1>2. CASE encoding = "utf-16"
  BY <1>2 DEF Width
<1>3. CASE encoding = "utf-32"
  BY <1>3 DEF Width
<1> QED  BY <1>1, <1>2, <1>3 DEF Encodings

UnitSet(content, encoding, offset) ==
  {u \in Scalars(content) \X (1 .. 4) :
     u[1] < offset /\ u[2] <= Width(encoding, content[u[1] + 1])}

\* A scalar has a code unit at least.
LEMMA UnitsOrder ==
  ASSUME NEW content \in ByteStrings, NEW encoding \in Encodings,
         NEW p \in Nat, NEW q \in Nat
  PROVE  /\ Units(content, encoding, p) \in Nat
         /\ p <= q => Units(content, encoding, p) <= Units(content, encoding, q)
         /\ p \in Scalars(content) /\ p < q =>
              Units(content, encoding, p) < Units(content, encoding, q)
<1> DEFINE U(o) == UnitSet(content, encoding, o)
<1>1. \A o : Units(content, encoding, o) = Cardinality(U(o))
  BY DEF Units, UnitSet
<1>2. \A o : IsFiniteSet(U(o)) /\ Cardinality(U(o)) \in Nat
  <2> SUFFICES ASSUME NEW o
               PROVE  IsFiniteSet(U(o)) /\ Cardinality(U(o)) \in Nat
    OBVIOUS
  <2>1. IsFiniteSet(Scalars(content))
    BY ScalarsFinite
  <2>2. IsFiniteSet(1 .. 4)
    BY 1 \in Int, 4 \in Int, FS_Interval
  <2>3. IsFiniteSet(Scalars(content) \X (1 .. 4))
    BY <2>1, <2>2, FS_Product
  <2>4. U(o) \in SUBSET (Scalars(content) \X (1 .. 4))
    BY DEF UnitSet
  <2>5. IsFiniteSet(U(o))
    BY <2>3, <2>4, FS_Subset
  <2> QED  BY <2>5, FS_CardinalityType
<1>3. ASSUME p <= q
      PROVE  U(p) \in SUBSET U(q)
  <2>1. ASSUME NEW u \in U(p)
        PROVE  u \in U(q)
    <3>1. /\ u \in Scalars(content) \X (1 .. 4) /\ u[1] < p
          /\ u[2] <= Width(encoding, content[u[1] + 1])
      BY DEF UnitSet
    <3>2. u[1] \in Nat
      BY <3>1, ScalarsFinite
    <3>3. u[1] < q
      BY <1>3, <3>1, <3>2
    <3> QED  BY <3>1, <3>3 DEF UnitSet
  <2> QED  BY <2>1
<1>4. ASSUME p \in Scalars(content), p < q
      PROVE  <<p, 1>> \in U(q) /\ <<p, 1>> \notin U(p)
  <2>1. content[p + 1] \in Int
    <3>1. content \in Seq(0 .. 255) /\ Len(content) \in Nat
      BY DEF ByteStrings
    <3>2. PICK k : k = p + 1
      OBVIOUS
    <3>3. k \in 1 .. Len(content)
      BY <1>4, <3>1, <3>2, ScalarsFinite
    <3>4. content[k] \in 0 .. 255
      BY <3>3, ByteAt
    <3> QED  BY <3>2, <3>4
  <2>2. 1 <= Width(encoding, content[p + 1])
    BY <2>1, WidthPositive
  <2>3. PICK u : u = <<p, 1>>
    OBVIOUS
  <2>4. u \in Scalars(content) \X (1 .. 4) /\ u[1] = p /\ u[2] = 1
    BY <1>4, <2>3
  <2>5. u \in U(q)
    BY <1>4, <2>2, <2>4 DEF UnitSet
  <2>6. u \notin U(p)
    BY <2>4 DEF UnitSet
  <2> QED  BY <2>3, <2>5, <2>6
<1>5. PICK A, B : A = U(p) /\ B = U(q)
  OBVIOUS
<1> HIDE DEF U
<1>6. p <= q => Cardinality(A) <= Cardinality(B)
  BY <1>2, <1>3, <1>5, FS_Subset
<1>7. p \in Scalars(content) /\ p < q => Cardinality(A) < Cardinality(B)
  <2> SUFFICES ASSUME p \in Scalars(content), p < q
               PROVE  Cardinality(A) < Cardinality(B)
    OBVIOUS
  <2>1. A # B
    BY <1>4, <1>5
  <2>2. IsFiniteSet(B) /\ A \in SUBSET B
    BY <1>2, <1>3, <1>5
  <2>3. Cardinality(A) <= Cardinality(B) /\ Cardinality(A) # Cardinality(B)
    BY <2>1, <2>2, FS_Subset
  <2>4. Cardinality(A) \in Nat /\ Cardinality(B) \in Nat
    BY <1>2, <1>5
  <2> QED  BY <2>3, <2>4
<1> QED  BY <1>1, <1>2, <1>5, <1>6, <1>7

-----------------------------------------------------------------------------
(***************************************************************************)
(* There and back.                                                         *)
(***************************************************************************)
LEMMA ChargeOk ==
  ASSUME NEW n \in Nat, n <= MaxScanned, NEW value
  PROVE  Charge(0, n, Ok(value, 0)) = Ok(value, n)
<1>1. ~(0 + n > MaxScanned) /\ 0 + n = n
  BY MaxScannedAssumption
<1>2. Charge(0, n, Ok(value, 0)) = [Ok(value, 0) EXCEPT !.scanned = n]
  BY <1>1 DEF Charge
<1> QED  BY <1>2 DEF Ok

LEMMA ChargeFails ==
  ASSUME NEW n \in Nat, n > MaxScanned, NEW outcome
  PROVE  Charge(0, n, outcome) = Err("WorkLimitExceeded", MaxScanned)
<1>1. 0 + n > MaxScanned
  BY MaxScannedAssumption
<1> QED  BY <1>1 DEF Charge

\* The code units before a scalar lead back to it.
LEMMA UnitsBack ==
  ASSUME NEW content \in ByteStrings, NEW encoding \in Encodings,
         NEW r \in 0 .. Len(content), is_char_boundary(content, r),
         Cardinality(Before(content, r)) <= MaxScanned
  PROVE  encoded_units_to_byte(content, Units(content, encoding, r), encoding, 0)
           = Ok(r, Cardinality(Before(content, r)))
<1> DEFINE U(o) == Units(content, encoding, o)
           examined == {o \in Scalars(content) : U(o) < U(r)}
           left == Scalars(content) \ examined
           stop == IF left = {} THEN Len(content) ELSE Min(left)
           n == Cardinality(examined)
<1>1. Len(content) \in Nat /\ r \in Nat /\ r <= Len(content)
  BY DEF ByteStrings
<1>2. Scalars(content) \subseteq 0 .. Len(content) - 1
  BY ScalarsFinite
<1>3. U(r) \in Nat
  BY <1>1, UnitsOrder
<1>4. ASSUME NEW p \in Scalars(content)
      PROVE  U(p) < U(r) <=> p < r
  <2>1. p \in Nat
    BY <1>2
  <2>2. U(p) \in Nat /\ (p < r => U(p) < U(r))
    BY <1>1, <2>1, UnitsOrder
  <2>3. r <= p => U(r) <= U(p)
    BY <1>1, <2>1, UnitsOrder
  <2> HIDE DEF U
  <2> QED  BY <1>1, <1>3, <2>1, <2>2, <2>3
<1>5. examined = Before(content, r)
  <2> HIDE DEF U
  <2> QED  BY <1>4 DEF Before
<1>6. left = {p \in Scalars(content) : ~(p < r)}
  <2> HIDE DEF U
  <2> QED  BY <1>4
<1> HIDE DEF examined, left
<1>7. stop = r
  <2>1. CASE r = Len(content)
    <3>1. left = {}
      <4>1. \A p \in Scalars(content) : p < r
        BY <1>1, <1>2, <2>1
      <4> QED  BY <1>6, <4>1
    <3> QED  BY <2>1, <3>1
  <2>2. CASE r # Len(content)
    <3>1. r \in 0 .. Len(content) - 1
      BY <1>1, <2>2
    <3>2. r \in Scalars(content)
      BY <3>1 DEF Scalars
    <3>3. r \in left
      BY <1>1, <1>6, <3>2
    <3>4. left \subseteq Int /\ \A p \in left : r <= p
      BY <1>1, <1>2, <1>6
    <3>5. Min(left) = r
      BY <3>3, <3>4, MinIs
    <3> QED  BY <3>3, <3>5
  <2> QED  BY <2>1, <2>2
<1> HIDE DEF stop
<1>8. ~(U(stop) > U(r))
  <2> HIDE DEF U
  <2> QED  BY <1>3, <1>7
<1>9. encoded_units_to_byte(content, U(r), encoding, 0)
        = Charge(0, n, IF U(stop) > U(r) THEN Err("CharacterSplitsCodeUnit", 0)
                       ELSE Ok(stop, 0))
  BY DEF encoded_units_to_byte, examined, left, stop
<1>10. encoded_units_to_byte(content, U(r), encoding, 0) = Charge(0, n, Ok(r, 0))
  <2> HIDE DEF U
  <2> QED  BY <1>7, <1>8, <1>9
<1>11. n \in Nat /\ n <= MaxScanned /\ n = Cardinality(Before(content, r))
  BY <1>5, BeforeCount
<1>12. Charge(0, n, Ok(r, 0)) = Ok(r, n)
  <2> HIDE DEF n
  <2> QED  BY <1>11, ChargeOk
<1> QED  BY <1>10, <1>11, <1>12

LEMMA Utf8Back ==
  ASSUME NEW content \in ByteStrings,
         NEW r \in 0 .. Len(content), is_char_boundary(content, r)
  PROVE  utf8_units_to_byte(content, r, 0) = Ok(r, 0)
<1>1. Len(content) \in Nat
  BY DEF ByteStrings
<1>2. CASE r = Len(content)
  BY <1>1, <1>2 DEF utf8_units_to_byte
<1>3. CASE r # Len(content)
  <2>1. ~(r >= Len(content))
    BY <1>1, <1>3
  <2> QED  BY <2>1 DEF utf8_units_to_byte
<1> QED  BY <1>2, <1>3

\* The number of scalars before a scalar leads back to it.
LEMMA ColumnBack ==
  ASSUME NEW content \in ByteStrings,
         NEW r \in 0 .. Len(content), is_char_boundary(content, r)
  PROVE  Min({o \in Scalars(content) \cup {Len(content)} :
                Cardinality({p \in Scalars(content) : p < o})
                  = Cardinality(Before(content, r))}) = r
<1> DEFINE S == {o \in Scalars(content) \cup {Len(content)} :
                   Cardinality(Before(content, o)) = Cardinality(Before(content, r))}
<1>1. Len(content) \in Nat /\ r \in Nat /\ r <= Len(content)
  BY DEF ByteStrings
<1>2. Scalars(content) \subseteq 0 .. Len(content) - 1
  BY ScalarsFinite
<1>3. r \in S
  <2>1. r \in Scalars(content) \cup {Len(content)}
    BY <1>1 DEF Scalars, is_char_boundary
  <2> QED  BY <2>1
<1>4. S \subseteq Int
  BY <1>1, <1>2
<1>5. ASSUME NEW o \in S
      PROVE  r <= o
  <2>1. o \in Int
    BY <1>4
  <2>2. ASSUME o < r
        PROVE  FALSE
    <3>1. o \in Scalars(content)
      BY <1>1, <2>2
    <3>2. Cardinality(Before(content, o)) # Cardinality(Before(content, r))
      BY <1>1, <2>2, <3>1, BeforeGrows
    <3> QED  BY <3>2
  <2> QED  BY <1>1, <2>1, <2>2
<1>6. Min(S) = r
  <2> HIDE DEF S
  <2> QED  BY <1>3, <1>4, <1>5, MinIs
<1> QED  BY <1>6 DEF Before

\* What is known of an offset that can be named, and of its line.
Placed(text, offset, l, start, content, r) ==
  /\ l \in 1 .. Len(Lines(text)) /\ l - 1 = LineOf(text, offset)
  /\ start = line_bounds(text, l).start /\ start \in Nat
  /\ content = line_content(text, line_bounds(text, l)) /\ content \in ByteStrings
  /\ r = offset - start /\ r \in 0 .. Len(content) /\ is_char_boundary(content, r)
  /\ Cardinality(Scalars(content)) <= Cardinality(Scalars(text))

LEMMA PlacedOnLine ==
  ASSUME NEW text \in ByteStrings, text # << >>, NEW offset \in 0 .. Len(text),
         is_char_boundary(text, offset),
         NEW lines, lines = Lines(text), NEW l, OnLine(lines, l, offset),
         NEW bounds, bounds = line_bounds(text, l)
  PROVE  /\ Nameable(text, offset) <=> offset \in bounds.start .. bounds.content_end
         /\ Nameable(text, offset) =>
              /\ Placed(text, offset, l, bounds.start, line_content(text, bounds),
                        offset - bounds.start)
              /\ offset <= bounds.content_end
<1>1. l \in 1 .. Len(lines)
  BY DEF OnLine
<1>2. PICK start, end, ce : start = bounds.start /\ end = bounds.end /\ ce = bounds.content_end
  OBVIOUS
<1>3. /\ start = line_start(lines, l) /\ end = lines[l]
      /\ LineAt(text, start, ce, end)
  BY <1>1, <1>2, BoundsFound
<1>4. /\ Nameable(text, offset) <=> /\ is_char_boundary(text, offset)
                                    /\ start <= offset /\ offset <= ce
      /\ Nameable(text, offset) => LineOf(text, offset) = l - 1
  BY <1>3, NameableOnLine
<1>5. /\ start \in Nat /\ ce \in Nat /\ start <= ce /\ ce <= Len(text)
      /\ Len(text) \in Nat /\ offset \in Nat
  <2>1. /\ start \in Nat /\ ce \in Nat /\ end \in Nat /\ start <= ce /\ ce <= end
        /\ end <= Len(text)
    BY <1>3 DEF LineAt
  <2>2. Len(text) \in Nat
    BY DEF ByteStrings
  <2> QED  BY <2>1, <2>2
<1>6. Nameable(text, offset) <=> offset \in start .. ce
  BY <1>4, <1>5
<1>7. ASSUME Nameable(text, offset)
      PROVE  Placed(text, offset, l, start, line_content(text, bounds), offset - start)
             /\ offset <= ce
  <2>1. PICK content, r : content = line_content(text, bounds) /\ r = offset - start
    OBVIOUS
  <2>2. content = Slice(text, start, ce)
    BY <1>2, <2>1 DEF line_content
  <2>3. content \in ByteStrings /\ Len(content) = ce - start
    BY <1>5, <2>2, ContentOfLine
  <2>4. r \in 0 .. ce - start /\ start + r = offset
    BY <1>5, <1>6, <1>7, <2>1
  <2>5. is_char_boundary(content, r)
    <3>1. CASE r = Len(content)
      BY <3>1 DEF is_char_boundary
    <3>2. CASE r # Len(content)
      <4>1. r \in 0 .. ce - start - 1
        BY <1>5, <2>3, <2>4, <3>2
      <4>2. is_char_boundary(content, r) <=> is_char_boundary(text, start + r)
        BY <1>5, <2>2, <4>1, ScalarsOfPart
      <4> QED  BY <2>4, <4>2
    <3> QED  BY <3>1, <3>2
  <2>6. Cardinality(Scalars(content)) <= Cardinality(Scalars(text))
    BY <1>5, <2>2, ScalarsOfPart
  <2>7. r \in 0 .. Len(content)
    BY <2>3, <2>4
  <2>8. Placed(text, offset, l, start, content, r)
    BY <1>1, <1>2, <1>4, <1>5, <1>7, <2>1, <2>3, <2>5, <2>6, <2>7 DEF Placed
  <2> QED  BY <1>4, <1>7, <2>1, <2>8
<1> QED  BY <1>2, <1>6, <1>7

\* The at of a scalar of a line leads back to its offset.
LEMMA LspBack ==
  ASSUME NEW text \in ByteStrings, NEW encoding \in Encodings,
         NEW offset \in 0 .. Len(text), NEW l, NEW start, NEW content, NEW r,
         Placed(text, offset, l, start, content, r),
         NEW ch,
         IF encoding = "utf-8" THEN ch = r
         ELSE /\ ch = Units(content, encoding, r)
              /\ Cardinality(Before(content, r)) <= MaxScanned,
         NEW back,
         back = lsp_position_to_byte(text, encoding, [line |-> l - 1, character |-> ch], 0)
  PROVE  back.ok /\ back.value = offset
<1>1. /\ l \in 1 .. Len(Lines(text)) /\ start \in Nat
      /\ content \in ByteStrings /\ r \in 0 .. Len(content)
      /\ is_char_boundary(content, r) /\ r = offset - start
  BY DEF Placed
<1>2. PICK bounds : bounds = line_bounds(text, l)
  OBVIOUS
<1>3. start = bounds.start /\ content = line_content(text, bounds)
  BY <1>2 DEF Placed
<1>4. PICK at : at = [line |-> l - 1, character |-> ch]
  OBVIOUS
<1>5. at.line + 1 = l /\ at.character = ch
  <2>1. LinesOf(Lines(text), text)
    BY LinesFound
  <2>2. Len(Lines(text)) \in Nat /\ l \in 1 .. Len(Lines(text))
    BY <1>1, <2>1 DEF LinesOf
  <2>3. l \in Int
    BY <2>2
  <2>4. at.line = l - 1
    BY <1>4
  <2> QED  BY <1>4, <2>3, <2>4
<1>6. l \in DOMAIN Lines(text)
  <2>1. LinesOf(Lines(text), text)
    BY LinesFound
  <2> QED  BY <1>1, <2>1 DEF LinesOf
<1> DEFINE relative == IF encoding = "utf-8" THEN utf8_units_to_byte(content, ch, 0)
                       ELSE encoded_units_to_byte(content, ch, encoding, 0)
           Shift(found, from) ==
             IF found.ok THEN [found EXCEPT !.value = from + @] ELSE found
<1>7. back = Shift(relative, start)
  <2>1. PICK line : line = at.line + 1
    OBVIOUS
  <2>2. line = l
    BY <1>5, <2>1
  <2>3. back = IF line \notin DOMAIN Lines(text) THEN Err("NonexistentLine", 0)
               ELSE Shift(IF encoding = "utf-8"
                          THEN utf8_units_to_byte(line_content(text, line_bounds(text, line)),
                                                  at.character, 0)
                          ELSE encoded_units_to_byte(
                                 line_content(text, line_bounds(text, line)),
                                 at.character, encoding, 0),
                          line_bounds(text, line).start)
    BY <1>4, <2>1 DEF lsp_position_to_byte
  <2> HIDE DEF Shift
  <2> QED  BY <1>2, <1>3, <1>5, <1>6, <2>2, <2>3
<1>8. \E n : relative = Ok(r, n)
  <2>1. CASE encoding = "utf-8"
    BY <1>1, <2>1, Utf8Back
  <2>2. CASE encoding # "utf-8"
    BY <1>1, <2>2, UnitsBack
  <2> QED  BY <2>1, <2>2
<1> HIDE DEF relative
<1>9. PICK n : relative = Ok(r, n)
  BY <1>8
<1>10. back = [Ok(r, n) EXCEPT !.value = start + @]
  BY <1>7, <1>9 DEF Ok
<1>11. back.ok /\ back.value = start + r
  BY <1>10 DEF Ok
<1>12. start + r = offset
  <2>1. offset \in Int
    <3>1. Len(text) \in Nat
      BY ByteAt
    <3> QED  BY <3>1
  <2> QED  BY <1>1, <2>1
<1> QED  BY <1>11, <1>12

\* Of the empty text no offset can be named.
LEMMA NothingNameable ==
  ASSUME NEW text, text = << >>, NEW offset \in 0 .. Len(text)
  PROVE  ~Nameable(text, offset)
<1>1. Len(text) = 0 /\ offset = Len(text)
  BY EmptySeq
<1> QED  BY <1>1 DEF Nameable

\* What LSP can name has a position, and the position leads back.
LEMMA LspRoundTrip ==
  ASSUME NEW text \in ByteStrings, NEW encoding \in Encodings,
         NEW offset \in 0 .. Len(text),
         NEW named, named = byte_to_lsp_position(text, encoding, offset, 0)
  PROVE  /\ (named.ok \/ Exhausted(named, text)) <=> Nameable(text, offset)
         /\ named.ok =>
              /\ named.value.line = LineOf(text, offset)
              /\ lsp_position_to_byte(text, encoding, named.value, 0).ok
              /\ lsp_position_to_byte(text, encoding, named.value, 0).value = offset
<1>1. PICK lines, l, bounds :
        /\ lines = Lines(text) /\ l = line_for_byte(text, offset)
        /\ bounds = line_bounds(text, l)
  OBVIOUS
<1>2. PICK content, r : content = line_content(text, bounds) /\ r = offset - bounds.start
  OBVIOUS
<1>3. PICK n : n = Cardinality(Before(content, r))
  OBVIOUS
<1> DEFINE At(ch) == [line |-> l - 1, character |-> ch]
           units == Units(content, encoding, r)
           outside == offset \notin bounds.start .. bounds.content_end
           unnamed == ~is_char_boundary(text, offset) \/ lines = << >>
<1>4. named = IF unnamed THEN Err("ByteNotRepresentable", 0)
              ELSE IF outside THEN Err("ByteNotRepresentable", 0)
              ELSE IF encoding = "utf-8" THEN Ok(At(r), 0)
              ELSE Charge(0, n, Ok(At(units), 0))
  BY <1>1, <1>2, <1>3 DEF byte_to_lsp_position, Before
<1>5. /\ (lines = << >>) = (text = << >>)
  <2>1. LinesOf(lines, text)
    BY <1>1, LinesFound
  <2> QED  BY <2>1 DEF LinesOf
<1> HIDE DEF outside, unnamed, At, units
<1>6. CASE unnamed
  <2>1. named = Err("ByteNotRepresentable", 0)
    BY <1>4, <1>6
  <2>2. ~named.ok /\ ~Exhausted(named, text)
    BY <2>1 DEF Err, Exhausted
  <2>3. ~Nameable(text, offset)
    <3>1. CASE ~is_char_boundary(text, offset)
      BY <3>1 DEF Nameable
    <3>2. CASE text = << >>
      BY <3>2, NothingNameable
    <3> QED  BY <1>5, <1>6, <3>1, <3>2 DEF unnamed
  <2> QED  BY <2>2, <2>3
<1>7. CASE ~unnamed
  <2>1. is_char_boundary(text, offset) /\ text # << >>
    BY <1>5, <1>7 DEF unnamed
  <2>2. OnLine(lines, l, offset)
    BY <1>1, <2>1, LineForByte
  <2>3. /\ Nameable(text, offset) <=> ~outside
        /\ Nameable(text, offset) => Placed(text, offset, l, bounds.start, content, r)
    BY <1>1, <1>2, <2>1, <2>2, PlacedOnLine DEF outside
  <2>4. CASE outside
    <3>1. named = Err("ByteNotRepresentable", 0)
      BY <1>4, <1>7, <2>4
    <3>2. ~named.ok /\ ~Exhausted(named, text)
      BY <3>1 DEF Err, Exhausted
    <3> QED  BY <2>3, <2>4, <3>2
  <2>5. CASE ~outside
    <3>1. Nameable(text, offset) /\ Placed(text, offset, l, bounds.start, content, r)
      BY <2>3, <2>5
    <3>2. l - 1 = LineOf(text, offset)
      BY <3>1 DEF Placed
    <3>3. ASSUME NEW ch, NEW m, named = Ok(At(ch), m),
                 IF encoding = "utf-8" THEN ch = r
                 ELSE /\ ch = Units(content, encoding, r)
                      /\ Cardinality(Before(content, r)) <= MaxScanned
          PROVE  /\ named.ok /\ named.value.line = LineOf(text, offset)
                 /\ lsp_position_to_byte(text, encoding, named.value, 0).ok
                 /\ lsp_position_to_byte(text, encoding, named.value, 0).value = offset
      <4>1. named.ok /\ named.value = [line |-> l - 1, character |-> ch]
        BY <3>3 DEF Ok, At
      <4>2. named.value.line = LineOf(text, offset)
        BY <3>2, <4>1
      <4>3. PICK back : back = lsp_position_to_byte(text, encoding, named.value, 0)
        OBVIOUS
      <4>4. back.ok /\ back.value = offset
        BY <3>1, <3>3, <4>1, <4>3, LspBack
      <4> QED  BY <4>1, <4>2, <4>3, <4>4
    <3>4. CASE encoding = "utf-8"
      <4>1. named = Ok(At(r), 0)
        BY <1>4, <1>7, <2>5, <3>4
      <4> QED  BY <3>1, <3>3, <3>4, <4>1
    <3>5. CASE encoding # "utf-8" /\ n <= MaxScanned
      <4>1. n \in Nat
        BY <1>3, <3>1, BeforeCount DEF Placed
      <4>2. named = Charge(0, n, Ok(At(units), 0))
        BY <1>4, <1>7, <2>5, <3>5
      <4>3. named = Ok(At(units), n)
        BY <3>5, <4>1, <4>2, ChargeOk
      <4> QED  BY <1>3, <3>1, <3>3, <3>5, <4>3 DEF units
    <3>6. CASE encoding # "utf-8" /\ ~(n <= MaxScanned)
      <4>1. /\ n \in Nat /\ n <= Cardinality(Scalars(content))
            /\ Cardinality(Scalars(content)) <= Cardinality(Scalars(text))
            /\ Cardinality(Scalars(content)) \in Nat
        BY <1>3, <3>1, BeforeCount, ScalarsFinite DEF Placed
      <4>2. Cardinality(Scalars(text)) \in Nat
        BY ScalarsFinite
      <4>3. n > MaxScanned /\ Cardinality(Scalars(text)) > MaxScanned
        BY <3>6, <4>1, <4>2, MaxScannedAssumption
      <4>4. named = Charge(0, n, Ok(At(units), 0))
        BY <1>4, <1>7, <2>5, <3>6
      <4>5. named = Err("WorkLimitExceeded", MaxScanned)
        BY <4>1, <4>3, <4>4, ChargeFails
      <4>6. ~named.ok /\ Exhausted(named, text)
        BY <4>3, <4>5 DEF Err, Exhausted
      <4> QED  BY <3>1, <4>6
    <3> QED  BY <3>4, <3>5, <3>6
  <2> QED  BY <2>4, <2>5
<1> QED  BY <1>6, <1>7

\* The line and column of a scalar lead back to its offset.
LEMMA UserBack ==
  ASSUME NEW text \in ByteStrings, NEW offset \in 0 .. Len(text),
         NEW l, NEW start, NEW content, NEW r,
         Placed(text, offset, l, start, content, r),
         NEW n, n = Cardinality(Before(content, r)), n <= MaxScanned,
         NEW column, column = n + 1,
         NEW back, back = user_line_scalar_to_byte(text, l, column, 0)
  PROVE  back.ok /\ back.value = offset
<1>1. /\ l \in 1 .. Len(Lines(text)) /\ start \in Nat
      /\ content \in ByteStrings /\ r \in 0 .. Len(content)
      /\ is_char_boundary(content, r) /\ r = offset - start
  BY DEF Placed
<1>2. PICK bounds : bounds = line_bounds(text, l)
  OBVIOUS
<1>3. start = bounds.start /\ content = line_content(text, bounds)
  BY <1>2 DEF Placed
<1>4. l \in DOMAIN Lines(text)
  <2>1. LinesOf(Lines(text), text)
    BY LinesFound
  <2> QED  BY <1>1, <2>1 DEF LinesOf
<1>5. PICK scalars : scalars = Cardinality(Scalars(content))
  OBVIOUS
<1>6. n \in Nat /\ scalars \in Nat /\ n <= scalars
  BY <1>1, <1>5, BeforeCount, ScalarsFinite
<1>7. column # 0 /\ column - 1 = n
  BY <1>6
<1> DEFINE found(target) ==
             Min({o \in Scalars(content) \cup {Len(content)} :
                    Cardinality({p \in Scalars(content) : p < o}) = target})
<1>8. found(n) = r
  BY <1>1, ColumnBack
<1>9. back = Charge(0, Min({n, scalars}),
                    IF n > scalars THEN Err("InvalidUserPosition", 0)
                    ELSE Ok(start + found(n), 0))
  <2>1. PICK target : target = column - 1
    OBVIOUS
  <2>2. back = Charge(0, Min({target, scalars}),
                      IF target > scalars THEN Err("InvalidUserPosition", 0)
                      ELSE Ok(start + found(target), 0))
    BY <1>2, <1>3, <1>4, <1>5, <1>7, <2>1 DEF user_line_scalar_to_byte
  <2>3. target = n
    BY <1>7, <2>1
  <2> HIDE DEF found
  <2> QED  BY <2>2, <2>3
<1> HIDE DEF found
<1>10. Min({n, scalars}) = n
  <2>1. PICK S : S = {n, scalars}
    OBVIOUS
  <2>2. S \subseteq Int /\ n \in S /\ \A y \in S : n <= y
    BY <1>6, <2>1
  <2>3. Min(S) = n
    BY <2>2, MinIs
  <2> QED  BY <2>1, <2>3
<1>11. ~(n > scalars)
  BY <1>6
<1>12. back = Charge(0, n, Ok(start + r, 0))
  BY <1>8, <1>9, <1>10, <1>11
<1>13. start + r = offset
  <2>1. offset \in Int
    <3>1. Len(text) \in Nat
      BY ByteAt
    <3> QED  BY <3>1
  <2> QED  BY <1>1, <2>1
<1>14. back = Ok(offset, n)
  BY <1>6, <1>12, <1>13, ChargeOk
<1> QED  BY <1>14 DEF Ok

\* What LSP can name is shown to the user by a line and column that lead back.
LEMMA UserRoundTrip ==
  ASSUME NEW text \in ByteStrings, NEW offset \in 0 .. Len(text),
         NEW shown, shown = byte_to_user_line_scalar(text, offset, 0),
         Nameable(text, offset), ~Exhausted(shown, text)
  PROVE  /\ shown.value.line = LineOf(text, offset) + 1
         /\ user_line_scalar_to_byte(text, shown.value.line, shown.value.column, 0).ok
         /\ user_line_scalar_to_byte(text, shown.value.line, shown.value.column, 0).value
              = offset
<1>1. is_char_boundary(text, offset) /\ text # << >>
  BY NothingNameable DEF Nameable
<1>2. PICK lines : lines = Lines(text)
  OBVIOUS
<1>3. PICK l : l = Min({k \in DOMAIN lines : k = Len(lines) \/ lines[k] > offset})
  OBVIOUS
<1>4. PICK bounds : bounds = line_bounds(text, l)
  OBVIOUS
<1>5. PICK content, r : content = line_content(text, bounds) /\ r = offset - bounds.start
  OBVIOUS
<1>6. PICK n : n = Cardinality(Before(content, r))
  OBVIOUS
<1>7. LinesOf(lines, text)
  BY <1>2, LinesFound
<1>8. OnLine(lines, l, offset)
  BY <1>1, <1>2, <1>3, LineAfter
<1>9. Placed(text, offset, l, bounds.start, content, r) /\ offset <= bounds.content_end
  BY <1>1, <1>2, <1>4, <1>5, <1>8, PlacedOnLine
<1>10. l = LineOf(text, offset) + 1 /\ l \in Nat
  <2>1. l \in 1 .. Len(lines) /\ Len(lines) \in Nat
    BY <1>7, <1>8 DEF OnLine, LinesOf
  <2>2. l \in Nat
    BY <2>1
  <2>3. l - 1 = LineOf(text, offset)
    BY <1>9 DEF Placed
  <2> QED  BY <2>2, <2>3
<1>11. ~(offset > bounds.content_end)
  <2>1. bounds.content_end \in Nat
    <3>1. l \in 1 .. Len(lines)
      BY <1>8 DEF OnLine
    <3>2. PICK ce : ce = bounds.content_end
      OBVIOUS
    <3>3. LineAt(text, bounds.start, ce, bounds.end)
      BY <1>2, <1>4, <3>1, <3>2, BoundsFound
    <3> QED  BY <3>2, <3>3 DEF LineAt
  <2>2. offset \in Nat
    OBVIOUS
  <2> QED  BY <1>9, <2>1, <2>2
<1>12. lines # << >>
  BY <1>1, <1>7 DEF LinesOf
<1> DEFINE unnamed == ~is_char_boundary(text, offset) \/ lines = << >>
           beyond == offset > bounds.content_end
<1>13. shown = IF unnamed THEN Err("ByteNotRepresentable", 0)
               ELSE IF beyond THEN Ok([line |-> l, column |-> None], 0)
               ELSE Charge(0, n, Ok([line |-> l, column |-> n + 1], 0))
  BY <1>2, <1>3, <1>4, <1>5, <1>6 DEF byte_to_user_line_scalar, Before
<1>14. shown = Charge(0, n, Ok([line |-> l, column |-> n + 1], 0))
  <2>1. ~unnamed /\ ~beyond
    BY <1>1, <1>11, <1>12
  <2> HIDE DEF unnamed, beyond
  <2> QED  BY <1>13, <2>1
<1>15. /\ n \in Nat /\ n <= Cardinality(Scalars(content))
       /\ Cardinality(Scalars(content)) <= Cardinality(Scalars(text))
       /\ Cardinality(Scalars(content)) \in Nat /\ Cardinality(Scalars(text)) \in Nat
  BY <1>6, <1>9, BeforeCount, ScalarsFinite DEF Placed
<1>16. n <= MaxScanned
  <2> SUFFICES ASSUME ~(n <= MaxScanned)
               PROVE  FALSE
    OBVIOUS
  <2>1. n > MaxScanned /\ Cardinality(Scalars(text)) > MaxScanned
    BY <1>15, MaxScannedAssumption
  <2>2. shown = Err("WorkLimitExceeded", MaxScanned)
    BY <1>14, <1>15, <2>1, ChargeFails
  <2> QED  BY <2>1, <2>2 DEF Err, Exhausted
<1>17. shown.value.line = l /\ shown.value.column = n + 1
  <2>1. shown = Ok([line |-> l, column |-> n + 1], n)
    BY <1>14, <1>15, <1>16, ChargeOk
  <2> QED  BY <2>1 DEF Ok
<1>18. PICK column, back :
         /\ column = n + 1
         /\ back = user_line_scalar_to_byte(text, l, column, 0)
  OBVIOUS
<1>19. back.ok /\ back.value = offset
  BY <1>6, <1>9, <1>16, <1>18, UserBack
<1> QED  BY <1>10, <1>17, <1>18, <1>19

-----------------------------------------------------------------------------
LEMMA PositionsOfRequest == SelectInv => PositionsRoundTrip
<1> SUFFICES ASSUME SelectInv, NEW encoding \in Encodings,
                    NEW offset \in 0 .. Len(Text),
                    NEW named, named = byte_to_lsp_position(Text, encoding, offset, 0),
                    NEW shown, shown = byte_to_user_line_scalar(Text, offset, 0)
             PROVE  /\ (named.ok \/ Exhausted(named, Text)) = Nameable(Text, offset)
                    /\ named.ok =>
                         /\ named.value.line = LineOf(Text, offset)
                         /\ lsp_position_to_byte(Text, encoding, named.value, 0).ok
                         /\ lsp_position_to_byte(Text, encoding, named.value, 0).value
                              = offset
                    /\ Nameable(Text, offset) /\ ~Exhausted(shown, Text) =>
                         /\ shown.value.line = LineOf(Text, offset) + 1
                         /\ user_line_scalar_to_byte(Text, shown.value.line,
                                                     shown.value.column, 0).ok
                         /\ user_line_scalar_to_byte(Text, shown.value.line,
                                                     shown.value.column, 0).value
                              = offset
  BY Zenon DEF PositionsRoundTrip
<1>1. Text \in ByteStrings
  BY DEF SelectInv, AnyRequest, Text, ByteStrings
<1>2. PICK text : text = Text
  OBVIOUS
<1>3. /\ text \in ByteStrings /\ offset \in 0 .. Len(text)
      /\ named = byte_to_lsp_position(text, encoding, offset, 0)
      /\ shown = byte_to_user_line_scalar(text, offset, 0)
  BY <1>1, <1>2
<1>4. /\ (named.ok \/ Exhausted(named, text)) <=> Nameable(text, offset)
      /\ named.ok =>
           /\ named.value.line = LineOf(text, offset)
           /\ lsp_position_to_byte(text, encoding, named.value, 0).ok
           /\ lsp_position_to_byte(text, encoding, named.value, 0).value = offset
  BY <1>3, LspRoundTrip
<1>5. Nameable(text, offset) /\ ~Exhausted(shown, text) =>
        /\ shown.value.line = LineOf(text, offset) + 1
        /\ user_line_scalar_to_byte(text, shown.value.line, shown.value.column, 0).ok
        /\ user_line_scalar_to_byte(text, shown.value.line, shown.value.column, 0).value
             = offset
  BY <1>3, UserRoundTrip
<1>6. (named.ok \/ Exhausted(named, text)) = Nameable(text, offset)
  <2>1. Nameable(text, offset) \in BOOLEAN
    BY DEF Nameable
  <2> QED  BY <1>4, <2>1
<1> QED  BY <1>2, <1>4, <1>5, <1>6

\* Of every text, every offset that LSP can name and no other has a position in
\* every encoding, unless more scalars would be examined than may be; it is on
\* the line counted from the terminators, and the position leads back to the
\* offset, as the line and column shown to the user do (byte_to_lsp_position,
\* lsp_position_to_byte, byte_to_user_line_scalar, user_line_scalar_to_byte).
THEOREM PositionsRoundTrips == Spec => []PositionsRoundTrip
<1> QED  BY ServerIsResolved, PositionsOfRequest, PTL
=============================================================================
