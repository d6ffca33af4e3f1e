----------------------------- MODULE ServerConfig -----------------------------
(***************************************************************************)
(* User configuration and server resolution of crates/srcmv-lsp            *)
(* (config.rs).                                                            *)
(*                                                                         *)
(* A text field is a record: what trimming and lowering make of it, its    *)
(* bytes, and whether only the permitted characters occur in it.  A path   *)
(* is a sequence of components; the file system maps a path to the         *)
(* canonical path it leads to and to what is there.                        *)
(***************************************************************************)
EXTENDS Integers, Sequences, FiniteSets, SequencesExt

CONSTANTS
  Root,             \* the canonical workspace root, a path
  FieldBytes,       \* bounds of a text field, of arguments and of JSON
  ArgumentBytes,
  JsonBytes,
  Timeouts          \* MIN_TIMEOUT_MS .. MAX_TIMEOUT_MS, in steps

ASSUME RootAssumption == Root \in Seq(STRING)

NoServer == [found |-> FALSE]
Refuse(error) == [ok |-> FALSE, error |-> error]
Accept(value) == [ok |-> TRUE, value |-> value]

-----------------------------------------------------------------------------
(* Validation.                                                             *)

\* bounded_trimmed, bounded_untrimmed: the error of a text field, or "none".
\* A text with a NUL counts as empty.
BoundedError(text) ==
  IF text.value = "" THEN "EmptyField"
  ELSE IF text.bytes > FieldBytes THEN "FieldTooLarge"
  ELSE "none"

normalize_id(text) ==
  IF BoundedError(text) # "none" THEN Refuse(BoundedError(text))
  ELSE IF ~text.permitted THEN Refuse("InvalidServerId")
  ELSE Accept(text.value)

normalize_extension(text) ==
  IF ~text.permitted THEN Refuse("EmptyField")
  ELSE IF BoundedError(text) # "none" THEN Refuse(BoundedError(text))
  ELSE Accept(text.value)

\* validate_arguments and validate_json, by size.
validate_arguments(arguments) == arguments <= ArgumentBytes
validate_json(bytes) == bytes <= JsonBytes
validate_timeout(timeout) == timeout \in Timeouts

\* normalize_relative_project_root: no parent, no root, dots dropped.
ValidProjectRoot(path) == path # << >> /\ \A k \in DOMAIN path : path[k] # ".."
normalize_relative_project_root(path) == SelectSeq(path, LAMBDA c : c # ".")

\* Why a descriptor is refused, in the order of validate_configuration; ids
\* are the ones of the descriptors before it.
DescriptorError(raw, ids) ==
  LET id == normalize_id(raw.id)
      extensions == [k \in DOMAIN raw.extensions |->
                       normalize_extension(raw.extensions[k])]
      bad == {k \in DOMAIN extensions :
                \/ ~extensions[k].ok
                \/ \E j \in 1 .. k - 1 : extensions[j] = extensions[k]}
      first == extensions[CHOOSE k \in bad : \A j \in bad : k <= j]
  IN  IF ~id.ok THEN id.error
      ELSE IF id.value \in ids THEN "DuplicateServerId"
      ELSE IF BoundedError(raw.language) # "none" THEN BoundedError(raw.language)
      ELSE IF raw.program = << >> THEN "EmptyField"
      ELSE IF raw.program_bytes > FieldBytes THEN "FieldTooLarge"
      ELSE IF ~validate_arguments(raw.arguments) THEN "InvalidArguments"
      ELSE IF ~validate_json(raw.json) THEN "OversizedJsonConfiguration"
      ELSE IF ~ValidProjectRoot(raw.project_root) THEN "InvalidProjectRoot"
      ELSE IF ~validate_timeout(raw.timeout) THEN "InvalidTimeout"
      ELSE IF raw.extensions = << >> THEN "EmptyField"
      ELSE IF bad # {} /\ ~first.ok THEN first.error
      ELSE IF bad # {} THEN "DuplicateDescriptorExtension"
      ELSE "none"

Descriptor(raw) ==
  [id |-> raw.id.value,
   extensions |-> {raw.extensions[k].value : k \in DOMAIN raw.extensions},
   language |-> raw.language.value, program |-> raw.program,
   absolute |-> raw.absolute, allow |-> raw.allow,
   project_root |-> normalize_relative_project_root(raw.project_root)]

\* validate_configuration: the first descriptor that is refused refuses all.
validate_configuration(raw) ==
  IF raw.version # 1 THEN Refuse("UnsupportedVersion")
  ELSE FoldLeft(LAMBDA state, server :
         LET ids == {state.value[k].id : k \in DOMAIN state.value}
             error == DescriptorError(server, ids)
         IN  IF ~state.ok THEN state
             ELSE IF error # "none" THEN Refuse(error)
             ELSE Accept(Append(state.value, Descriptor(server))),
         Accept(<< >>), raw.servers)

\* load_user_configuration and parse_user_configuration: what the file is
\* decides first.
load_user_configuration(file) ==
  IF file.state # "read" THEN Refuse(file.state) ELSE validate_configuration(file.raw)

\* load_optional_configuration: a missing file is an error only when its path
\* was given.
load_optional_configuration(file) ==
  IF file.state = "NotFound" /\ ~file.explicit THEN Accept(<< >>)
  ELSE load_user_configuration(file)

-----------------------------------------------------------------------------
(* Executables.                                                            *)

Inside(path) == IsPrefix(Root, path)

\* An executable that is accepted wherever it leads.
QualifyAnywhere(world, path, allow) ==
  path \in DOMAIN world /\ world[path].kind = "executable"

\* qualify_executable looks at the canonical path.
qualify_executable(world, path, allow) ==
  /\ path \in DOMAIN world /\ world[path].kind = "executable"
  /\ ~Inside(world[path].leads) \/ allow

\* discover_executable: the first absolute PATH entry that has one.
discover_executable(world, search, program, allow) ==
  LET found == {k \in DOMAIN search :
                  /\ search[k].absolute
                  /\ qualify_executable(world, search[k].path \o program, allow)}
      first == CHOOSE k \in found : \A j \in found : k <= j
  IN  IF found = {} THEN NoServer
      ELSE [found |-> TRUE, path |-> world[search[first].path \o program].leads]

Qualified(world, path, allow) ==
  IF qualify_executable(world, path, allow)
  THEN [found |-> TRUE, path |-> world[path].leads] ELSE NoServer

\* resolve_descriptor_executable: an absolute path, a relative one that must
\* be allowed, or a name to discover.
resolve_descriptor_executable(world, search, descriptor, project_root) ==
  IF descriptor.absolute THEN Qualified(world, descriptor.program, descriptor.allow)
  ELSE IF Len(descriptor.program) > 1
       THEN IF descriptor.allow
            THEN Qualified(world, project_root \o descriptor.program, TRUE)
            ELSE NoServer
  ELSE discover_executable(world, search, descriptor.program, descriptor.allow)

-----------------------------------------------------------------------------
(* Resolution.                                                             *)

Language(extension, id) == [extension |-> extension, language |-> id]
Server(id, program, languages) ==
  [id |-> id, program |-> <<program>>, languages |-> languages]

BUILTIN_SERVERS ==
  <<Server("rust", "rust-analyzer", <<Language("rs", "rust")>>),
    Server("go", "gopls", <<Language("go", "go")>>),
    Server("python", "pylsp", <<Language("py", "python")>>),
    Server("clangd-c", "clangd", <<Language("c", "c")>>),
    Server("clangd-cpp", "clangd",
           <<Language("cc", "cpp"), Language("cpp", "cpp"), Language("cxx", "cpp")>>),
    Server("typescript", "typescript-language-server",
           <<Language("ts", "typescript"), Language("tsx", "typescriptreact"),
             Language("js", "javascript"), Language("jsx", "javascriptreact")>>)>>

Resolved(origin, id, language, path, directory) ==
  Accept([origin |-> origin, id |-> id, language |-> language, path |-> path,
          directory |-> directory])

resolve_explicit_program(selection) ==
  IF selection.program = << >> \/ selection.program_bytes > FieldBytes
  THEN Refuse("InvalidExplicitSelection")
  ELSE IF BoundedError(selection.language) # "none"
       THEN Refuse(BoundedError(selection.language))
  ELSE IF ~validate_arguments(selection.arguments) THEN Refuse("InvalidArguments")
  ELSE Resolved("Explicit", "", selection.language.value, selection.program, Root)

resolve_user_descriptor(world, search, descriptor) ==
  LET joined == Root \o descriptor.project_root
      directory == world[joined].leads
      executable == resolve_descriptor_executable(world, search, descriptor, directory)
  IN  IF joined \notin DOMAIN world THEN Refuse("InvalidProjectRoot")
      ELSE IF world[joined].kind # "directory" \/ ~Inside(directory)
           THEN Refuse("InvalidProjectRoot")
      ELSE IF ~executable.found THEN Refuse("ExecutableNotFound")
      ELSE Resolved("UserConfiguration", descriptor.id, descriptor.language,
                    executable.path, directory)

resolve_builtin(world, search, server, language) ==
  LET executable == discover_executable(world, search, server.program, FALSE)
  IN  IF executable.found
      THEN Resolved("BuiltIn", server.id, language, executable.path, Root)
      ELSE Refuse("ExecutableNotFound")

\* A user descriptor comes before a built-in one; no two of a kind share an
\* id.
ResolveById(world, search, servers, text) ==
  LET id == normalize_id(text)
      user == {k \in DOMAIN servers : servers[k].id = id.value}
      builtin == {k \in DOMAIN BUILTIN_SERVERS : BUILTIN_SERVERS[k].id = id.value}
      User(k) == resolve_user_descriptor(world, search, servers[k])
      BuiltIn(server) ==
        resolve_builtin(world, search, server, server.languages[1].language)
  IN  IF ~id.ok THEN id
      ELSE IF user # {} THEN User(CHOOSE k \in user : TRUE)
      ELSE IF builtin # {} THEN BuiltIn(BUILTIN_SERVERS[CHOOSE k \in builtin : TRUE])
      ELSE Refuse("UnknownServerId")

\* User descriptors of an extension come before the built-in ones; two of
\* either are ambiguous.
ResolveByExtension(world, search, servers, text) ==
  LET extension == normalize_extension(text)
      user == {k \in DOMAIN servers : extension.value \in servers[k].extensions}
      binding == {b \in UNION {{k} \X DOMAIN BUILTIN_SERVERS[k].languages :
                                k \in DOMAIN BUILTIN_SERVERS} :
                    BUILTIN_SERVERS[b[1]].languages[b[2]].extension = extension.value}
      User(k) == resolve_user_descriptor(world, search, servers[k])
      BuiltIn(b) == resolve_builtin(world, search, BUILTIN_SERVERS[b[1]],
                                    BUILTIN_SERVERS[b[1]].languages[b[2]].language)
  IN  IF ~extension.ok THEN extension
      ELSE IF Cardinality(user) > 1 THEN Refuse("AmbiguousExtension")
      ELSE IF user # {} THEN User(CHOOSE k \in user : TRUE)
      ELSE IF binding = {} THEN Refuse("ServerNotConfigured")
      ELSE IF Cardinality({b[1] : b \in binding}) > 1 THEN Refuse("AmbiguousExtension")
      ELSE BuiltIn(CHOOSE b \in binding : TRUE)

resolve_server(world, search, servers, selection, extension) ==
  CASE selection.by = "program"   -> resolve_explicit_program(selection)
    [] selection.by = "id"        -> ResolveById(world, search, servers, selection.id)
    [] selection.by = "automatic" -> ResolveByExtension(world, search, servers, extension)
=============================================================================
