---------------------------- MODULE BridgeConfig ----------------------------
(***************************************************************************)
(* The bridge's configuration: flags over the environment over config.json *)
(* over defaults, and the web page's edits of config.json.  An edit is     *)
(* checked against the bridge that runs, read back, changed, written to a  *)
(* temporary file and renamed over the old one, on a pool of threads; what *)
(* it changes is read at the next start.  The bridge may stop anywhere.    *)
(***************************************************************************)
EXTENDS Naturals, FiniteSets, Sequences

CONSTANTS ConfigScenes,  \* records: flags, env, file, the posts to come and how many run together
          DefaultRelays

VARIABLES
  configScene,
  inodes,     \* what each file made so far holds; config.json and its temporary file are two of them
  configAt,   \* the inode config.json names
  tmpAt,      \* the inode the temporary file names, 0 for none
  pageEdits,      \* the writes at work on the pool, oldest first
  inEffect,   \* the configuration the bridge runs with
  posts,      \* edits still to come
  saved       \* key -> the value the page was last told is saved (history)

configVars == <<configScene, inodes, configAt, tmpAt, pageEdits, inEffect, posts, saved>>

WEB_EDITABLE == {"machineName", "relays", "direct.endpoints", "transcriptKeepLast"}
Unreadable == [unreadable |-> TRUE]   \* an empty or half-written file
Refused == [refused |-> TRUE]
\* A value is a set of strings: a list's items, or the one string or number.
Unset == {}                           \* null, an empty list or string, or no value at all

-----------------------------------------------------------------------------
(* Loading. A source is a function on the keys it names. *)

\* A URL of each kind the checks tell apart.
is_wss_or_onion(url) == url \in {"wss", "ws.onion"}

\* Whether a source has an opinion on a key: an empty list, or a number that
\* does not parse, has none.
TakenPost(source, key) == key \in DOMAIN source /\ source[key] \notin {Unset, {"unparsable"}}

\* The sources one key is looked up in, strongest first.
Sources(key, file) ==
  (IF key = "transcriptKeepLast" THEN <<>> ELSE <<configScene.flags>>) \o <<configScene.env, file>>
Default(key) ==
  CASE key = "relays" -> DefaultRelays [] key = "machineName" -> {"host"} [] OTHER -> Unset
Looked(key, file) ==
  LET from == SelectSeq(Sources(key, file), LAMBDA s : TakenPost(s, key))
  IN IF from = <<>> THEN Default(key) ELSE Head(from)[key]

\* The direct link's part: an endpoint needs its listener, and the onion
\* listener serves cleartext, so it must be on loopback.
direct_config(file) ==
  LET listen == Looked("direct.listen", file)
      onion == Looked("direct.onionListen", file)
      endpoints == Looked("direct.endpoints", file)
  IN /\ onion \in {Unset, {"loopback"}}
     /\ \A url \in endpoints :
          /\ is_wss_or_onion(url)
          /\ url = "wss" => listen # Unset
          /\ url = "ws.onion" => onion # Unset

ConfigKeys == WEB_EDITABLE \cup {"direct.listen", "direct.onionListen", "torProxyUrl"}
load(file) ==
  IF file = Unreadable \/ Looked("torProxyUrl", file) = {"bad"} \/ ~direct_config(file) THEN Refused
  ELSE [key \in ConfigKeys |-> Looked(key, file)]

\* The keys a flag or a variable supplies: the page shows them as overridden.
overridden_keys ==
  {key \in ConfigKeys : (key # "transcriptKeepLast" /\ TakenPost(configScene.flags, key)) \/ TakenPost(configScene.env, key)}

-----------------------------------------------------------------------------
(* An edit from the page. *)

\* What the page shows of each key.
web_config_fields == [key \in ConfigKeys |->
  [value |-> inEffect[key], editable |-> key \in WEB_EDITABLE, overridden |-> key \in overridden_keys]]
listeners_in_effect ==
  [direct |-> web_config_fields["direct.listen"].value # Unset, onion |-> web_config_fields["direct.onionListen"].value # Unset]

validate_web_value(key, value, listeners) ==
  CASE key = "machineName" -> value # Unset
    [] key = "relays" -> value # Unset /\ \A url \in value : is_wss_or_onion(url)
    [] key = "direct.endpoints" ->
         \A url \in value : is_wss_or_onion(url) /\ (url = "wss" => listeners.direct) /\ (url = "ws.onion" => listeners.onion)
    [] key = "transcriptKeepLast" -> value # {"unparsable"}
    [] OTHER -> FALSE

Edit(change) == [step |-> "read", change |-> change, doc |-> << >>, fd |-> 0]

\* A POST of changes: refused whole, or handed to the pool.
apply_config(change) ==
  /\ inEffect # Refused /\ change \in posts /\ Len(pageEdits) < configScene.together
  /\ posts' = posts \ {change}
  /\ pageEdits' = IF change # << >> /\ \A key \in DOMAIN change :
                   key \in WEB_EDITABLE /\ validate_web_value(key, change[key], listeners_in_effect)
              THEN Append(pageEdits, Edit(change)) ELSE pageEdits
  /\ UNCHANGED <<configScene, inodes, configAt, tmpAt, inEffect, saved>>

\* The old file with the changes in it.
Changed(doc, change) == [key \in DOMAIN doc \cup DOMAIN change |-> IF key \in DOMAIN change THEN change[key] ELSE doc[key]]

write_web_settings(i) ==
  /\ pageEdits[i].step = "read"
  /\ pageEdits' = IF inodes[configAt] = Unreadable THEN [k \in 1..(Len(pageEdits) - 1) |-> pageEdits[IF k < i THEN k ELSE k + 1]]
              ELSE [pageEdits EXCEPT ![i].step = "create", ![i].doc = Changed(inodes[configAt], pageEdits[i].change)]
  /\ UNCHANGED <<configScene, inodes, configAt, tmpAt, inEffect, posts, saved>>

\* Mutant: config.json is opened and written in place.
CreateInPlace(i) ==
  /\ pageEdits[i].step = "create"
  /\ inodes' = [inodes EXCEPT ![configAt] = Unreadable] /\ tmpAt' = configAt
  /\ pageEdits' = [pageEdits EXCEPT ![i].step = "fill", ![i].fd = tmpAt']
  /\ UNCHANGED <<configScene, configAt, inEffect, posts, saved>>
\* write_private: create the temporary file (its name is the process's, so a
\* second write truncates the first one's), fill it, rename it.
CreateTmp(i) ==
  /\ pageEdits[i].step = "create"
  /\ IF tmpAt = 0
     THEN inodes' = Append(inodes, Unreadable) /\ tmpAt' = Len(inodes) + 1
     ELSE inodes' = [inodes EXCEPT ![tmpAt] = Unreadable] /\ tmpAt' = tmpAt
  /\ pageEdits' = [pageEdits EXCEPT ![i].step = "fill", ![i].fd = tmpAt']
  /\ UNCHANGED <<configScene, configAt, inEffect, posts, saved>>
FillTmp(i) ==
  /\ pageEdits[i].step = "fill"
  /\ inodes' = [inodes EXCEPT ![pageEdits[i].fd] = pageEdits[i].doc]
  /\ pageEdits' = [pageEdits EXCEPT ![i].step = "rename"]
  /\ UNCHANGED <<configScene, configAt, tmpAt, inEffect, posts, saved>>
\* The page is told of it, or of the failure of a rename whose file is gone.
RenameTmp(i) ==
  /\ pageEdits[i].step = "rename"
  /\ configAt' = IF tmpAt = 0 THEN configAt ELSE tmpAt
  /\ saved' = IF tmpAt = 0 THEN saved
              ELSE [key \in DOMAIN saved \cup DOMAIN pageEdits[i].change |->
                      IF key \in DOMAIN pageEdits[i].change THEN pageEdits[i].change[key] ELSE saved[key]]
  /\ tmpAt' = 0
  /\ pageEdits' = [k \in 1..(Len(pageEdits) - 1) |-> pageEdits[IF k < i THEN k ELSE k + 1]]
  /\ UNCHANGED <<configScene, inodes, inEffect, posts>>

\* The bridge stops, in the middle of a write or not, and is started again
\* the way it was (a new process names another temporary file).
ConfigRestart ==
  /\ inEffect' = load(inodes[configAt])
  /\ pageEdits' = <<>> /\ tmpAt' = 0
  /\ UNCHANGED <<configScene, inodes, configAt, posts, saved>>

ConfigInit ==
  /\ configScene \in ConfigScenes
  /\ inodes = <<configScene.file>> /\ configAt = 1 /\ tmpAt = 0
  /\ pageEdits = <<>> /\ posts = configScene.posts /\ saved = << >>
  /\ inEffect = load(configScene.file) /\ inEffect # Refused

ConfigNext ==
  \/ \E change \in posts : apply_config(change)
  \/ \E i \in DOMAIN pageEdits : write_web_settings(i) \/ CreateTmp(i) \/ FillTmp(i) \/ RenameTmp(i)
  \/ ConfigRestart
ConfigSpec == ConfigInit /\ [][ConfigNext]_configVars

-----------------------------------------------------------------------------
\* "a page edit must never leave a bridge that will not start": wherever the
\* bridge stops, in the middle of a write too, the config.json it leaves is
\* one the same bridge starts from, as long as one edit is written at a time.
StartsAgain == load(inodes[configAt]) # Refused

\* What the page was told is saved is what the next start uses, unless the
\* page shows the key as overridden; and no other key of the file is touched,
\* the ones the bridge does not know included.
SavedIsServed ==
  /\ \A key \in DOMAIN saved : ~web_config_fields[key].overridden =>
       load(inodes[configAt])[key] = (IF saved[key] = Unset THEN Default(key) ELSE saved[key])
  /\ \A key \in DOMAIN configScene.file \ DOMAIN saved :
       key \in DOMAIN inodes[configAt] /\ inodes[configAt][key] = configScene.file[key]
  /\ \A key \in ConfigKeys : web_config_fields[key].overridden => load(inodes[configAt])[key] = load(configScene.file)[key]

\* The page's edits of the config file: the bridge starts again with what was
\* saved, and serves it.
ConfigSound == StartsAgain /\ SavedIsServed
=============================================================================
