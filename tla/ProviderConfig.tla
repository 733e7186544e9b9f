---------------------------- MODULE ProviderConfig ---------------------------
(***************************************************************************)
(* The table of LLM providers: its handlers (internal/api/                 *)
(* handlers_provider.go), the encryption of the API keys with its          *)
(* migration at start-up (internal/store/provider_encryption.go,           *)
(* internal/crypto), and the refresh that brings it to the gateway of      *)
(* every instance of the server (cmd/server/main.go).                      *)
(*                                                                         *)
(* A stored key is a secret and the layers of encryption around it, the    *)
(* outermost last; the bytes themselves are not modelled.                  *)
(***************************************************************************)
EXTENDS Integers, Sequences, SequencesExt

CONSTANTS
    Instances,     \* server processes on one database
    Ciphers,       \* ENCRYPTION_KEYs in use now or before
    KeyOf,         \* KeyOf[i]: the one an instance is configured with, or "none"
    Order,         \* the names of the providers, in the order of the list
    Label,         \* Label[n]: the Name() of the client built for provider n
    Requests,      \* PUT /api/providers/:id in flight
    Secrets, Urls, \* what a user types in
    LooksEncrypted,\* secrets that are valid base64 of 28 bytes or more
    MaxChanges,    \* bound: writes by requests
    MaxStarts,     \* bound: starts of an instance
    MaxDbFailures  \* bound: statements of a start or a refresh that fail

Names   == Range(Order)
Absent  == [there |-> FALSE]

ASSUME ProviderAssumption ==
    /\ LooksEncrypted \subseteq Secrets
    /\ "" \notin Secrets /\ "none" \notin Ciphers /\ Urls # {} /\ Order \in Seq(Names)
    /\ Names = DOMAIN Label /\ KeyOf \in [Instances -> Ciphers \cup {"none"}]

VARIABLES
    rows,     \* rows[n]: the row of llm_providers, or Absent
    inst,     \* inst[i]: the process
    request,  \* request[q]: an update between its read and its write
    changes,  \* writes by requests so far
    dbFailures \* statements that have failed

providerVars == <<rows, inst, request, changes, dbFailures>>

Plain(s)  == [secret |-> s, layers |-> <<>>, prefix |-> FALSE]
Row(k, u, e) == [there |-> TRUE, key |-> k, url |-> u, enabled |-> e]
Mock      == <<[label |-> "mock", url |-> "", key |-> Plain("")]>>
Down      == [pc |-> "down", pending |-> <<>>, gateway |-> Mock, starts |-> 0]
NoRequest == [pc |-> "idle"]

There(n) == rows[n].there

-----------------------------------------------------------------------------
(* The form of a stored key, and the two directions of the decorator. *)

ClassifyStoredKey(k) ==
    IF k.secret = "" THEN "empty"
    ELSE IF k.prefix THEN "v1"
    ELSE IF k.layers # <<>> \/ k.secret \in LooksEncrypted THEN "legacy"
    ELSE "plain"

EncryptStored(k, c) == [k EXCEPT !.layers = Append(k.layers, c), !.prefix = TRUE]

\* GCM refuses any other key, and anything that is no ciphertext.
Decrypts(k, c) == k.layers # <<>> /\ Last(k.layers) = c

Undecryptable(k, c) == c # "none" /\ ClassifyStoredKey(k) \in {"v1", "legacy"} /\ ~Decrypts(k, c)

\* Mutant of DecryptStored: only a prefix tells a ciphertext.
DecryptOnlyPrefixed(k, c) ==
    IF c = "none" \/ ~k.prefix THEN k ELSE [k EXCEPT !.layers = Front(k.layers), !.prefix = FALSE]

DecryptStored(k, c) ==
    IF c = "none" \/ ClassifyStoredKey(k) \in {"empty", "plain"} THEN k
    ELSE [k EXCEPT !.layers = Front(k.layers), !.prefix = FALSE]

\* UpsertProvider of the decorator: what is a ciphertext of this format already goes through.
StoredKey(k, c) == IF c = "none" \/ ClassifyStoredKey(k) \in {"empty", "v1"} THEN k ELSE EncryptStored(k, c)

-----------------------------------------------------------------------------
(* loadProviders: one list for the start and for the refresh. *)

\* The names in S as ListProviders gives them.
Listed(S) ==
    LET at == {k \in DOMAIN Order : Order[k] \in S}
    IN  [j \in 1..Cardinality(at) |-> Order[CHOOSE k \in at : Cardinality({m \in at : m <= k}) = j]]

Readable(i) == \A n \in Names : There(n) => ~Undecryptable(rows[n].key, KeyOf[i])

LoadProviders(i) ==
    LET enabled == Listed({n \in Names : There(n) /\ rows[n].enabled})
        Client(n) == [label |-> Label[n], url |-> rows[n].url,
                      key |-> DecryptStored(rows[n].key, KeyOf[i])]
    IN  IF ~Readable(i) \/ enabled = <<>> THEN Mock ELSE [j \in DOMAIN enabled |-> Client(enabled[j])]

DbFails == dbFailures < MaxDbFailures /\ dbFailures' = dbFailures + 1

\* What a start or a refresh goes on with: a list that cannot be read is taken for an empty one.
Reads(i) == {[list |-> LoadProviders(i), failures |-> 0], [list |-> Mock, failures |-> 1]}
Loads(read) == dbFailures' = dbFailures + read.failures /\ dbFailures' <= MaxDbFailures

ProviderSignature(list) == [j \in DOMAIN list |-> list[j].label]

-----------------------------------------------------------------------------
\* The keys of a database from before: in the clear, or encrypted without the prefix.
OldKeys == {Plain(s) : s \in Secrets} \cup
           {[Plain(s) EXCEPT !.layers = <<c>>] : s \in Secrets, c \in Ciphers}

ProviderInit ==
    /\ rows \in [Names -> {Absent} \cup {Row(k, CHOOSE u \in Urls : TRUE, TRUE) : k \in OldKeys}]
    /\ inst = [i \in Instances |-> Down]
    /\ request = [q \in Requests |-> NoRequest]
    /\ changes = 0 /\ dbFailures = 0

\* Start-up, first phase of MigratePlaintextKeys: every row is judged before one is written; a
\* ciphertext that cannot be decrypted refuses the start.
Plaintexts == Listed({n \in Names : There(n) /\ ClassifyStoredKey(rows[n].key) = "plain"})

\* Mutant of Judge: what cannot be decrypted is taken for plaintext.
JudgeByDecrypting(i) ==
    LET todo == Listed({n \in Names : There(n) /\ rows[n].key.secret # ""
                                               /\ ~Decrypts(rows[n].key, KeyOf[i])})
    IN  inst' = [inst EXCEPT ![i].pc = "migrate", ![i].starts = @ + 1,
                     ![i].pending = [j \in DOMAIN todo |-> [name |-> todo[j], row |-> rows[todo[j]]]]]

Judge(i) ==
    /\ Readable(i)
    /\ inst' = [inst EXCEPT ![i].pc = "migrate", ![i].starts = @ + 1,
           ![i].pending = [j \in DOMAIN Plaintexts |->
                              [name |-> Plaintexts[j], row |-> rows[Plaintexts[j]]]]]

Start(i) ==
    /\ inst[i].pc = "down" /\ inst[i].starts < MaxStarts
    /\ \/ KeyOf[i] # "none" /\ Judge(i)
       \/ /\ KeyOf[i] = "none"
          /\ inst' = [inst EXCEPT ![i].pc = "migrate", ![i].starts = @ + 1]
    /\ UNCHANGED <<rows, request, changes, dbFailures>>

\* Second phase: each pending row is written back whole, as it was when it was listed.
MigrateOne(i) ==
    /\ inst[i].pc = "migrate" /\ inst[i].pending # <<>>
    /\ LET p == Head(inst[i].pending)
       IN  \/ /\ rows' = [rows EXCEPT ![p.name] = [p.row EXCEPT !.key = EncryptStored(p.row.key, KeyOf[i])]]
              /\ UNCHANGED dbFailures
           \/ DbFails /\ UNCHANGED rows
    /\ inst' = [inst EXCEPT ![i].pending = Tail(@)]
    /\ UNCHANGED <<request, changes>>

\* buildLLM, with the list as it is then.
BuildLLM(i) ==
    /\ inst[i].pc = "migrate" /\ inst[i].pending = <<>>
    /\ \E read \in Reads(i) :
           Loads(read) /\ inst' = [inst EXCEPT ![i].pc = "up", ![i].gateway = read.list]
    /\ UNCHANGED <<rows, request, changes>>

\* A tick of startProviderRefresh.  Mutant: the list is set only when it has grown.
RefreshOnlyGrows(i) ==
    /\ inst[i].pc = "up"
    /\ \E read \in Reads(i) :
           /\ Loads(read)
           /\ Len(read.list) > Len(inst[i].gateway)
           /\ inst' = [inst EXCEPT ![i].gateway = read.list]
    /\ UNCHANGED <<rows, request, changes>>

Refresh(i) ==
    /\ inst[i].pc = "up"
    /\ \E read \in Reads(i) :
           /\ Loads(read)
           /\ ProviderSignature(read.list) # ProviderSignature(inst[i].gateway)
           /\ inst' = [inst EXCEPT ![i].gateway = read.list]
    /\ UNCHANGED <<rows, request, changes>>

\* The process ends; its requests end with it.
Stop(i) ==
    /\ inst[i].pc # "down"
    /\ inst' = [inst EXCEPT ![i] = [Down EXCEPT !.starts = inst[i].starts]]
    /\ request' = [q \in Requests |-> IF request[q] # NoRequest /\ request[q].at = i
                                      THEN NoRequest ELSE request[q]]
    /\ UNCHANGED <<rows, changes, dbFailures>>

-----------------------------------------------------------------------------
(* The handlers, on an instance that is up. *)

Changing == changes < MaxChanges /\ changes' = changes + 1

CreateProvider(i, n) ==
    /\ inst[i].pc = "up" /\ Changing
    /\ \E s \in Secrets \cup {""}, u \in Urls :
           rows' = [rows EXCEPT ![n] = Row(StoredKey(Plain(s), KeyOf[i]), u, TRUE)]
    /\ UNCHANGED <<inst, request, dbFailures>>

DeleteProvider(i, n) ==
    /\ inst[i].pc = "up" /\ There(n) /\ Changing
    /\ rows' = [rows EXCEPT ![n] = Absent]
    /\ UNCHANGED <<inst, request, dbFailures>>

\* update: GetProvider (refused when the key cannot be decrypted), then UpsertProvider by name.
GetProvider(q, i, n) ==
    /\ inst[i].pc = "up" /\ request[q] = NoRequest
    /\ There(n) /\ ~Undecryptable(rows[n].key, KeyOf[i])
    /\ request' = [request EXCEPT ![q] = [pc |-> "write", at |-> i, name |-> n,
                      row |-> [rows[n] EXCEPT !.key = DecryptStored(rows[n].key, KeyOf[i])]]]
    /\ UNCHANGED <<rows, inst, changes, dbFailures>>

\* A field that is left empty keeps the value that was read.
Edits(row) == [there : {TRUE}, key : {row.key} \cup {Plain(s) : s \in Secrets}, url : Urls,
               enabled : BOOLEAN]

UpsertProvider(q) ==
    /\ request[q] # NoRequest /\ Changing
    /\ \E row \in Edits(request[q].row) :
           rows' = [rows EXCEPT ![request[q].name] =
                       [row EXCEPT !.key = StoredKey(row.key, KeyOf[request[q].at])]]
    /\ request' = [request EXCEPT ![q] = NoRequest]
    /\ UNCHANGED <<inst, dbFailures>>

ProviderNext ==
    \/ \E i \in Instances : Start(i) \/ MigrateOne(i) \/ BuildLLM(i) \/ Refresh(i) \/ Stop(i)
    \/ \E i \in Instances, n \in Names : CreateProvider(i, n) \/ DeleteProvider(i, n)
    \/ \E q \in Requests, i \in Instances, n \in Names : GetProvider(q, i, n)
    \/ \E q \in Requests : UpsertProvider(q)

\* The ticker of the refresh ticks on.
ProviderFairness == \A i \in Instances : WF_providerVars(Refresh(i))

ProviderSpec == ProviderInit /\ [][ProviderNext]_providerVars /\ ProviderFairness

-----------------------------------------------------------------------------
(* Properties. *)

Key == [secret : Secrets \cup {""}, layers : {<<>>} \cup {<<c>> : c \in Ciphers}, prefix : BOOLEAN]

\* A key is never wrapped twice, whatever instances with whatever keys start, migrate, read and
\* write back in whatever order: the ENCRYPTION_KEY of the last writer, or of nobody, gives the
\* secret back (provider_encryption.go:126-128, main.go:229-233).
KeysRecoverable ==
    \A n \in Names : There(n) => rows[n].key \in Key

\* An instance that encrypts never hands a ciphertext to a gateway as an API key
\* (provider_encryption.go:107-111).
NoCiphertextUsed ==
    \A i \in Instances : KeyOf[i] # "none" =>
        \A j \in DOMAIN inst[i].gateway : inst[i].gateway[j].key.layers = <<>>

UpToDate(i) == inst[i].pc = "up" => ProviderSignature(inst[i].gateway) = ProviderSignature(LoadProviders(i))

\* When the table no longer changes, every instance serves the providers it names, without a
\* restart (main.go:604-616).
NamesFollow == <>[]\A i \in Instances : UpToDate(i)

\* The same of their addresses and keys: every change on any instance is seen by all of them
\* (main.go:607), the signature being name and base_url (main.go:642).
ConfigReachesGateway == \A i \in Instances : <>[](inst[i].pc = "up" => inst[i].gateway = LoadProviders(i))
=============================================================================
