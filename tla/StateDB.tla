------------------------------- MODULE StateDB -------------------------------
(***************************************************************************)
(* StateDB of crates/ivory-state/src/state.rs: three maps behind a lock    *)
(* each.  An account is what it owns (nonce, balance and code hash, one    *)
(* value of Owned) and its storage_root.  A root is the map it commits to  *)
(* (Trie!RootCanonical), with the empty map for H256::ZERO.                *)
(***************************************************************************)
EXTENDS Integers, FiniteSets, Functions, TLC

CONSTANTS Addr, Slot, SlotValue, Owned, Code,
    Nothing     \* the owned part of Account::default()

ASSUME StateDBAssumption == Nothing \notin Owned

NoMap == <<>>
NewState == [accounts |-> NoMap, storage |-> NoMap, code |-> NoMap]

IsEmptyAccount(acc) == acc.owned = Nothing /\ acc.root = NoMap

\* compute_storage_root: zero values never are in the map
StorageRoot(storage, a) ==
    [s \in {k[2] : k \in {k \in DOMAIN storage : k[1] = a}} |-> storage[<<a, s>>]]

Put(f, k, v) == (k :> v) @@ f
Without(f, k) == Restrict(f, DOMAIN f \ {k})

\* The second half of refresh_storage_root: write a root that was computed
\* from the storage map into the accounts.
WriteRoot(accounts, a, root) ==
    IF a \in DOMAIN accounts THEN [accounts EXCEPT ![a].root = root]
    ELSE IF root # NoMap THEN Put(accounts, a, [owned |-> Nothing, root |-> root])
    ELSE accounts

RefreshStorageRoot(db, a) ==
    [db EXCEPT !.accounts = WriteRoot(@, a, StorageRoot(db.storage, a))]

SetAccount(db, a, owned) ==
    [db EXCEPT !.accounts =
        Put(@, a, [owned |-> owned, root |-> StorageRoot(db.storage, a)])]

\* Mutant: a zero is stored instead of removing the slot.
StoreZero(storage, a, s, v) == Put(storage, <<a, s>>, v)
StoreSlot(storage, a, s, v) ==
    IF v = 0 THEN Without(storage, <<a, s>>) ELSE Put(storage, <<a, s>>, v)

SetStorage(db, a, s, v) ==
    RefreshStorageRoot([db EXCEPT !.storage = StoreSlot(@, a, s, v)], a)

GetStorage(db, a, s) == IF <<a, s>> \in DOMAIN db.storage THEN db.storage[<<a, s>>] ELSE 0

SetCode(db, a, c) == [db EXCEPT !.code = Put(@, a, c)]

\* The addresses that sync_all_storage_roots visits.
SyncAddrs(accounts, storage) == DOMAIN accounts \cup {k[1] : k \in DOMAIN storage}

\* sync_all_storage_roots, nothing else running
SyncAll(db) ==
    [db EXCEPT !.accounts =
        [a \in {a \in SyncAddrs(db.accounts, db.storage) :
                    a \in DOMAIN @ \/ StorageRoot(db.storage, a) # NoMap} |->
            [owned |-> IF a \in DOMAIN @ THEN @[a].owned ELSE Nothing,
             root |-> StorageRoot(db.storage, a)]]]

\* account_pairs: what the account trie is built from
AccountPairs(accounts) ==
    Restrict(accounts, {a \in DOMAIN accounts : ~IsEmptyAccount(accounts[a])})

\* root_hash, and the root of trie_nodes and account_proof
RootHash(db) == AccountPairs(SyncAll(db).accounts)

\* to_snapshot and from_snapshot: lists of entries, in no order
ToSnapshot(db) ==
    [accounts |-> {<<a, db.accounts[a]>> : a \in DOMAIN db.accounts},
     storage  |-> {<<k[1], k[2], db.storage[k]>> : k \in DOMAIN db.storage},
     code     |-> {<<a, db.code[a]>> : a \in DOMAIN db.code}]

OfEntries(entries) ==
    [k \in {e[1] : e \in entries} |-> (CHOOSE e \in entries : e[1] = k)[2]]

FromSnapshot(snap) ==
    [accounts |-> OfEntries(snap.accounts),
     storage  |-> OfEntries({<<<<e[1], e[2]>>, e[3]>> : e \in snap.storage}),
     code     |-> OfEntries(snap.code)]
-----------------------------------------------------------------------------
\* What the executor does to a state, one call after another.
Apply(db, op) ==
    CASE op.call = "set_account" -> SetAccount(db, op.addr, op.owned)
      [] op.call = "set_storage" -> SetStorage(db, op.addr, op.slot, op.value)
      [] op.call = "set_code" -> SetCode(db, op.addr, op.code)

OwnedBy(db, a) == IF a \in DOMAIN db.accounts THEN db.accounts[a].owned ELSE Nothing

\* What the state holds, whatever calls led there.
Contents(db) ==
    LET storageOf(a) == [s \in {s \in Slot : GetStorage(db, a, s) # 0} |-> GetStorage(db, a, s)]
    IN  [a \in {a \in Addr : OwnedBy(db, a) # Nothing \/ storageOf(a) # NoMap} |->
            [owned |-> OwnedBy(db, a), root |-> storageOf(a)]]

\* The root a block commits to is a function of the contents (state.rs
\* root_hash): slots written and cleared again, accounts left empty and the
\* order of the calls leave no trace, and a state reloaded from its snapshot
\* (persist.rs load_into) has the same root and the same storage roots.
RootIsContents(db) ==
    /\ RootHash(db) = Contents(db)
    /\ FromSnapshot(ToSnapshot(db)) = db
    /\ \A a \in DOMAIN db.accounts : db.accounts[a].root = StorageRoot(db.storage, a)
=============================================================================
