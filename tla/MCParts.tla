------------------------------ MODULE MCParts ------------------------------
(***************************************************************************)
(* Parts that share nothing: what the node and its tools keep (words and   *)
(* accounts, the trie, the compute database, indexes, the wallet, the      *)
(* journal), and what meets the node from outside (headers and the rules   *)
(* they pass, requests and their limit, questions for results, records of  *)
(* nodes, frames of a peer, the calls of a miner).  A behaviour is one of a *)
(* single part, the others rest in their initial states.                   *)
(*                                                                         *)
(* Words have three digits of two bits.                                    *)
(***************************************************************************)
EXTENDS AccountLedger, TrieStore, ComputeMaintenance, HistoryIndex, Wallet, MCBlockJournal,
        HeaderChain, RateLimiter, ResultReads, Discovery, PeerWire, LocalMiner

VARIABLE part

\* Accounts: a loss and a gain of one account, a gain of another that may not exist.
MCGenesis == [a \in {"alice"} |-> Top]
Change(a, amount, nonce, slot) == [address |-> a, amount |-> amount, nonce |-> nonce, slot |-> slot]
MCBatches == {<<Change("alice", -1, 5, <<"k", "v">>), Change("alice", 1, Nothing, <<"k", "w">>)>>,
              <<Change("alice", -3, Nothing, Nothing)>>,
              <<Change("bob", 2, 1, Nothing), Change("alice", 3, Nothing, Nothing)>>}

\* Paths of three nibbles that share none of them or two.
MCTrieKeys == {<<0, 0, 0>>, <<0, 0, 1>>, <<1, 0, 0>>}

MCLegacyDb == [k \in {"a", "old"} |-> IF k = "a" THEN "json" ELSE "binary"]

\* Two blocks of one height and the next; two operations.
MCIndexedBlocks == [b \in {"b1", "b2", "c"} |-> IF b = "c" THEN 2 ELSE 1]
MCOperations == [o \in {"o1", "o2"} |-> {"e"}]

MCLegacyAccounts == <<[name |-> 1, key |-> 1, phrase |-> Clear]>>

\* Difficulties scaled down by 25000: 10 to 60 around 40, digests below 4^4, blocks due
\* every 2 seconds.
MCDigests == {3, 12}
MCExtraSizes == {32, 64, 65}

\* A peer's snapshot has another result for "a" than this node would have, and has it twice.
PeerRecord(tx, time) == [tx |-> tx, result |-> [stamp |-> time, of |-> "peer"]]
MCSnapshots == {<<PeerRecord("a", 0), PeerRecord("b", 1), PeerRecord("a", 1)>>, <<PeerRecord("c", 1)>>}

MCBootnodes == <<NodeRecord(1, "h"), NodeRecord(6, "h")>>

\* The dialer's ticks and its question cut into what it reads.
MCScripts == [s \in Sides |-> IF s = "dialer" THEN <<"get headers">> ELSE <<"new block", "disconnect">>]
MCTicks == [s \in Sides |-> IF s = "dialer" THEN 2 ELSE 0]

storageVars == <<ledgerVars, trieVars, diskVars, indexVars, walletVars, journalVars>>
edgeVars == <<chainVars, rpcVars, resultVars, discoveryVars, wireVars, minerVars>>

PartsInit ==
  /\ part \in {"accounts", "trie", "disk", "index", "wallet", "journal",
               "rules", "limit", "results", "discovery", "wire", "miner"}
  /\ LedgerInit /\ TrieInit /\ DiskInit /\ IndexInit /\ WalletInit /\ JournalInit
  /\ ChainInit /\ (part # "rules" => head = GenesisBlock /\ clock = 1)
  /\ WireInit /\ (part # "wire" => wire = "ws")
  /\ RpcInit /\ ResultInit /\ DiscoveryInit /\ MinerInit

PartsNext ==
  \/ /\ part = "accounts" /\ LedgerNext
     /\ UNCHANGED <<part, edgeVars, trieVars, diskVars, indexVars, walletVars, journalVars>>
  \/ /\ part = "trie" /\ TrieNext
     /\ UNCHANGED <<part, edgeVars, ledgerVars, diskVars, indexVars, walletVars, journalVars>>
  \/ /\ part = "disk" /\ DiskNext
     /\ UNCHANGED <<part, edgeVars, ledgerVars, trieVars, indexVars, walletVars, journalVars>>
  \/ /\ part = "index" /\ IndexNext
     /\ UNCHANGED <<part, edgeVars, ledgerVars, trieVars, diskVars, walletVars, journalVars>>
  \/ /\ part = "wallet" /\ WalletNext
     /\ UNCHANGED <<part, edgeVars, ledgerVars, trieVars, diskVars, indexVars, journalVars>>
  \/ /\ part = "journal" /\ JournalNext
     /\ UNCHANGED <<part, edgeVars, ledgerVars, trieVars, diskVars, indexVars, walletVars>>
  \/ /\ part = "rules" /\ ChainNext
     /\ UNCHANGED <<part, storageVars, rpcVars, resultVars, discoveryVars, wireVars, minerVars>>
  \/ /\ part = "limit" /\ RpcNext
     /\ UNCHANGED <<part, storageVars, chainVars, resultVars, discoveryVars, wireVars, minerVars>>
  \/ /\ part = "results" /\ ResultNext
     /\ UNCHANGED <<part, storageVars, chainVars, rpcVars, discoveryVars, wireVars, minerVars>>
  \/ /\ part = "discovery" /\ DiscoveryNext
     /\ UNCHANGED <<part, storageVars, chainVars, rpcVars, resultVars, wireVars, minerVars>>
  \/ /\ part = "wire" /\ WireNext
     /\ UNCHANGED <<part, storageVars, chainVars, rpcVars, resultVars, discoveryVars, minerVars>>
  \/ /\ part = "miner" /\ MinerNext
     /\ UNCHANGED <<part, storageVars, chainVars, rpcVars, resultVars, discoveryVars, wireVars>>
=============================================================================
