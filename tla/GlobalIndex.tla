---------------------------- MODULE GlobalIndex ----------------------------
(***************************************************************************)
(* The global index of a claim (etherman/etherman.go): GenerateGlobalIndex *)
(* builds it from (mainnetFlag, rollupIndex, localExitRootIndex) for the   *)
(* API (server/service.go), and DecodeGlobalIndex reads it back from a     *)
(* ClaimEvent, after which storage finds the claim of a deposit with      *)
(* GetClaim (db/pgstorage/pgstorage.go).  big.Int byte conversions are     *)
(* modelled over narrowed widths: a byte has Base values, a uint32 field   *)
(* FieldBytes bytes and the whole index GIBytes bytes (256, 4 and 32 in    *)
(* the code), with the flag byte right before the two fields.             *)
(***************************************************************************)
EXTENDS Naturals, Sequences, SequencesExt

CONSTANTS Base, FieldBytes, GIBytes, MaxNetwork, NoIndex, NoClaim, NoArgs

ASSUME GIBytes >= 2 * FieldBytes + 1

Uint32 == 0 .. (Base ^ FieldBytes - 1)
Networks == 0 .. MaxNetwork

\* big.Int.FillBytes: n big-endian in exactly k bytes.
RECURSIVE FillBytes(_, _)
FillBytes(n, k) ==
    IF k = 0 THEN <<>> ELSE FillBytes(n \div Base, k - 1) \o <<n % Base>>

\* big.Int.SetBytes: the big-endian value of a byte string.
SetBytes(s) == FoldLeft(LAMBDA acc, b : acc * Base + b, 0, s)

\* big.NewInt(1).Bytes()
OneBytes == <<1>>

\* Mutant: the local index is written before the rollup index.
GenerateGlobalIndexSwapped(mainnetFlag, rollupIndex, localExitRootIndex) ==
    SetBytes(
      (IF mainnetFlag THEN OneBytes ELSE <<>>)
      \o FillBytes(localExitRootIndex, FieldBytes)
      \o FillBytes(IF mainnetFlag THEN 0 ELSE rollupIndex, FieldBytes))

GenerateGlobalIndex(mainnetFlag, rollupIndex, localExitRootIndex) ==
    SetBytes(
      (IF mainnetFlag THEN OneBytes \o FillBytes(0, FieldBytes)
                      ELSE FillBytes(rollupIndex, FieldBytes))
      \o FillBytes(localExitRootIndex, FieldBytes))

\* The flag is byte 23 (0-based) of the 32, the rollup index bytes 24..27
\* and the local index bytes 28..31.  The "> MaxUint32" errors cannot
\* happen on a FieldBytes-byte slice and are left out.
FlagByte == GIBytes - 2 * FieldBytes

\* Mutant: the rollup index slice starts at the flag byte.
DecodeGlobalIndexWideRollup(globalIndex) ==
    LET b == FillBytes(globalIndex, GIBytes) IN
    [mainnetFlag |-> SetBytes(<<b[FlagByte]>>) = 1,
     rollupIndex |-> SetBytes(SubSeq(b, FlagByte, FlagByte + FieldBytes)),
     localExitRootIndex |-> SetBytes(SubSeq(b, FlagByte + FieldBytes + 1,
                                           GIBytes))]

DecodeGlobalIndex(globalIndex) ==
    LET b == FillBytes(globalIndex, GIBytes) IN
    [mainnetFlag |-> SetBytes(<<b[FlagByte]>>) = 1,
     rollupIndex |-> SetBytes(SubSeq(b, FlagByte + 1, FlagByte + FieldBytes)),
     localExitRootIndex |-> SetBytes(SubSeq(b, FlagByte + FieldBytes + 1,
                                           GIBytes))]

\* Mutant: the rollup index is the network id itself.
DepositGlobalIndexOffByOne(dep) ==
    GenerateGlobalIndex(dep.net = 0, dep.net, dep.cnt)

\* The API's global index of a deposit: mainnet for network 0, otherwise
\* rollup index NetworkID - 1; the local index is the deposit count.
DepositGlobalIndex(dep) ==
    GenerateGlobalIndex(dep.net = 0, IF dep.net = 0 THEN 0 ELSE dep.net - 1,
                        dep.cnt)

\* GetClaim: a claim row is the deposit's claim when its index is the
\* deposit count and, for origin 0, it is a mainnet claim, otherwise a
\* rollup claim with rollup_index + 1 = origin.
ClaimMatches(claim, depositCount, originNetworkID) ==
    /\ claim.index = depositCount
    /\ IF originNetworkID = 0
         THEN claim.mainnetFlag
         ELSE ~claim.mainnetFlag /\ claim.rollupIndex + 1 = originNetworkID

(* Reference: the bridge contract's layout of a global index, bit 64 the  *)
(* mainnet flag, bits 32..63 the rollup index (zero for mainnet), bits    *)
(* 0..31 the local exit root index.                                       *)
RefGlobalIndex(mainnetFlag, rollupIndex, localIndex) ==
    (IF mainnetFlag THEN Base ^ (2 * FieldBytes) ELSE 0)
    + (IF mainnetFlag THEN 0 ELSE rollupIndex) * Base ^ FieldBytes
    + localIndex

-----------------------------------------------------------------------------
(* A deposit, the global index a claimant builds for it, and the claim    *)
(* event that comes back.                                                  *)

VARIABLES
    deposit,   \* the stored deposit: origin network and deposit count
    args,      \* the (flag, rollup index, local index) given to Generate
    gi,        \* the global index the claim is sent with
    claim      \* the claim row newClaimEvent decoded
vars == <<deposit, args, gi, claim>>

Deposit == [net : Networks, cnt : Uint32]
Claim == [index : Uint32, mainnetFlag : BOOLEAN, rollupIndex : Uint32]

Args == [mainnetFlag : BOOLEAN, rollupIndex : Uint32,
         localExitRootIndex : Uint32]

Init ==
    /\ deposit \in Deposit
    /\ args = NoArgs
    /\ gi = NoIndex
    /\ claim = NoClaim

\* GetBridge / GetBridges: the deposit with its global index.
GetBridge ==
    /\ gi = NoIndex
    /\ args' = [mainnetFlag |-> deposit.net = 0,
                rollupIndex |-> IF deposit.net = 0 THEN 0 ELSE deposit.net - 1,
                localExitRootIndex |-> deposit.cnt]
    /\ gi' = DepositGlobalIndex(deposit)
    /\ UNCHANGED <<deposit, claim>>

\* The e2e client's generateGlobalIndex: rollup index rollupID - 1 for the
\* rollup it claims on, whatever the deposit's origin.  A rollup deposit's
\* proof verifies only under its own rollup, so there rollupID is the
\* origin; a mainnet deposit may name any rollup.
ClientBuildsIndex ==
    /\ gi = NoIndex
    /\ \E rollupID \in IF deposit.net = 0 THEN 1 .. MaxNetwork
                                          ELSE {deposit.net} :
         LET a == [mainnetFlag |-> deposit.net = 0,
                   rollupIndex |-> rollupID - 1,
                   localExitRootIndex |-> deposit.cnt]
         IN /\ args' = a
            /\ gi' = GenerateGlobalIndex(a.mainnetFlag, a.rollupIndex,
                                         a.localExitRootIndex)
    /\ UNCHANGED <<deposit, claim>>

\* newClaimEvent: the claim carries the decoded global index.
ClaimEvent ==
    /\ gi # NoIndex /\ claim = NoClaim
    /\ LET d == DecodeGlobalIndex(gi) IN
         claim' = [index |-> d.localExitRootIndex,
                   mainnetFlag |-> d.mainnetFlag,
                   rollupIndex |-> d.rollupIndex]
    /\ UNCHANGED <<deposit, args, gi>>

Next == GetBridge \/ ClientBuildsIndex \/ ClaimEvent

Spec == Init /\ [][Next]_vars

-----------------------------------------------------------------------------

TypeOK ==
    /\ deposit \in Deposit
    /\ args \in Args \cup {NoArgs}
    /\ gi \in Nat \cup {NoIndex}
    /\ claim \in Claim \cup {NoClaim}

\* The index a claimant sends is the contract's layout of the arguments:
\* GenerateGlobalIndex's bytes agree with the bit positions the contract
\* reads, and a mainnet index carries no rollup index.
IndexMatchesLayout ==
    gi # NoIndex =>
      gi = RefGlobalIndex(args.mainnetFlag, args.rollupIndex,
                          args.localExitRootIndex)

\* A claim made with the API's global index is found again: GetClaim with
\* the deposit's count and origin network matches the claim that
\* newClaimEvent decoded.
ClaimIdentifiesDeposit ==
    claim # NoClaim => ClaimMatches(claim, deposit.cnt, deposit.net)

====
