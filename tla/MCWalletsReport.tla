--------------------------- MODULE MCWalletsReport ---------------------------
(***************************************************************************)
(* Instance of WalletsReport for TLC: three retailers, two of them with    *)
(* ids that are the same number and one with wallets in two currencies;    *)
(* one that the user service does not know; an id that MySQL refuses; and  *)
(* a phone number that leads to nobody.                                    *)
(***************************************************************************)
EXTENDS WalletsReport, TLC

MCWallets    == 1 .. 4
MCRetailerOf == 1 :> "07" @@ 2 :> "12" @@ 3 :> "12" @@ 4 :> "7"
MCCurrencyOf == 1 :> "SAR" @@ 2 :> "PKR" @@ 3 :> "SAR" @@ 4 :> "PKR"
MCRowIds     == 1 .. 5
MCWalletOf   == 1 :> 2 @@ 2 :> 2 @@ 3 :> 3 @@ 4 :> 4 @@ 5 :> 1
MCAmount     == 1 :> 5 @@ 2 :> -3 @@ 3 :> 2 @@ 4 :> 1 @@ 5 :> 4
MCUsers      == {"7", "12"}
MCMatches    == "7" :> {"7", "07"} @@ "07" :> {"7", "07"} @@ "12" :> {"12"} @@ "r-7" :> {}
MCRefused    == {"r-7"}
MCOwner      == "phone1" :> "7" @@ "phone2" :> None
=============================================================================
