------------------------------ MODULE MCBuyDip ------------------------------
EXTENDS BuyDip
MCDistances == <<10, 20>>
=============================================================================
