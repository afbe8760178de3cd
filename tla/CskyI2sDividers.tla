-------------------------- MODULE CskyI2sDividers --------------------------
(***************************************************************************)
(* The clock-divider calculations of the C-SKY I2S driver                  *)
(* (sound/soc/csky/csky-i2s.c, csky_i2s_calc_*_div), as pure operators of  *)
(* the fields of struct csky_i2s they read.                                *)
(*                                                                         *)
(* A divider register holding N divides its input clock by 2*(N+1).        *)
(*                                                                         *)
(* C arithmetic: the divisions are on unsigned int and truncate, which is  *)
(* \div on the non-negative values used here.  In "src_clk / 2 / mclk - 1" *)
(* the subtraction is unsigned as well and wraps to UINT_MAX when the      *)
(* quotient is 0; stored in an int this is -1 on every target the kernel   *)
(* builds for, so the mathematical value is kept.                          *)
(***************************************************************************)
EXTENDS Integers

\* Error code returned by the calculators (-EINVAL).
EINVAL == 22

\* The two sample-rate families of csky_i2s_calc_refclk_div and
\* csky_i2s_set_clk_rate.
Family48k == {8000, 16000, 32000, 48000, 96000}
Family44k == {11025, 22050, 44100, 88200}

\* The mclk/fs ratios csky,i2s-v1.1 accepts.
V11MclkFsRatios == {256, 384, 512, 768}

\* csky_i2s_calc_fs_div: sclk is fixed to 64 fs to support every word size;
\* the function stores the multiplier in i2s->sclk_fs_divider.
SclkFsMulti == 64

CalcFsDiv == SclkFsMulti \div 2 - 1

\* csky,i2s-v1 has no mclk->sclk divider: mclk is wired to sclk through 1/8
\* for I2S and left-justified, 1/4 for right-justified.
V1MclkSclkRatio(fmt) == IF fmt \in {"I2S", "LEFT_J"} THEN 8 ELSE 4

\* Seeded fault: the v1 check with the I2S/left-justified ratio for every
\* format.
MclkFsRatioOkNoFmt(mclkFs, hasMclkSclkDiv, fmt, sclkFs) ==
    IF hasMclkSclkDiv
    THEN mclkFs \in V11MclkFsRatios
    ELSE mclkFs = 8 * sclkFs

\* The generation-specific check of mclk_fs_div in csky_i2s_calc_mclk_div.
MclkFsRatioOk(mclkFs, hasMclkSclkDiv, fmt, sclkFs) ==
    IF hasMclkSclkDiv
    THEN mclkFs \in V11MclkFsRatios
    ELSE mclkFs = V1MclkSclkRatio(fmt) * sclkFs

\* The two early returns of csky_i2s_calc_mclk_div before mclk_fs_divider is
\* stored: mclk not a multiple of fs, and an invalid ratio.
MclkRatioAccepted(mclk, rate, hasMclkSclkDiv, fmt, sclkFs) ==
    /\ mclk % rate = 0
    /\ MclkFsRatioOk(mclk \div rate, hasMclkSclkDiv, fmt, sclkFs)

\* Seeded fault: calc_mclk_div without the check that the divider
\* reproduces mclk.
CalcMclkDivNoRoundTrip(mclk, rate, src, hasMclkSclkDiv, fmt, sclkFs) ==
    IF ~MclkRatioAccepted(mclk, rate, hasMclkSclkDiv, fmt, sclkFs)
    THEN -EINVAL
    ELSE (src \div 2) \div mclk - 1

\* csky_i2s_calc_mclk_div: returns -EINVAL on a rejected ratio or when the
\* divider does not reproduce mclk exactly; otherwise the divider, which is
\* -1, unchecked, when src_clk < 2 * mclk.
CalcMclkDiv(mclk, rate, src, hasMclkSclkDiv, fmt, sclkFs) ==
    LET div == (src \div 2) \div mclk - 1
    IN  IF ~MclkRatioAccepted(mclk, rate, hasMclkSclkDiv, fmt, sclkFs)
        THEN -EINVAL
        ELSE IF div >= 0 /\ src \div (2 * (div + 1)) # mclk
             THEN -EINVAL
             ELSE div

\* csky_i2s_calc_spdifclk_div: a fixed value ("usually 17 or 11.  Why ?").
CalcSpdifclkDiv == 17

\* Seeded fault: the sclk divider written as the ratio without the "- 1".
CalcSclkDivNoMinusOne(mclkFs, sclkFs) == (mclkFs \div sclkFs) \div 2

\* csky_i2s_calc_sclk_div (v1.1 only), truncating mclk_fs / sclk_fs.
CalcSclkDiv(mclkFs, sclkFs) == (mclkFs \div sclkFs) \div 2 - 1

\* The reference clock of each rate family; 0 for a rate of neither.
RefClk(rate) ==
    IF rate \in Family48k THEN 3072000
    ELSE IF rate \in Family44k THEN 2116800
    ELSE 0

\* csky_i2s_calc_refclk_div: no check that the divider reproduces ref_clk.
CalcRefclkDiv(src, rate) ==
    IF RefClk(rate) = 0 THEN -EINVAL
    ELSE (src \div 2) \div RefClk(rate) - 1
=============================================================================
