---------------------------- MODULE RstgenLayout ----------------------------
(***************************************************************************)
(* The software resets (common/rstgen_ctrl_macro.h).  Four assert words    *)
(* and four status words hold one bit per reset, at the same position in   *)
(* both; a definition lists the resets of consecutive bits, in bit order.  *)
(* The macros of an active-low rstn_ reset take a status of 0 for "held in *)
(* reset", those of the six active-high rst_ resets a status of 1.         *)
(***************************************************************************)
EXTENDS RegisterFields, Sequences

BusResets ==
    <<"rstn_dom3ahb_bus", "rstn_dom7ahb_bus", "rst_u74", "rstn_u74_axi",
      "rstn_sgdma2p_ahb">>

DlaResets ==
    <<"rstn_sgdma2p_axi", "rstn_dma2pnoc_aix", "rstn_dla_axi",
      "rstn_dlanoc_axi", "rstn_dla_apb">>

Vp6Resets ==
    <<"rst_vp6_DReset", "rst_vp6_Breset", "rstn_vp6_axi",
      "rstn_vdecbrg_main", "rstn_vdec_axi">>

DecoderResets ==
    <<"rstn_vdec_bclk", "rstn_vdec_cclk", "rstn_vdec_apb", "rstn_jpeg_axi",
      "rstn_jpeg_cclk">>

JpegResets ==
    <<"rstn_jpeg_apb", "rstn_jpcgc300_main", "rstn_gc300_2x",
      "rstn_gc300_axi", "rstn_gc300_ahb">>

EncoderResets ==
    <<"rstn_venc_axi", "rstn_vencbrg_main", "rstn_venc_bclk",
      "rstn_venc_cclk", "rstn_venc_apb">>

NocResets ==
    <<"rstn_ddrphy_apb", "rstn_noc_rob">>

Hifi4Resets ==
    <<"rstn_noc_cog", "rstn_hifi4_axi", "rstn_hifi4noc_axi",
      "rst_hifi4_DReset", "rst_hifi4_Breset">>

UsbResets ==
    <<"rstn_usb_axi", "rstn_usbnoc_axi", "rstn_sgdma1p_axi",
      "rstn_dma1p_axi", "rstn_x2c_axi">>

NneResets ==
    <<"rstn_nne_ahb", "rstn_nne_axi", "rstn_nnenoc_axi", "rstn_dlaslv_axi",
      "rstn_dspx2c_axi">>

VideoInResets ==
    <<"rstn_vin_src", "rstn_ispslv_axi", "rstn_vin_axi", "rstn_vinnoc_axi",
      "rstn_isp0_axi">>

IspResets ==
    <<"rstn_isp0noc_axi", "rstn_isp1_axi", "rstn_isp1noc_axi",
      "rstn_vout_src", "rstn_disp_axi">>

DisplayResets ==
    <<"rstn_dispnoc_axi", "rstn_sdio0_ahb", "rstn_sdio1_ahb",
      "rstn_gmac_ahb", "rstn_spi2ahb_ahb">>

BridgeResets ==
    <<"rstn_spi2ahb_core", "rstn_ezmaster_ahb">>

QspiResets ==
    <<"rst_e24", "rstn_qspi_ahb", "rstn_qspi_core", "rstn_qspi_apb",
      "rstn_sec_ahb">>

CryptoResets ==
    <<"rstn_aes", "rstn_pka", "rstn_sha", "rstn_trng_apb", "rstn_otp_apb">>

UartResets ==
    <<"rstn_uart0_apb", "rstn_uart0_core", "rstn_uart1_apb",
      "rstn_uart1_core", "rstn_spi0_apb">>

SpiResets ==
    <<"rstn_spi0_core", "rstn_spi1_apb", "rstn_spi1_core", "rstn_i2c0_apb",
      "rstn_i2c0_core">>

I2cResets ==
    <<"rstn_i2c1_apb", "rstn_i2c1_core", "rstn_gpio_apb", "rstn_uart2_apb",
      "rstn_uart2_core">>

LateUartResets ==
    <<"rstn_uart3_apb", "rstn_uart3_core", "rstn_spi2_apb",
      "rstn_spi2_core", "rstn_spi3_apb">>

Spi3Resets ==
    <<"rstn_spi3_core", "rstn_i2c2_apb">>

I2cAndWatchdogResets ==
    <<"rstn_i2c2_core", "rstn_i2c3_apb", "rstn_i2c3_core",
      "rstn_wdtimer_apb", "rstn_wdt">>

TimerResets ==
    <<"rstn_timer0", "rstn_timer1", "rstn_timer2", "rstn_timer3",
      "rstn_timer4">>

LateTimerResets ==
    <<"rstn_timer5", "rstn_timer6", "rstn_vp6intc_apb", "rstn_pwm_apb",
      "rstn_msi_apb">>

TempResets ==
    <<"rstn_temp_apb", "rstn_temp_sense", "rstn_syserr_apb">>

-----------------------------------------------------------------------------
ResetWords ==
    <<BusResets \o DlaResets \o Vp6Resets \o DecoderResets \o JpegResets \o
      EncoderResets \o NocResets,
      Hifi4Resets \o UsbResets \o NneResets \o VideoInResets \o IspResets \o
      DisplayResets \o BridgeResets,
      QspiResets \o CryptoResets \o UartResets \o SpiResets \o I2cResets \o
      LateUartResets \o Spi3Resets,
      I2cAndWatchdogResets \o TimerResets \o LateTimerResets \o TempResets>>

ActiveHigh ==
    {"rst_u74", "rst_vp6_DReset", "rst_vp6_Breset", "rst_hifi4_DReset",
     "rst_hifi4_Breset", "rst_e24"}

\* Word w of the assert registers, w from 1; bit b - 1 is reset b of the word.
ResetLayout ==
    [w \in 1 .. 4 |->
        {Reset(b - 1, ResetWords[w][b] \in ActiveHigh) :
            b \in 1 .. Len(ResetWords[w])}]

\* The word and the field of a reset.
ResetNamed(name) ==
    LET w == CHOOSE v \in 1 .. 4 :
                 \E b \in 1 .. Len(ResetWords[v]) : ResetWords[v][b] = name
        b == CHOOSE c \in 1 .. Len(ResetWords[w]) : ResetWords[w][c] = name
    IN  [reg |-> <<"rstgen", w>>,
         at  |-> Reset(b - 1, name \in ActiveHigh)]
=============================================================================
