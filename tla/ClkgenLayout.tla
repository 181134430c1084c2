---------------------------- MODULE ClkgenLayout ----------------------------
(***************************************************************************)
(* The clock generator's registers (common/clkgen_ctrl_macro.h): one word  *)
(* per clock, named after it, and the fields the header has macros for.    *)
(* A clock without a Gate has an _ENABLE_CLOCK_ macro that does nothing.   *)
(* A definition stands for the macros of consecutive clocks.               *)
(***************************************************************************)
EXTENDS RegisterFields, TLC

Clocks(names, fields) == [c \in names |-> fields]

CoreRoots ==
    Clocks({"cpundbus_root", "dsp_root"}, {Source(4)}) @@
    Clocks({"dla_root", "gmacusb_root"}, {Source(3)}) @@
    Clocks({"perh0_root"}, {Source(2)})

MediaRoots ==
    Clocks({"perh1_root"}, {Source(2)}) @@
    Clocks({"vin_root", "vout_root", "cdechifi4_root"}, {Source(3)}) @@
    Clocks({"audio_root"}, {Gate, Divider(4)})

RootDividers ==
    Clocks({"cdec_root", "voutbus_root"}, {Source(3)}) @@
    Clocks({"cpunbus_root_div"}, {Divider(2)}) @@
    Clocks({"dsp_root_div", "perh0_src", "perh1_src"}, {Divider(3)}) @@
    Clocks({"pll0_testout"}, {Gate, Divider(5)})

CpuAndBusClocks ==
    Clocks({"pll1_testout", "pll2_testout"}, {Gate, Divider(5)}) @@
    Clocks({"pll2_refclk"}, {Source(2)}) @@
    Clocks({"cpu_core", "cpu_axi", "ahb_bus", "apb1_bus"}, {Divider(4)})

CpuClocks ==
    Clocks({"apb2_bus"}, {Divider(4)}) @@
    Clocks({"dom3ahb_bus", "dom7ahb_bus", "u74_core0", "u74_axi",
            "u74rtc_toggle"},
           {Gate}) @@
    Clocks({"u74_core1"}, {Gate, Divider(4)})

DmaAndDlaClocks ==
    Clocks({"sgdma2p_axi", "dma2pnoc_axi", "sgdma2p_ahb", "dla_axi",
            "dlanoc_axi", "dla_apb"},
           {Gate}) @@
    Clocks({"dla_bus"}, {Divider(3)})

Vp6Clocks ==
    Clocks({"vp6_core", "vp6_axi"}, {Gate, Divider(3)}) @@
    Clocks({"vp6bus_src", "vcdecbus_src"}, {Divider(3)}) @@
    Clocks({"vdec_bus"}, {Divider(4)}) @@
    Clocks({"vdec_axi", "vdecbrg_mainclk"}, {Gate})

DecoderClocks ==
    Clocks({"vdec_bclk", "vdec_cclk", "jpeg_axi", "jpeg_cclk"},
           {Gate, Divider(4)}) @@
    Clocks({"vdec_apb"}, {Gate})

GraphicsClocks ==
    Clocks({"jpeg_apb", "gc300_ahb", "gc300_axi", "jpcgc300_mainclk"},
           {Gate}) @@
    Clocks({"gc300_2x"}, {Gate, Divider(4)}) @@
    Clocks({"jpcgc300_axibus", "venc_bus"}, {Divider(4)})

EncoderClocks ==
    Clocks({"venc_axi", "vencbrg_mainclk", "venc_apb"}, {Gate}) @@
    Clocks({"venc_bclk", "venc_cclk"}, {Gate, Divider(4)})

DdrPllClocks ==
    Clocks({"ddrpll_div2", "ddrpll_div4", "ddrpll_div8", "ddrosc_div2"},
           {Gate, Divider(2)})

DdrClocks ==
    Clocks({"ddrc0", "ddrc1"}, {Gate, Source(4)}) @@
    Clocks({"ddrphy_apb"}, {Gate}) @@
    Clocks({"noc_rob"}, {Divider(4)})

NneClocks ==
    Clocks({"noc_cog"}, {Divider(4)}) @@
    Clocks({"nne_ahb", "nne_axi", "nnenoc_axi", "dlaslv_axi", "dspx2c_axi"},
           {Gate}) @@
    Clocks({"nnebus_src1"}, {Divider(3)}) @@
    Clocks({"nne_bus"}, {Source(2)})

Hifi4Clocks ==
    Clocks({"hifi4_src"}, {Divider(3)}) @@
    Clocks({"hifi4_corefree", "hifi4_bus", "sgdma1p_bus"}, {Divider(4)}) @@
    Clocks({"hifi4_core", "hifi4_axi", "hifi4noc_axi", "sgdma1p_axi"},
           {Gate})

UsbClocks ==
    Clocks({"dma1p_axi", "usb_axi", "usbnoc_axi"}, {Gate}) @@
    Clocks({"x2c_axi"}, {Gate, Divider(4)}) @@
    Clocks({"usb_bus"}, {Divider(4)}) @@
    Clocks({"usbphy_rootdiv"}, {Divider(3)})

UsbPhyAndAudioClocks ==
    Clocks({"usbphy_125m"}, {Gate, Divider(4)}) @@
    Clocks({"usbphy_plldiv25m"}, {Gate, Divider(6)}) @@
    Clocks({"usbphy_25m"}, {Source(2)}) @@
    Clocks({"audio_div"}, {Divider(18)}) @@
    Clocks({"audio_src", "audio_12288"}, {Gate})

IspClocks ==
    Clocks({"vin_src"}, {Gate, Divider(3)}) @@
    Clocks({"isp0_bus", "isp1_bus"}, {Divider(4)}) @@
    Clocks({"isp0_axi", "isp0noc_axi", "ispslv_axi", "isp1_axi"}, {Gate})

VideoPortClocks ==
    Clocks({"isp1noc_axi", "vin_axi", "vinnoc_axi", "disp_axi"}, {Gate}) @@
    Clocks({"vin_bus"}, {Divider(4)}) @@
    Clocks({"vout_src"}, {Gate, Divider(3)}) @@
    Clocks({"dispbus_src", "disp_bus"}, {Divider(3)})

SdioClocks ==
    Clocks({"dispnoc_axi", "sdio0_ahb", "sdio1_ahb"}, {Gate}) @@
    Clocks({"sdio0_cclkint", "sdio1_cclkint"}, {Gate, Divider(5)}) @@
    Clocks({"sdio0_cclkint_inv"}, {Polarity})

GmacClocks ==
    Clocks({"sdio1_cclkint_inv"}, {Polarity}) @@
    Clocks({"gmac_ahb"}, {Gate}) @@
    Clocks({"gmac_root_div"}, {Divider(4)}) @@
    Clocks({"gmac_ptp_refclk"}, {Gate, Divider(5)}) @@
    Clocks({"gmac_gtxclk"}, {Gate, Divider(8)}) @@
    Clocks({"gmac_rmii_txclk"}, {Gate, Divider(4)})

GmacLineClocks ==
    Clocks({"gmac_rmii_rxclk"}, {Gate, Divider(4)}) @@
    Clocks({"gmac_tx"}, {Source(3)}) @@
    Clocks({"gmac_tx_inv", "gmac_rx_inv"}, {Polarity}) @@
    Clocks({"gmac_rx_pre"}, {Source(2)}) @@
    Clocks({"gmac_rmii"}, {Gate})

BridgeClocks ==
    Clocks({"gmac_tophyref"}, {Gate, Divider(7)}) @@
    Clocks({"spi2ahb_ahb", "ezmaster_ahb", "e24_ahb", "e24rtc_toggle"},
           {Gate}) @@
    Clocks({"spi2ahb_core"}, {Gate, Divider(5)})

QspiAndCryptoClocks ==
    Clocks({"qspi_ahb", "qspi_apb", "sec_ahb", "aes_clk", "sha_clk",
            "pka_clk"},
           {Gate}) @@
    Clocks({"qspi_refclk"}, {Gate, Divider(5)})

UartClocks ==
    Clocks({"trng_apb", "otp_apb", "uart0_apb", "uart1_apb"}, {Gate}) @@
    Clocks({"uart0_core", "uart1_core"}, {Gate, Divider(6)})

SpiAndI2cClocks ==
    Clocks({"spi0_apb", "spi1_apb", "i2c0_apb"}, {Gate}) @@
    Clocks({"spi0_core", "spi1_core", "i2c0_core"}, {Gate, Divider(6)})

GpioAndUartClocks ==
    Clocks({"i2c1_apb", "gpio_apb", "uart2_apb"}, {Gate}) @@
    Clocks({"i2c1_core", "uart2_core"}, {Gate, Divider(6)})

Uart3AndSpiClocks ==
    Clocks({"uart3_apb", "spi2_apb", "spi3_apb"}, {Gate}) @@
    Clocks({"uart3_core", "spi2_core", "spi3_core"}, {Gate, Divider(6)})

I2cAndWatchdogClocks ==
    Clocks({"i2c2_apb", "i2c3_apb", "wdtimer_apb"}, {Gate}) @@
    Clocks({"i2c2_core", "i2c3_core", "wdt_coreclk"}, {Gate, Divider(6)})

TimerClocks ==
    Clocks({"timer0_coreclk", "timer1_coreclk", "timer2_coreclk",
            "timer3_coreclk"},
           {Gate, Divider(6)})

LateTimerClocks ==
    Clocks({"timer4_coreclk", "timer5_coreclk", "timer6_coreclk"},
           {Gate, Divider(6)}) @@
    Clocks({"vp6intc_apb", "pwm_apb"}, {Gate})

MsiAndTempClocks ==
    Clocks({"msi_apb", "temp_apb", "syserr_apb"}, {Gate}) @@
    Clocks({"temp_sense"}, {Gate, Divider(5)})

-----------------------------------------------------------------------------
ClkgenLayout ==
    CoreRoots @@ MediaRoots @@ RootDividers @@ CpuAndBusClocks @@ CpuClocks
    @@ DmaAndDlaClocks @@ Vp6Clocks @@ DecoderClocks @@ GraphicsClocks @@
    EncoderClocks @@ DdrPllClocks @@ DdrClocks @@ NneClocks @@ Hifi4Clocks
    @@ UsbClocks @@ UsbPhyAndAudioClocks @@ IspClocks @@ VideoPortClocks @@
    SdioClocks @@ GmacClocks @@ GmacLineClocks @@ BridgeClocks @@
    QspiAndCryptoClocks @@ UartClocks @@ SpiAndI2cClocks @@
    GpioAndUartClocks @@ Uart3AndSpiClocks @@ I2cAndWatchdogClocks @@
    TimerClocks @@ LateTimerClocks @@ MsiAndTempClocks
=============================================================================
