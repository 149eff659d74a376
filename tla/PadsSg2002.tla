---------------------------- MODULE PadsSg2002 -----------------------------
(***************************************************************************)
(* include/pinmux_sg2002.h, the pads of the Duo256: their function-select    *)
(* registers and the function that each value of a register selects.        *)
(* (PTEST has a function but no register and is left out.)                   *)
(***************************************************************************)
EXTENDS Sequences, TLC

\* FMUX_GPIO_FUNCSEL_*: the pads in the order of their registers, which are 4 bytes apart from
\* 0x0 on, each with its select in the lowest three bits (OFFSET 0, MASK 0x7).
Duo256StoragePads == <<
    "CAM_MCLK0", "CAM_PD0", "CAM_RST0", "CAM_MCLK1", "CAM_PD1", "IIC3_SCL", "IIC3_SDA", "SD0_CLK",
    "SD0_CMD", "SD0_D0", "SD0_D1", "SD0_D2", "SD0_D3", "SD0_CD", "SD0_PWR_EN", "SPK_EN", "UART0_TX",
    "UART0_RX", "EMMC_RSTN", "EMMC_DAT2", "EMMC_CLK", "EMMC_DAT0", "EMMC_DAT3", "EMMC_CMD",
    "EMMC_DAT1", "JTAG_CPU_TMS", "JTAG_CPU_TCK", "JTAG_CPU_TRST", "IIC0_SCL", "IIC0_SDA", "AUX0",
    "PWR_VBAT_DET", "PWR_RSTN", "PWR_SEQ1", "PWR_SEQ2", "PWR_SEQ3", "PWR_WAKEUP0", "PWR_WAKEUP1">>

Duo256PowerPads == <<
    "PWR_BUTTON1", "PWR_ON", "XTAL_XIN", "PWR_GPIO0", "PWR_GPIO1", "PWR_GPIO2", "CLK32K", "CLK25M",
    "IIC2_SCL", "IIC2_SDA", "UART2_TX", "UART2_RTS", "UART2_RX", "UART2_CTS", "SD1_D3", "SD1_D2",
    "SD1_D1", "SD1_D0", "SD1_CMD", "SD1_CLK", "RSTN", "PWM0_BUCK", "ADC3", "ADC2", "ADC1", "USB_ID",
    "USB_VBUS_EN", "PKG_TYPE0", "USB_VBUS_DET", "PKG_TYPE1", "PKG_TYPE2", "MUX_SPI1_MISO",
    "MUX_SPI1_MOSI", "MUX_SPI1_CS", "MUX_SPI1_SCK", "PAD_ETH_TXM", "PAD_ETH_TXP", "PAD_ETH_RXM",
    "PAD_ETH_RXP", "VIVO_D10">>

Duo256MediaPads == <<
    "VIVO_D9", "VIVO_D8", "VIVO_D7", "VIVO_D6", "VIVO_D5", "VIVO_D4", "VIVO_D3", "VIVO_D2",
    "VIVO_D1", "VIVO_D0", "VIVO_CLK", "PAD_MIPIRX5N", "PAD_MIPIRX5P", "PAD_MIPIRX4N",
    "PAD_MIPIRX4P", "PAD_MIPIRX3N", "PAD_MIPIRX3P", "PAD_MIPIRX2N", "PAD_MIPIRX2P", "PAD_MIPIRX1N",
    "PAD_MIPIRX1P", "PAD_MIPIRX0N", "PAD_MIPIRX0P", "PAD_MIPI_TXM4", "PAD_MIPI_TXP4",
    "PAD_MIPI_TXM3", "PAD_MIPI_TXP3", "PAD_MIPI_TXM2", "PAD_MIPI_TXP2", "PAD_MIPI_TXM1",
    "PAD_MIPI_TXP1", "PAD_MIPI_TXM0", "PAD_MIPI_TXP0", "PAD_AUD_AINL_MIC", "PAD_AUD_AINR_MIC",
    "PAD_AUD_AOUTL", "PAD_AUD_AOUTR", "GPIO_RTX", "GPIO_ZQ">>

Duo256Pads == Duo256StoragePads \o Duo256PowerPads \o Duo256MediaPads

\* <pad>__<function>: the function that each value, from 0 on, selects; "" where the header has none.
Duo256StorageFunctions == [
    CAM_MCLK0 |-> <<"CAM_MCLK0", "", "AUX1", "XGPIOA_0">>,
    CAM_PD0 |-> <<"", "IIS1_MCLK", "", "XGPIOA_1", "CAM_HS0">>,
    CAM_RST0 |-> <<"", "", "", "XGPIOA_2", "CAM_VS0", "", "IIC4_SCL">>,
    CAM_MCLK1 |-> <<"CAM_MCLK1", "", "AUX2", "XGPIOA_3", "CAM_HS0">>,
    CAM_PD1 |-> <<"", "IIS1_MCLK", "", "XGPIOA_4", "CAM_VS0", "", "IIC4_SDA">>,
    IIC3_SCL |-> <<"IIC3_SCL", "", "", "XGPIOA_5">>,
    IIC3_SDA |-> <<"IIC3_SDA", "", "", "XGPIOA_6">>,
    SD0_CLK |-> <<"SDIO0_CLK", "IIC1_SDA", "SPI0_SCK", "XGPIOA_7", "", "PWM_15", "EPHY_LNK_LED", "DBG_0">>,
    SD0_CMD |-> <<"SDIO0_CMD", "IIC1_SCL", "SPI0_SDO", "XGPIOA_8", "", "PWM_14", "EPHY_SPD_LED", "DBG_1">>,
    SD0_D0 |-> <<"SDIO0_D_0", "CAM_MCLK1", "SPI0_SDI", "XGPIOA_9", "UART3_TX", "PWM_13", "WG0_D0", "DBG_2">>,
    SD0_D1 |-> <<"SDIO0_D_1", "IIC1_SDA", "AUX0", "XGPIOA_10", "UART1_TX", "PWM_12", "WG0_D1", "DBG_3">>,
    SD0_D2 |-> <<"SDIO0_D_2", "IIC1_SCL", "AUX1", "XGPIOA_11", "UART1_RX", "PWM_11", "WG1_D0", "DBG_4">>,
    SD0_D3 |-> <<"SDIO0_D_3", "CAM_MCLK0", "SPI0_CS_X", "XGPIOA_12", "UART3_RX", "PWM_10", "WG1_D1", "DBG_5">>,
    SD0_CD |-> <<"SDIO0_CD", "", "", "XGPIOA_13">>,
    SD0_PWR_EN |-> <<"SDIO0_PWR_EN", "", "", "XGPIOA_14">>,
    SPK_EN |-> <<"", "", "", "XGPIOA_15">>,
    UART0_TX |-> <<"UART0_TX", "CAM_MCLK1", "PWM_4", "XGPIOA_16", "UART1_TX", "AUX1", "", "DBG_6">>,
    UART0_RX |-> <<"UART0_RX", "CAM_MCLK0", "PWM_5", "XGPIOA_17", "UART1_RX", "AUX0", "", "DBG_7">>,
    EMMC_RSTN |-> <<"EMMC_RSTN", "", "", "XGPIOA_21", "AUX2">>,
    EMMC_DAT2 |-> <<"EMMC_DAT_2", "SPINOR_HOLD_X", "SPINAND_HOLD", "XGPIOA_26">>,
    EMMC_CLK |-> <<"EMMC_CLK", "SPINOR_SCK", "SPINAND_CLK", "XGPIOA_22">>,
    EMMC_DAT0 |-> <<"EMMC_DAT_0", "SPINOR_MOSI", "SPINAND_MOSI", "XGPIOA_25">>,
    EMMC_DAT3 |-> <<"EMMC_DAT_3", "SPINOR_WP_X", "SPINAND_WP", "XGPIOA_27">>,
    EMMC_CMD |-> <<"EMMC_CMD", "SPINOR_MISO", "SPINAND_MISO", "XGPIOA_23">>,
    EMMC_DAT1 |-> <<"EMMC_DAT_1", "SPINOR_CS_X", "SPINAND_CS", "XGPIOA_24">>,
    JTAG_CPU_TMS |-> <<"JTAG_CPU_TMS", "CAM_MCLK0", "PWM_7", "XGPIOA_19", "UART1_RTS", "AUX0", "UART1_TX", "VO_D_28">>,
    JTAG_CPU_TCK |-> <<"JTAG_CPU_TCK", "CAM_MCLK1", "PWM_6", "XGPIOA_18", "UART1_CTS", "AUX1", "UART1_RX", "VO_D_29">>,
    JTAG_CPU_TRST |-> <<"JTAG_CPU_TRST", "", "", "XGPIOA_20", "", "", "VO_D_30">>]

Duo256PowerFunctions == [
    IIC0_SCL |-> <<"IIC0_SCL", "UART1_TX", "UART2_TX", "XGPIOA_28", "", "WG0_D0", "", "DBG_10">>,
    IIC0_SDA |-> <<"IIC0_SDA", "UART1_RX", "UART2_RX", "XGPIOA_29", "", "WG0_D1", "WG1_D0", "DBG_11">>,
    AUX0 |-> <<"AUX0", "", "", "XGPIOA_30", "IIS1_MCLK", "VO_D_31", "WG1_D1", "DBG_12">>,
    PWR_VBAT_DET |-> <<"PWR_VBAT_DET">>,
    PWR_RSTN |-> <<"PWR_RSTN">>,
    PWR_SEQ1 |-> <<"PWR_SEQ1", "", "", "PWR_GPIO_3">>,
    PWR_SEQ2 |-> <<"PWR_SEQ2", "", "", "PWR_GPIO_4">>,
    PWR_SEQ3 |-> <<"PWR_SEQ3", "", "", "PWR_GPIO_5">>,
    PWR_WAKEUP0 |-> <<"PWR_WAKEUP0", "PWR_IR0", "PWR_UART0_TX", "PWR_GPIO_6", "UART1_TX", "IIC4_SCL", "EPHY_LNK_LED", "WG2_D0">>,
    PWR_WAKEUP1 |-> <<"PWR_WAKEUP1", "PWR_IR1", "", "PWR_GPIO_7", "UART1_TX", "IIC4_SCL", "EPHY_LNK_LED", "WG0_D0">>,
    PWR_BUTTON1 |-> <<"PWR_BUTTON1", "", "", "PWR_GPIO_8", "UART1_RX", "IIC4_SDA", "EPHY_SPD_LED", "WG2_D1">>,
    PWR_ON |-> <<"PWR_ON", "", "", "PWR_GPIO_9", "UART1_RX", "IIC4_SDA", "EPHY_SPD_LED", "WG0_D1">>,
    XTAL_XIN |-> <<"PWR_XTAL_CLKIN">>,
    PWR_GPIO0 |-> <<"PWR_GPIO_0", "UART2_TX", "PWR_UART0_RX", "", "PWM_8">>,
    PWR_GPIO1 |-> <<"PWR_GPIO_1", "UART2_RX", "", "EPHY_LNK_LED", "PWM_9", "PWR_IIC_SCL", "IIC2_SCL", "PWR_MCU_JTAG_TMS">>,
    PWR_GPIO2 |-> <<"PWR_GPIO_2", "", "PWR_SECTICK", "EPHY_SPD_LED", "PWM_10", "PWR_IIC_SDA", "IIC2_SDA", "PWR_MCU_JTAG_TCK">>,
    CLK32K |-> <<"CLK32K", "AUX0", "PWR_MCU_JTAG_TDI", "PWR_GPIO_10", "PWM_2", "KEY_COL0", "CAM_MCLK0", "DBG_0">>,
    CLK25M |-> <<"CLK25M", "AUX1", "PWR_MCU_JTAG_TDO", "PWR_GPIO_11", "PWM_3", "KEY_COL1", "CAM_MCLK1", "DBG_1">>,
    IIC2_SCL |-> <<"IIC2_SCL", "PWM_14", "", "PWR_GPIO_12", "UART2_RX", "", "", "KEY_COL2">>,
    IIC2_SDA |-> <<"IIC2_SDA", "PWM_15", "", "PWR_GPIO_13", "UART2_TX", "IIS1_MCLK", "IIS2_MCLK", "KEY_COL3">>,
    UART2_TX |-> <<"UART2_TX", "PWM_11", "PWR_UART1_TX", "PWR_GPIO_14", "KEY_ROW3", "UART4_TX", "IIS2_BCLK", "WG2_D0">>,
    UART2_RTS |-> <<"UART2_RTS", "PWM_8", "", "PWR_GPIO_15", "KEY_ROW0", "UART4_RTS", "IIS2_DO", "WG1_D0">>,
    UART2_RX |-> <<"UART2_RX", "PWM_10", "PWR_UART1_RX", "PWR_GPIO_16", "KEY_COL3", "UART4_RX", "IIS2_DI", "WG2_D1">>,
    UART2_CTS |-> <<"UART2_CTS", "PWM_9", "", "PWR_GPIO_17", "KEY_ROW1", "UART4_CTS", "IIS2_LRCK", "WG1_D1">>]

Duo256SerialFunctions == [
    SD1_D3 |-> <<"PWR_SD1_D3_VO32", "SPI2_CS_X", "IIC1_SCL", "PWR_GPIO_18", "CAM_MCLK0", "UART3_CTS", "PWR_SPINOR1_CS_X", "PWM_4">>,
    SD1_D2 |-> <<"PWR_SD1_D2_VO33", "IIC1_SCL", "UART2_TX", "PWR_GPIO_19", "CAM_MCLK0", "UART3_TX", "PWR_SPINOR1_HOLD_X", "PWM_5">>,
    SD1_D1 |-> <<"PWR_SD1_D1_VO34", "IIC1_SDA", "UART2_RX", "PWR_GPIO_20", "CAM_MCLK1", "UART3_RX", "PWR_SPINOR1_WP_X", "PWM_6">>,
    SD1_D0 |-> <<"PWR_SD1_D0_VO35", "SPI2_SDI", "IIC1_SDA", "PWR_GPIO_21", "CAM_MCLK1", "UART3_RTS", "PWR_SPINOR1_MISO", "PWM_7">>,
    SD1_CMD |-> <<"PWR_SD1_CMD_VO36", "SPI2_SDO", "IIC3_SCL", "PWR_GPIO_22", "CAM_VS0", "EPHY_LNK_LED", "PWR_SPINOR1_MOSI", "PWM_8">>,
    SD1_CLK |-> <<"PWR_SD1_CLK_VO37", "SPI2_SCK", "IIC3_SDA", "PWR_GPIO_23", "CAM_HS0", "EPHY_SPD_LED", "PWR_SPINOR1_SCK", "PWM_9">>,
    RSTN |-> <<"RSTN">>,
    PWM0_BUCK |-> <<"PWM_0", "", "", "XGPIOB_0">>,
    ADC3 |-> <<"", "CAM_MCLK0", "IIC4_SCL", "XGPIOB_1", "PWM_12", "EPHY_LNK_LED", "WG2_D0", "UART3_TX">>,
    ADC2 |-> <<"", "CAM_MCLK1", "IIC4_SDA", "XGPIOB_2", "PWM_13", "EPHY_SPD_LED", "WG2_D1", "UART3_RX">>,
    ADC1 |-> <<"", "", "", "XGPIOB_3", "KEY_COL2">>,
    USB_ID |-> <<"USB_ID", "", "", "XGPIOB_4">>,
    USB_VBUS_EN |-> <<"USB_VBUS_EN", "", "", "XGPIOB_5">>,
    PKG_TYPE0 |-> <<"PKG_TYPE0">>,
    USB_VBUS_DET |-> <<"USB_VBUS_DET", "", "", "XGPIOB_6", "CAM_MCLK0", "CAM_MCLK1">>,
    PKG_TYPE1 |-> <<"PKG_TYPE1">>,
    PKG_TYPE2 |-> <<"PKG_TYPE2">>,
    MUX_SPI1_MISO |-> <<"", "UART3_RTS", "IIC1_SDA", "XGPIOB_8", "PWM_9", "KEY_COL1", "SPI1_SDI", "DBG_14">>,
    MUX_SPI1_MOSI |-> <<"", "UART3_RX", "IIC1_SCL", "XGPIOB_7", "PWM_8", "KEY_COL0", "SPI1_SDO", "DBG_13">>,
    MUX_SPI1_CS |-> <<"", "UART3_CTS", "CAM_MCLK0", "XGPIOB_10", "PWM_11", "KEY_ROW3", "SPI1_CS_X", "DBG_16">>,
    MUX_SPI1_SCK |-> <<"", "UART3_TX", "CAM_MCLK1", "XGPIOB_9", "PWM_10", "KEY_ROW2", "SPI1_SCK", "DBG_15">>,
    PAD_ETH_TXM |-> <<"", "UART3_RTS", "IIC1_SDA", "XGPIOB_24", "PWM_12", "CAM_MCLK1", "SPI1_SDI", "IIS2_BCLK">>,
    PAD_ETH_TXP |-> <<"", "UART3_RX", "IIC1_SCL", "XGPIOB_25", "PWM_13", "CAM_MCLK0", "SPI1_SDO", "IIS2_LRCK">>,
    PAD_ETH_RXM |-> <<"", "UART3_CTS", "CAM_MCLK0", "XGPIOB_26", "PWM_14", "CAM_VS0", "SPI1_CS_X", "IIS2_DI">>,
    PAD_ETH_RXP |-> <<"", "UART3_TX", "CAM_MCLK1", "XGPIOB_27", "PWM_15", "CAM_HS0", "SPI1_SCK", "IIS2_DO">>]

Duo256VideoFunctions == [
    VIVO_D10 |-> <<"PWM_1", "VI1_D_10", "VO_D_23", "XGPIOB_11", "RMII0_IRQ", "CAM_MCLK0", "IIC1_SDA", "UART2_TX">>,
    VIVO_D9 |-> <<"PWM_2", "VI1_D_9", "VO_D_22", "XGPIOB_12", "", "CAM_MCLK1", "IIC1_SCL", "UART2_RX">>,
    VIVO_D8 |-> <<"PWM_3", "VI1_D_8", "VO_D_21", "XGPIOB_13", "RMII0_MDIO", "SPI3_SDO", "IIC2_SCL", "CAM_VS0">>,
    VIVO_D7 |-> <<"VI2_D_7", "VI1_D_7", "VO_D_20", "XGPIOB_14", "RMII0_RXD1", "SPI3_SDI", "IIC2_SDA", "CAM_HS0">>,
    VIVO_D6 |-> <<"VI2_D_6", "VI1_D_6", "VO_D_19", "XGPIOB_15", "RMII0_REFCLKI", "SPI3_SCK", "UART2_TX", "CAM_VS0">>,
    VIVO_D5 |-> <<"VI2_D_5", "VI1_D_5", "VO_D_18", "XGPIOB_16", "RMII0_RXD0", "SPI3_CS_X", "UART2_RX", "CAM_HS0">>,
    VIVO_D4 |-> <<"VI2_D_4", "VI1_D_4", "VO_D_17", "XGPIOB_17", "RMII0_MDC", "IIC1_SDA", "UART2_CTS", "CAM_VS0">>,
    VIVO_D3 |-> <<"VI2_D_3", "VI1_D_3", "VO_D_16", "XGPIOB_18", "RMII0_TXD0", "IIC1_SCL", "UART2_RTS", "CAM_HS0">>,
    VIVO_D2 |-> <<"VI2_D_2", "VI1_D_2", "VO_D_15", "XGPIOB_19", "RMII0_TXD1", "CAM_MCLK1", "PWM_2", "UART2_TX">>,
    VIVO_D1 |-> <<"VI2_D_1", "VI1_D_1", "VO_D_14", "XGPIOB_20", "RMII0_RXDV", "IIC3_SDA", "PWM_3", "IIC4_SCL">>,
    VIVO_D0 |-> <<"VI2_D_0", "VI1_D_0", "VO_D_13", "XGPIOB_21", "RMII0_TXCLK", "IIC3_SCL", "WG1_D0", "IIC4_SDA">>,
    VIVO_CLK |-> <<"VI2_CLK", "VI1_CLK", "VO_CLK1", "XGPIOB_22", "RMII0_TXEN", "CAM_MCLK0", "WG1_D1", "UART2_RX">>,
    PAD_MIPIRX5N |-> <<"", "VI1_D_11", "VO_D_12", "XGPIOC_0", "", "CAM_MCLK0", "WG0_D0", "DBG_0">>,
    PAD_MIPIRX5P |-> <<"", "VI1_D_12", "VO_D_11", "XGPIOC_1", "IIS1_MCLK", "CAM_MCLK1", "WG0_D1", "DBG_1">>,
    PAD_MIPIRX4N |-> <<"", "VI0_CLK", "VI1_D_13", "XGPIOC_2", "IIC1_SDA", "CAM_MCLK0", "KEY_ROW0", "MUX_SPI1_SCK">>,
    PAD_MIPIRX4P |-> <<"", "VI0_D_0", "VI1_D_14", "XGPIOC_3", "IIC1_SCL", "CAM_MCLK1", "KEY_ROW1", "MUX_SPI1_CS">>,
    PAD_MIPIRX3N |-> <<"", "VI0_D_1", "VI1_D_15", "XGPIOC_4", "CAM_MCLK0", "", "", "MUX_SPI1_MISO">>,
    PAD_MIPIRX3P |-> <<"", "VI0_D_2", "VI1_D_16", "XGPIOC_5", "", "", "", "MUX_SPI1_MOSI">>]

Duo256MediaFunctions == [
    PAD_MIPIRX2N |-> <<"", "VI0_D_3", "VO_D_10", "XGPIOC_6", "VI1_D_17", "IIC4_SCL", "", "DBG_6">>,
    PAD_MIPIRX2P |-> <<"", "VI0_D_4", "VO_D_9", "XGPIOC_7", "VI1_D_18", "IIC4_SDA", "", "DBG_7">>,
    PAD_MIPIRX1N |-> <<"", "VI0_D_5", "VO_D_8", "XGPIOC_8", "", "", "KEY_ROW3", "DBG_8">>,
    PAD_MIPIRX1P |-> <<"", "VI0_D_6", "VO_D_7", "XGPIOC_9", "IIC1_SDA", "", "KEY_ROW2", "DBG_9">>,
    PAD_MIPIRX0N |-> <<"", "VI0_D_7", "VO_D_6", "XGPIOC_10", "IIC1_SCL", "CAM_MCLK1", "", "DBG_10">>,
    PAD_MIPIRX0P |-> <<"", "VI0_D_8", "VO_D_5", "XGPIOC_11", "CAM_MCLK0", "", "", "DBG_11">>,
    PAD_MIPI_TXM4 |-> <<"", "SD1_CLK", "VO_D_24", "XGPIOC_18", "CAM_MCLK1", "PWM_12", "IIC1_SDA", "DBG_18">>,
    PAD_MIPI_TXP4 |-> <<"", "SD1_CMD", "VO_D_25", "XGPIOC_19", "CAM_MCLK0", "PWM_13", "IIC1_SCL", "DBG_19">>,
    PAD_MIPI_TXM3 |-> <<"", "SD1_D0", "VO_D_26", "XGPIOC_20", "IIC2_SDA", "PWM_14", "IIC1_SDA", "CAM_VS0">>,
    PAD_MIPI_TXP3 |-> <<"", "SD1_D1", "VO_D_27", "XGPIOC_21", "IIC2_SCL", "PWM_15", "IIC1_SCL", "CAM_HS0">>,
    PAD_MIPI_TXM2 |-> <<"", "VI0_D_13", "VO_D_0", "XGPIOC_16", "IIC1_SDA", "PWM_8", "SPI0_SCK", "SD1_D2">>,
    PAD_MIPI_TXP2 |-> <<"", "VI0_D_14", "VO_CLK0", "XGPIOC_17", "IIC1_SCL", "PWM_9", "SPI0_CS_X", "SD1_D3">>,
    PAD_MIPI_TXM1 |-> <<"", "VI0_D_11", "VO_D_2", "XGPIOC_14", "IIC2_SDA", "PWM_10", "SPI0_SDO", "DBG_14">>,
    PAD_MIPI_TXP1 |-> <<"", "VI0_D_12", "VO_D_1", "XGPIOC_15", "IIC2_SCL", "PWM_11", "SPI0_SDI", "DBG_15">>,
    PAD_MIPI_TXM0 |-> <<"", "VI0_D_9", "VO_D_4", "XGPIOC_12", "CAM_MCLK1", "PWM_14", "CAM_VS0", "DBG_12">>,
    PAD_MIPI_TXP0 |-> <<"", "VI0_D_10", "VO_D_3", "XGPIOC_13", "CAM_MCLK0", "PWM_15", "CAM_HS0", "DBG_13">>,
    PAD_AUD_AINL_MIC |-> <<"", "", "", "XGPIOC_23", "IIS1_BCLK", "IIS2_BCLK">>,
    PAD_AUD_AINR_MIC |-> <<"", "", "", "XGPIOC_22", "IIS1_DO", "IIS2_DI", "IIS1_DI">>,
    PAD_AUD_AOUTL |-> <<"", "", "", "XGPIOC_25", "IIS1_LRCK", "IIS2_LRCK">>,
    PAD_AUD_AOUTR |-> <<"", "", "", "XGPIOC_24", "IIS1_DI", "IIS2_DO", "IIS1_DO">>,
    GPIO_RTX |-> <<"", "", "", "XGPIOB_23", "PWM_1", "CAM_MCLK0">>,
    GPIO_ZQ |-> <<"", "", "", "PWR_GPIO_24", "PWM_2">>]

Duo256Functions == Duo256StorageFunctions @@ Duo256PowerFunctions @@ Duo256SerialFunctions @@ Duo256VideoFunctions @@ Duo256MediaFunctions
=============================================================================
